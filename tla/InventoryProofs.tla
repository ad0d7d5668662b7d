-------------------------- MODULE InventoryProofs --------------------------
(* Theorems about the Inventory Service for every set of orders, products,  *)
(* threads and every bound: InventoryInv is inductive.                      *)
EXTENDS Inventory, FiniteSetTheorems, TLAPS

\* The tables are empty, the threads idle: the invariant holds at the start.
LEMMA InitInv == Init => InventoryInv
<1> SUFFICES ASSUME Init PROVE InventoryInv
  OBVIOUS
<1> USE InventoryAssumption, NoneAssumption
<1>1. TypeOK
  BY DEF Init, TypeOK, TableTypes, QueueTypes, ThreadTypes, RelayTypes,
         AdjustRecord, TxRecord, NoTx, RowState, ConsumerPC, RelayPC, Threads, Events
<1>2. ConsumerInv
  BY DEF Init, ConsumerInv, Threads
<1>3. LockInv
  BY DEF Init, LockInv, Held, Threads
<1>4. ReleaseInv /\ RelayInv
  BY DEF Init, ReleaseInv, RelayInv, Threads
<1>5. HandledInv
  BY DEF Init, HandledInv, Threads
<1>6. DecisionConsistent
  BY DEF Init, DecisionConsistent, Reserved, Events
<1>7. AnnouncedIsDurable /\ DeletedIsDone
  BY DEF Init, AnnouncedIsDurable, DeletedIsDone
<1> QED
  BY <1>1, <1>2, <1>3, <1>4, <1>5, <1>6, <1>7 DEF InventoryInv

-----------------------------------------------------------------------------
(* Types.                                                                   *)

\* A consumer moves between the labels of consumers only.
LEMMA GotoType ==
  ASSUME ThreadTypes, NEW c \in Consumers, NEW l \in ConsumerPC, Goto(c, l)
  PROVE  /\ pc' \in [Threads -> ConsumerPC \cup RelayPC]
         /\ \A d \in Consumers : pc'[d] \in ConsumerPC
         /\ \A r \in Relays : pc'[r] \in RelayPC
BY InventoryAssumption DEF ThreadTypes, Goto, Threads

\* The record of no transaction is a transaction record.
LEMMA NoTxType == NoTx \in TxRecord
BY InventoryAssumption DEF NoTx, TxRecord

\* Returning from the handler keeps the types of the threads.
LEMMA ReturnType ==
  ASSUME ThreadTypes, NEW c \in Consumers, Return(c)
  PROVE  ThreadTypes'
<1>1. "idle" \in ConsumerPC /\ Goto(c, "idle")
  BY DEF Return, ConsumerPC
<1> QED
  BY <1>1, GotoType, NoTxType DEF Return, ThreadTypes

\* So does ending a transaction.
LEMMA EndTxType ==
  ASSUME ThreadTypes, NEW c \in Consumers, NEW l \in ConsumerPC, EndTx(c, l)
  PROVE  ThreadTypes'
<1>1. Goto(c, l)
  BY DEF EndTx
<1> QED
  BY <1>1, GotoType, NoTxType DEF EndTx, ThreadTypes

\* So does every update of a field of the transaction record ...
LEMMA TxFieldType ==
  ASSUME NEW t \in TxRecord
  PROVE  /\ [t EXCEPT !.line = t.line + 1] \in TxRecord
         /\ \A b \in BOOLEAN : [t EXCEPT !.short = b] \in TxRecord
         /\ \A R \in SUBSET Products : [t EXCEPT !.rows = R] \in TxRecord
         /\ t.attempt < RetryAttempts =>
              [NoTx EXCEPT !.attempt = t.attempt + 1] \in TxRecord
<1>1. [t EXCEPT !.line = t.line + 1] \in TxRecord
  BY DEF TxRecord
<1>2. \A b \in BOOLEAN : [t EXCEPT !.short = b] \in TxRecord
  BY DEF TxRecord
<1>3. \A R \in SUBSET Products : [t EXCEPT !.rows = R] \in TxRecord
  BY DEF TxRecord
<1>4. ASSUME t.attempt < RetryAttempts
      PROVE  [NoTx EXCEPT !.attempt = t.attempt + 1] \in TxRecord
  <2>1. t.attempt + 1 \in 1..RetryAttempts
    BY <1>4, InventoryAssumption DEF TxRecord
  <2> QED
    BY <2>1, NoTxType DEF TxRecord, NoTx
<1> QED
  BY <1>1, <1>2, <1>3, <1>4

\* ... together with the move that goes with it.
LEMMA TxUpdateType ==
  ASSUME ThreadTypes, NEW c \in Consumers, NEW l \in ConsumerPC, Goto(c, l),
         NEW t \in TxRecord, tx' = [tx EXCEPT ![c] = t], UNCHANGED msg
  PROVE  ThreadTypes'
<1>1. /\ pc' \in [Threads -> ConsumerPC \cup RelayPC]
      /\ \A d \in Consumers : pc'[d] \in ConsumerPC
      /\ \A r \in Relays : pc'[r] \in RelayPC
  BY GotoType
<1> QED
  BY <1>1 DEF ThreadTypes

\* A consumer with work to do handles a command of some order.
LEMMA OrderOfMessage ==
  ASSUME InventoryInv, NEW c \in Consumers, pc[c] # "idle"
  PROVE  msg[c] \in Commands /\ msg[c].order \in Orders
BY DEF InventoryInv, ConsumerInv, Commands

\* A step of a consumer keeps the types of the threads.
LEMMA ConsumerStepThreads ==
  ASSUME InventoryInv, NEW c \in Consumers, ConsumerStep(c)
  PROVE  ThreadTypes'
<1>0. ThreadTypes /\ tx[c] \in TxRecord
  BY DEF InventoryInv, TypeOK, ThreadTypes
<1>1. ASSUME NEW m \in Commands, Receive(c, m)
      PROVE  ThreadTypes'
  <2>1. PICK l \in ConsumerPC : Goto(c, l)
    BY <1>1 DEF Receive, ConsumerPC
  <2> QED
    BY <1>0, <1>1, <2>1, GotoType DEF Receive, ThreadTypes
<1>2. CASE CheckInbox(c)
  <2>1. PICK l \in ConsumerPC : Goto(c, l)
    BY <1>2 DEF CheckInbox, ConsumerPC
  <2>2. PICK b \in BOOLEAN : tx' = [tx EXCEPT ![c] = [tx[c] EXCEPT !.short = b]]
    BY <1>2 DEF CheckInbox
  <2> QED
    BY <1>0, <1>2, <2>1, <2>2, TxFieldType, TxUpdateType DEF CheckInbox
<1>3. CASE ReserveLine(c)
  <2>1. PICK l \in ConsumerPC : Goto(c, l)
    BY <1>3 DEF ReserveLine, ConsumerPC
  <2>2. tx' = [tx EXCEPT ![c] = [tx[c] EXCEPT !.line = tx[c].line + 1]]
    BY <1>3 DEF ReserveLine
  <2> QED
    BY <1>0, <1>3, <2>1, <2>2, TxFieldType, TxUpdateType DEF ReserveLine
<1>4. CASE LineShort(c)
  <2>1. "commit" \in ConsumerPC /\ Goto(c, "commit")
    BY <1>4 DEF LineShort, ConsumerPC
  <2>2. tx' = [tx EXCEPT ![c] = [tx[c] EXCEPT !.short = TRUE]]
    BY <1>4 DEF LineShort
  <2> QED
    BY <1>0, <1>4, <2>1, <2>2, TxFieldType, TxUpdateType DEF LineShort
<1>5. CASE CommitOrder(c) \/ RestoreStock(c)
  BY <1>0, <1>5, ReturnType, EndTxType
  DEF CommitOrder, RestoreStock, ConsumerPC
<1>6. CASE CommitConflict(c) \/ DeadlockVictim(c)
  <2>1. Rollback(c)
    BY <1>6 DEF CommitConflict, DeadlockVictim
  <2>2. CASE Wrapped /\ tx[c].attempt < RetryAttempts
    <3>1. "inbox" \in ConsumerPC /\ Goto(c, "inbox") /\ UNCHANGED msg
      BY <2>1, <2>2 DEF Rollback, ConsumerPC
    <3>2. tx' = [tx EXCEPT ![c] = [NoTx EXCEPT !.attempt = tx[c].attempt + 1]]
      BY <2>1, <2>2 DEF Rollback
    <3> QED
      BY <1>0, <2>2, <3>1, <3>2, TxFieldType, TxUpdateType
  <2>3. CASE ~(Wrapped /\ tx[c].attempt < RetryAttempts)
    BY <1>0, <2>1, <2>3, ReturnType DEF Rollback
  <2> QED
    BY <2>2, <2>3
<1>7. CASE ReleaseUnavailable(c) \/ Acknowledge(c)
  BY <1>0, <1>7, ReturnType DEF ReleaseUnavailable, Acknowledge
<1>8. CASE LockLedger(c)
  <2>1. PICK l \in ConsumerPC : Goto(c, l)
    BY <1>8 DEF LockLedger, ConsumerPC
  <2>2. PICK R \in SUBSET Products : tx' = [tx EXCEPT ![c] = [tx[c] EXCEPT !.rows = R]]
    BY <1>8 DEF LockLedger, Reserved
  <2> QED
    BY <1>0, <1>8, <2>1, <2>2, TxFieldType, TxUpdateType DEF LockLedger
<1>9. CASE PublishStep(c)
  <2>1. \/ UNCHANGED pc
        \/ Goto(c, "relay") /\ "relay" \in ConsumerPC
    BY <1>9 DEF PublishStep, ReadPending, PublishRecord, MarkPublished, ConsumerPC
  <2>2. UNCHANGED txVars
    BY <1>9 DEF PublishStep, ReadPending, PublishRecord, MarkPublished
  <2> QED
    BY <1>0, <2>1, <2>2, GotoType DEF ThreadTypes, txVars
<1> QED
  BY <1>1, <1>2, <1>3, <1>4, <1>5, <1>6, <1>7, <1>8, <1>9 DEF ConsumerStep

\* So does every step.
LEMMA ThreadTypesStep ==
  ASSUME InventoryInv, [Next]_vars
  PROVE  ThreadTypes'
<1> USE DEF InventoryInv, TypeOK
<1>1. ASSUME NEW c \in Consumers, ConsumerStep(c)
      PROVE  ThreadTypes'
  BY <1>1, ConsumerStepThreads
<1>2. ASSUME NEW r \in Relays, RelayStep(r)
      PROVE  ThreadTypes'
  <2>1. UNCHANGED txVars
    BY <1>2 DEF RelayStep, RelayAgain, PublishStep, ReadPending, PublishRecord,
                MarkPublished
  <2>2. UNCHANGED pc \/ Goto(r, "relay") \/ Goto(r, "publish")
    BY <1>2 DEF RelayStep, RelayAgain, PublishStep, ReadPending, PublishRecord,
                MarkPublished
  <2> QED
    BY <2>1, <2>2, InventoryAssumption
    DEF Goto, ThreadTypes, txVars, Threads, RelayPC
<1>3. ASSUME NEW x \in Threads, FaultStep(x)
      PROVE  ThreadTypes'
  <2>1. CASE x \in Consumers /\ Return(x)
    BY <2>1, ReturnType
  <2>2. CASE x \in Relays /\ Goto(x, "dead") /\ UNCHANGED txVars
    BY <2>2, InventoryAssumption DEF Goto, ThreadTypes, txVars, Threads, RelayPC
  <2>3. CASE UNCHANGED <<pc, txVars>>
    BY <2>3 DEF ThreadTypes, txVars
  <2> QED
    BY <1>3, <2>1, <2>2, <2>3
    DEF FaultStep, DatabaseFault, ReadPendingFails, RecordFails, Threads
<1>4. ASSUME NEW h \in Hosts, Crash(h)
      PROVE  ThreadTypes'
  BY <1>4, NoTxType, InventoryAssumption
  DEF Crash, ThreadTypes, Threads, ConsumerPC, RelayPC
<1>5. CASE UNCHANGED <<pc, txVars>>
  BY <1>5 DEF ThreadTypes, txVars
<1> QED
  BY <1>1, <1>2, <1>3, <1>4, <1>5
  DEF Next, SendCommand, Redrive, AdminStep, AdjustRead, AdjustWrite, vars

\* Only the commit of a decision subtracts from stock; LockInv says that the
\* units are there.
LEMMA TableTypesStep ==
  ASSUME InventoryInv, [Next]_vars
  PROVE  TableTypes'
<1> USE DEF InventoryInv, TypeOK
<1>1. ASSUME NEW c \in Consumers, CommitOrder(c)
      PROVE  TableTypes'
  <2>1. msg[c].order \in Orders /\ <<"outcome", msg[c].order>> \in Events
    BY <1>1, OrderOfMessage DEF CommitOrder, Events
  <2>2. \A p \in Held(c) : stock[p] >= Quantity[msg[c].order][p]
    BY DEF LockInv
  <2>3. stock' \in [Products -> Nat]
    <3>1. ASSUME NEW p \in Products
          PROVE  (IF p \in Held(c) THEN stock[p] - Quantity[msg[c].order][p]
                                   ELSE stock[p]) \in Nat
      <4>1. stock[p] \in Nat /\ Quantity[msg[c].order][p] \in Nat
        BY <2>1, InventoryAssumption DEF TableTypes
      <4> QED
        BY <2>2, <4>1
    <3> QED
      BY <1>1, <3>1 DEF CommitOrder, CommitDecision
  <2>4. ledger' \in [Orders -> [Products -> RowState]]
    BY <1>1, <2>1 DEF CommitOrder, CommitDecision, RowState, TableTypes
  <2> QED
    BY <1>1, <2>1, <2>3, <2>4 DEF CommitOrder, CommitDecision, TableTypes
<1>2. ASSUME NEW c \in Consumers, RestoreStock(c)
      PROVE  TableTypes'
  <2>1. msg[c].order \in Orders /\ <<"cancelled", msg[c].order>> \in Events
    BY <1>2, OrderOfMessage DEF RestoreStock, Events
  <2>2. stock' \in [Products -> Nat]
    <3>1. ASSUME NEW p \in Products
          PROVE  (IF p \in tx[c].rows THEN stock[p] + Quantity[msg[c].order][p]
                                      ELSE stock[p]) \in Nat
      BY <2>1, InventoryAssumption DEF TableTypes
    <3> QED
      BY <1>2, <3>1 DEF RestoreStock
  <2>3. ledger' \in [Orders -> [Products -> RowState]]
    BY <1>2, <2>1 DEF RestoreStock, RowState, TableTypes
  <2> QED
    BY <1>2, <2>1, <2>2, <2>3 DEF RestoreStock, TableTypes
<1>3. ASSUME NEW x \in Threads, MarkPublished(x)
      PROVE  TableTypes'
  BY <1>3 DEF MarkPublished, TableTypes
<1>4. ASSUME NEW a \in Admins, AdjustWrite(a)
      PROVE  TableTypes'
  <2> DEFINE x == adjust[a].product
             q == IF adjust[a].target = adjust[a].old THEN stock[x]
                  ELSE adjust[a].target
  <2>1. x \in Products /\ q \in Nat
    BY <1>4, InventoryAssumption DEF AdjustWrite, TableTypes
  <2>2. stock' = [stock EXCEPT ![x] = q]
    BY <1>4 DEF AdjustWrite
  <2>3. supply' = [supply EXCEPT ![x] = supply[x] + q - stock[x]]
    BY <1>4 DEF AdjustWrite
  <2>4. supply[x] + q - stock[x] \in Int
    BY <2>1 DEF TableTypes
  <2> QED
    BY <1>4, <2>1, <2>2, <2>3, <2>4 DEF AdjustWrite, TableTypes
<1>5. CASE UNCHANGED <<dbVars, supply>>
  BY <1>5 DEF TableTypes, dbVars
<1> QED
  <2>1. ASSUME NEW c \in Consumers, ConsumerStep(c)
        PROVE  TableTypes'
    BY <2>1, <1>1, <1>2, <1>3, <1>5
    DEF ConsumerStep, Receive, CheckInbox, ReserveLine, LineShort,
        CommitConflict, DeadlockVictim, ReleaseUnavailable, LockLedger,
        PublishStep, ReadPending, PublishRecord, Acknowledge, Threads
  <2>2. ASSUME NEW r \in Relays, RelayStep(r)
        PROVE  TableTypes'
    BY <2>2, <1>3, <1>5
    DEF RelayStep, RelayAgain, PublishStep, ReadPending, PublishRecord, Threads
  <2>3. ASSUME NEW x \in Threads, FaultStep(x)
        PROVE  TableTypes'
    BY <2>3, <1>5 DEF FaultStep, DatabaseFault, ReadPendingFails, RecordFails
  <2> QED
    BY <2>1, <2>2, <2>3, <1>4, <1>5
    DEF Next, SendCommand, Redrive, AdminStep, AdjustRead, Crash, vars

\* The queue: receives stay within maxReceiveCount.
LEMMA QueueTypesStep ==
  ASSUME InventoryInv, [Next]_vars
  PROVE  QueueTypes'
<1> USE DEF InventoryInv, TypeOK
<1>1. ASSUME NEW m \in Commands, SendCommand(m) \/ Redrive(m)
      PROVE  QueueTypes'
  BY <1>1 DEF SendCommand, Redrive, QueueTypes
<1>2. ASSUME NEW c \in Consumers, NEW m \in Commands, Receive(c, m)
      PROVE  QueueTypes'
  BY <1>2, InventoryAssumption DEF Receive, QueueTypes
<1>3. ASSUME NEW c \in Consumers, Acknowledge(c)
      PROVE  QueueTypes'
  BY <1>3, OrderOfMessage DEF Acknowledge, QueueTypes
<1>4. ASSUME NEW x \in Threads, NEW e \in Events, PublishRecord(x, e)
      PROVE  QueueTypes'
  BY <1>4 DEF PublishRecord, QueueTypes, queueVars
<1>5. CASE UNCHANGED <<queueVars, announced>>
  BY <1>5 DEF QueueTypes, queueVars
<1> QED
  <2>1. ASSUME NEW c \in Consumers, ConsumerStep(c)
        PROVE  QueueTypes'
    BY <2>1, <1>2, <1>3, <1>4, <1>5
    DEF ConsumerStep, CheckInbox, ReserveLine, LineShort, CommitOrder,
        CommitConflict, DeadlockVictim, ReleaseUnavailable, LockLedger,
        RestoreStock, PublishStep, ReadPending, MarkPublished, Threads
  <2>2. ASSUME NEW r \in Relays, RelayStep(r)
        PROVE  QueueTypes'
    BY <2>2, <1>4, <1>5
    DEF RelayStep, RelayAgain, PublishStep, ReadPending, MarkPublished, Threads
  <2>3. ASSUME NEW x \in Threads, FaultStep(x)
        PROVE  QueueTypes'
    BY <2>3, <1>5 DEF FaultStep, DatabaseFault, ReadPendingFails, RecordFails
  <2> QED
    BY <2>1, <2>2, <2>3, <1>1, <1>5
    DEF Next, AdminStep, AdjustRead, AdjustWrite, Crash, vars

\* Relays handle outbox rows only.
LEMMA RelayTypesStep ==
  ASSUME InventoryInv, [Next]_vars
  PROVE  RelayTypes'
<1> USE DEF InventoryInv, TypeOK
<1>1. ASSUME NEW x \in Threads, PublishStep(x)
      PROVE  RelayTypes'
  BY <1>1 DEF PublishStep, ReadPending, PublishRecord, MarkPublished, RelayTypes
<1>2. ASSUME NEW x \in Threads, NEW e \in Events, RecordFails(x, e)
      PROVE  RelayTypes'
  BY <1>2 DEF RecordFails, RelayTypes
<1>3. ASSUME NEW h \in Hosts, Crash(h)
      PROVE  RelayTypes'
  BY <1>3 DEF Crash, RelayTypes
<1>4. CASE UNCHANGED relayVars
  BY <1>4 DEF RelayTypes, relayVars
<1> QED
  <2>1. ASSUME NEW c \in Consumers, ConsumerStep(c)
        PROVE  RelayTypes'
    BY <2>1, <1>1, <1>4
    DEF ConsumerStep, Receive, CheckInbox, ReserveLine, LineShort, CommitOrder,
        CommitConflict, DeadlockVictim, ReleaseUnavailable, LockLedger,
        RestoreStock, Acknowledge, Threads
  <2>2. ASSUME NEW r \in Relays, RelayStep(r)
        PROVE  RelayTypes'
    BY <2>2, <1>1, <1>4 DEF RelayStep, RelayAgain, Threads
  <2>3. ASSUME NEW x \in Threads, FaultStep(x)
        PROVE  RelayTypes'
    BY <2>3, <1>2, <1>4 DEF FaultStep, DatabaseFault, ReadPendingFails
  <2> QED
    BY <2>1, <2>2, <2>3, <1>3, <1>4
    DEF Next, SendCommand, Redrive, AdminStep, AdjustRead, AdjustWrite, vars

\* Every step keeps the type invariant.
LEMMA TypeStep ==
  ASSUME InventoryInv, [Next]_vars
  PROVE  TypeOK'
<1> USE DEF InventoryInv, TypeOK
<1>1. \/ UNCHANGED budgetVars
      \/ Fault /\ UNCHANGED crashes
      \/ \E h \in Hosts : Crash(h)
  <2>1. ASSUME NEW c \in Consumers, ConsumerStep(c)
        PROVE  UNCHANGED budgetVars \/ (Fault /\ UNCHANGED crashes)
    BY <2>1
    DEF ConsumerStep, Receive, CheckInbox, ReserveLine, LineShort, CommitOrder,
        CommitConflict, DeadlockVictim, ReleaseUnavailable, LockLedger,
        RestoreStock, PublishStep, ReadPending, PublishRecord, MarkPublished,
        Acknowledge, budgetVars
  <2>2. ASSUME NEW r \in Relays, RelayStep(r)
        PROVE  UNCHANGED budgetVars
    BY <2>2 DEF RelayStep, RelayAgain, PublishStep, ReadPending, PublishRecord,
                MarkPublished
  <2>3. ASSUME NEW x \in Threads, FaultStep(x)
        PROVE  Fault /\ UNCHANGED crashes
    BY <2>3 DEF FaultStep, DatabaseFault, ReadPendingFails, RecordFails
  <2> QED
    BY <2>1, <2>2, <2>3
    DEF Next, SendCommand, Redrive, AdminStep, AdjustRead, AdjustWrite, vars
<1>2. (faults \in 0..MaxFaults /\ crashes \in 0..MaxCrashes)'
  BY <1>1, InventoryAssumption DEF Fault, Crash, budgetVars
<1>3. \/ UNCHANGED adjust
      \/ \E a \in Admins : AdminStep(a)
  BY DEF Next, ConsumerStep, RelayStep, FaultStep, SendCommand, Redrive,
      Receive, CheckInbox, ReserveLine, LineShort, CommitOrder, CommitConflict,
      DeadlockVictim, ReleaseUnavailable, LockLedger, RestoreStock, PublishStep,
      ReadPending, PublishRecord, MarkPublished, Acknowledge, RelayAgain,
      DatabaseFault, ReadPendingFails, RecordFails, Crash, vars
<1>4. ASSUME NEW a \in Admins, AdminStep(a)
      PROVE  /\ adjust' \in [Admins -> AdjustRecord]
             /\ \A b \in Admins : adjust'[b].pc = "read" =>
                  adjust'[b].product \in Products /\ adjust'[b].target \in Levels
  <2>1. ASSUME NEW p \in Products, NEW q \in Levels, AdjustRead(a, p, q)
        PROVE  adjust' \in [Admins -> AdjustRecord]
    <3>1. [pc |-> "read", product |-> p, target |-> q, old |-> stock[p]] \in AdjustRecord
      BY InventoryAssumption DEF AdjustRecord, TableTypes
    <3> QED
      BY <2>1, <3>1 DEF AdjustRead
  <2>2. ASSUME NEW p \in Products, NEW q \in Levels, AdjustRead(a, p, q)
        PROVE  \A b \in Admins : adjust'[b].pc = "read" =>
                  adjust'[b].product \in Products /\ adjust'[b].target \in Levels
    BY <2>2 DEF AdjustRead
  <2>3. CASE AdjustWrite(a)
    <3>1. [adjust[a] EXCEPT !.pc = "done"] \in AdjustRecord
      BY DEF AdjustRecord
    <3>2. adjust' = [adjust EXCEPT ![a] = [adjust[a] EXCEPT !.pc = "done"]]
      BY <2>3 DEF AdjustWrite
    <3>3. adjust' \in [Admins -> AdjustRecord]
      BY <3>1, <3>2
    <3>4. adjust'[a].pc = "done" /\ \A b \in Admins \ {a} : adjust'[b] = adjust[b]
      BY <3>2 DEF AdjustRecord
    <3> QED
      BY <3>3, <3>4
  <2> QED
    BY <1>4, <2>1, <2>2, <2>3 DEF AdminStep
<1> QED
  BY <1>2, <1>3, <1>4, TableTypesStep, QueueTypesStep, ThreadTypesStep,
     RelayTypesStep

-----------------------------------------------------------------------------
(* What a step can do to a consumer and to the tables.                      *)

\* A step of one consumer leaves the others where they are.
LEMMA OtherConsumers ==
  ASSUME InventoryInv, NEW c \in Consumers, NEW d \in Consumers, c # d,
         ConsumerStep(c)
  PROVE  pc'[d] = pc[d] /\ msg'[d] = msg[d] /\ tx'[d] = tx[d]
<1>1. pc \in [Threads -> ConsumerPC \cup RelayPC] /\ c \in Threads /\ d \in Threads
  BY DEF InventoryInv, TypeOK, ThreadTypes, Threads
<1>2. msg \in [Consumers -> Commands \cup {None}] /\ tx \in [Consumers -> TxRecord]
  BY DEF InventoryInv, TypeOK, ThreadTypes
<1>3. pc'[d] = pc[d]
  BY <1>1 DEF ConsumerStep, Receive, CheckInbox, ReserveLine, LineShort,
      CommitOrder, CommitConflict, DeadlockVictim, Rollback, ReleaseUnavailable,
      LockLedger, RestoreStock, PublishStep, ReadPending, PublishRecord,
      MarkPublished, Acknowledge, Goto, Return, EndTx
<1>4. msg'[d] = msg[d]
  BY <1>2 DEF ConsumerStep, Receive, CheckInbox, ReserveLine, LineShort,
      CommitOrder, CommitConflict, DeadlockVictim, Rollback, ReleaseUnavailable,
      LockLedger, RestoreStock, PublishStep, ReadPending, PublishRecord,
      MarkPublished, Acknowledge, Return, EndTx, txVars
<1>5. tx'[d] = tx[d]
  BY <1>2 DEF ConsumerStep, Receive, CheckInbox, ReserveLine, LineShort,
      CommitOrder, CommitConflict, DeadlockVictim, Rollback, ReleaseUnavailable,
      LockLedger, RestoreStock, PublishStep, ReadPending, PublishRecord,
      MarkPublished, Acknowledge, Return, EndTx, txVars
<1> QED
  BY <1>3, <1>4, <1>5

\* Whatever is not a consumer's own step leaves it alone or ends its handler.
LEMMA ConsumerChange ==
  ASSUME InventoryInv, [Next]_vars, NEW d \in Consumers
  PROVE  \/ ConsumerStep(d)
         \/ pc'[d] = pc[d] /\ msg'[d] = msg[d] /\ tx'[d] = tx[d]
         \/ pc'[d] = "idle" /\ tx'[d] = NoTx
<1> DEFINE Same == pc'[d] = pc[d] /\ msg'[d] = msg[d] /\ tx'[d] = tx[d]
<1>0. ThreadTypes /\ d \in Threads
  BY DEF InventoryInv, TypeOK, Threads
<1>1. ASSUME NEW c \in Consumers, ConsumerStep(c)
      PROVE  ConsumerStep(d) \/ Same
  BY <1>1, OtherConsumers
<1>2. ASSUME NEW r \in Relays, RelayStep(r)
      PROVE  Same
  <2>1. r # d /\ r \in Threads /\ UNCHANGED txVars
    BY <1>2, InventoryAssumption
    DEF RelayStep, RelayAgain, PublishStep, ReadPending, PublishRecord,
        MarkPublished, Threads
  <2> QED
    BY <1>0, <1>2, <2>1
    DEF RelayStep, RelayAgain, PublishStep, ReadPending, PublishRecord,
        MarkPublished, Goto, txVars, ThreadTypes
<1>3. ASSUME NEW x \in Threads, FaultStep(x)
      PROVE  Same \/ (pc'[d] = "idle" /\ tx'[d] = NoTx)
  <2>1. CASE x \in Consumers /\ Return(x)
    BY <1>0, <2>1 DEF Return, Goto, ThreadTypes
  <2>2. CASE x \notin Consumers /\ Goto(x, "dead") /\ UNCHANGED txVars
    BY <1>0, <2>2 DEF Goto, ThreadTypes, txVars
  <2>3. CASE UNCHANGED <<pc, txVars>>
    BY <2>3 DEF txVars
  <2> QED
    BY <1>3, <2>1, <2>2, <2>3
    DEF FaultStep, DatabaseFault, ReadPendingFails, RecordFails
<1>4. ASSUME NEW h \in Hosts, Crash(h)
      PROVE  Same \/ (pc'[d] = "idle" /\ tx'[d] = NoTx)
  BY <1>0, <1>4 DEF Crash
<1>5. CASE UNCHANGED <<pc, txVars>>
  BY <1>5 DEF txVars
<1> QED
  BY <1>1, <1>2, <1>3, <1>4, <1>5
  DEF Next, SendCommand, Redrive, AdminStep, AdjustRead, AdjustWrite, vars

\* The four ways the tables change.
LEMMA TableChange ==
  ASSUME [Next]_vars
  PROVE  \/ UNCHANGED dbVars
         \/ \E c \in Consumers : CommitOrder(c) \/ RestoreStock(c)
         \/ \E x \in Threads : MarkPublished(x)
         \/ \E a \in Admins : AdjustWrite(a)
<1>1. ASSUME NEW c \in Consumers, ConsumerStep(c)
      PROVE  UNCHANGED dbVars \/ CommitOrder(c) \/ RestoreStock(c) \/ MarkPublished(c)
  BY <1>1
  DEF ConsumerStep, Receive, CheckInbox, ReserveLine, LineShort, CommitConflict,
      DeadlockVictim, ReleaseUnavailable, LockLedger, PublishStep, ReadPending,
      PublishRecord, Acknowledge
<1>2. ASSUME NEW r \in Relays, RelayStep(r)
      PROVE  UNCHANGED dbVars \/ MarkPublished(r)
  BY <1>2 DEF RelayStep, RelayAgain, PublishStep, ReadPending, PublishRecord
<1>3. ASSUME NEW x \in Threads, FaultStep(x)
      PROVE  UNCHANGED dbVars
  BY <1>3 DEF FaultStep, DatabaseFault, ReadPendingFails, RecordFails
<1> QED
  BY <1>1, <1>2, <1>3
  DEF Next, SendCommand, Redrive, AdminStep, AdjustRead, Crash, vars, Threads

\* Only a send, a redrive and an acknowledgement move a command.
LEMMA MailChange ==
  ASSUME [Next]_vars
  PROVE  \/ UNCHANGED mail
         \/ \E m \in Commands : SendCommand(m) \/ Redrive(m)
         \/ \E c \in Consumers : Acknowledge(c)
<1>1. ASSUME NEW c \in Consumers, ConsumerStep(c)
      PROVE  UNCHANGED mail \/ Acknowledge(c)
  BY <1>1
  DEF ConsumerStep, Receive, CheckInbox, ReserveLine, LineShort, CommitOrder,
      CommitConflict, DeadlockVictim, ReleaseUnavailable, LockLedger,
      RestoreStock, PublishStep, ReadPending, PublishRecord, MarkPublished,
      queueVars
<1>2. ASSUME NEW r \in Relays, RelayStep(r)
      PROVE  UNCHANGED mail
  BY <1>2 DEF RelayStep, RelayAgain, PublishStep, ReadPending, PublishRecord,
              MarkPublished, queueVars
<1>3. ASSUME NEW x \in Threads, FaultStep(x)
      PROVE  UNCHANGED mail
  BY <1>3 DEF FaultStep, DatabaseFault, ReadPendingFails, RecordFails, queueVars
<1> QED
  BY <1>1, <1>2, <1>3
  DEF Next, AdminStep, AdjustRead, AdjustWrite, Crash, vars, queueVars

\* A command once sent stays sent, and a receipt once written stays.
LEMMA Monotone ==
  ASSUME InventoryInv, [Next]_vars
  PROVE  /\ \A m \in Commands : mail[m] # "unsent" => mail'[m] # "unsent"
         /\ inbox \subseteq inbox'
<1>1. mail \in [Commands -> {"unsent", "queued", "deleted", "dlq"}]
  BY DEF InventoryInv, TypeOK, QueueTypes
<1>2. inbox \subseteq inbox'
  BY TableChange DEF CommitOrder, CommitDecision, RestoreStock, MarkPublished,
                     AdjustWrite, dbVars
<1>3. \A m \in Commands : mail[m] # "unsent" => mail'[m] # "unsent"
  BY <1>1, MailChange DEF SendCommand, Redrive, Acknowledge
<1> QED
  BY <1>2, <1>3

-----------------------------------------------------------------------------
(* Consumers and their locks.                                               *)

\* The program counter of a consumer after a step of its own.
LEMMA OwnGoto ==
  ASSUME InventoryInv, NEW c \in Consumers
  PROVE  /\ \A l : Goto(c, l) => pc'[c] = l
         /\ Return(c) => pc'[c] = "idle" /\ tx'[c] = NoTx
         /\ \A l : EndTx(c, l) => pc'[c] = l /\ msg'[c] = msg[c] /\ tx'[c] = NoTx
<1>1. pc \in [Threads -> ConsumerPC \cup RelayPC] /\ c \in Threads
  BY DEF InventoryInv, TypeOK, ThreadTypes, Threads
<1>2. tx \in [Consumers -> TxRecord]
  BY DEF InventoryInv, TypeOK, ThreadTypes
<1> QED
  BY <1>1, <1>2 DEF Goto, Return, EndTx

\* Relaying leaves the handler's message and transaction alone.
LEMMA PublishOwn ==
  ASSUME InventoryInv, NEW c \in Consumers, PublishStep(c)
  PROVE  /\ pc[c] \in {"publish", "relay"} /\ pc'[c] \in {"publish", "relay"}
         /\ UNCHANGED txVars
<1>1. pc[c] \in {"publish", "relay"} /\ UNCHANGED txVars
  BY DEF PublishStep, ReadPending, PublishRecord, MarkPublished
<1>2. Goto(c, "relay") \/ UNCHANGED pc
  BY DEF PublishStep, ReadPending, PublishRecord, MarkPublished
<1> QED
  BY <1>1, <1>2, OwnGoto

\* Every handler works on a command that was sent, at a line of its order.
LEMMA ConsumerInvStep ==
  ASSUME InventoryInv, [Next]_vars
  PROVE  ConsumerInv'
<1> DEFINE Fine(c) ==
      /\ pc[c] = "idle" => tx[c] = NoTx
      /\ pc[c] # "idle" => msg[c] \in Commands /\ mail[msg[c]] # "unsent"
      /\ pc[c] \in {"inbox", "lines", "commit"} => msg[c].type = "order-created"
      /\ pc[c] \in {"release", "restore"} => msg[c].type = "order-cancel-requested"
      /\ pc[c] = "inbox" => tx[c].line = 1 /\ ~tx[c].short
      /\ pc[c] = "lines" => /\ tx[c].line \in 1..Len(Lines[msg[c].order])
                            /\ ~tx[c].short
      /\ pc[c] = "commit" =>
           IF tx[c].short
           THEN tx[c].line = 1 \/ tx[c].line \in 1..Len(Lines[msg[c].order])
           ELSE tx[c].line = Len(Lines[msg[c].order]) + 1
<1>0. SUFFICES ASSUME NEW c \in Consumers PROVE Fine(c)'
  BY DEF ConsumerInv
<1>1. Fine(c)
  BY DEF InventoryInv, ConsumerInv
<1>2. CASE pc'[c] = pc[c] /\ msg'[c] = msg[c] /\ tx'[c] = tx[c]
  BY <1>1, <1>2, Monotone
<1>3. CASE pc'[c] = "idle" /\ tx'[c] = NoTx
  BY <1>3
<1>4. CASE ConsumerStep(c)
  <2>0. /\ tx[c] \in TxRecord /\ tx \in [Consumers -> TxRecord]
        /\ msg \in [Consumers -> Commands \cup {None}]
    BY DEF InventoryInv, TypeOK, ThreadTypes
  <2>1. ASSUME NEW m \in Commands, Receive(c, m)
        PROVE  Fine(c)'
    <3>1. msg'[c] = m /\ mail'[m] = "queued"
      BY <2>0, <2>1 DEF Receive
    <3>2. pc'[c] = IF m.type = "order-created" THEN "inbox" ELSE "release"
      BY <2>1, OwnGoto DEF Receive
    <3>3. tx'[c] = NoTx
      BY <1>1, <2>1 DEF Receive
    <3>4. m.type \in {"order-created", "order-cancel-requested"}
      BY DEF Commands
    <3> QED
      BY <3>1, <3>2, <3>3, <3>4 DEF NoTx
  <2>2. ASSUME pc[c] \in {"inbox", "lines", "commit"}, msg'[c] = msg[c],
               UNCHANGED mail
        PROVE  msg'[c] \in Commands /\ mail'[msg'[c]] # "unsent"
               /\ msg'[c].type = "order-created"
               /\ Len(Lines[msg[c].order]) \in Nat
    <3>1. Lines[msg[c].order] \in Seq(Products)
      BY <2>2, OrderOfMessage, InventoryAssumption
    <3> QED
      BY <1>1, <2>2, <3>1
  <2>3. CASE CheckInbox(c)
    <3>1. msg'[c] = msg[c] /\ UNCHANGED mail /\ pc[c] = "inbox"
      BY <2>3 DEF CheckInbox, queueVars
    <3>2. Lines[msg[c].order] \in Seq(Products)
      BY <3>1, OrderOfMessage, InventoryAssumption
    <3>3. pc'[c] = IF msg[c].order \in inbox THEN "publish"
                   ELSE IF Lines[msg[c].order] = <<>> THEN "commit" ELSE "lines"
      BY <2>3, OwnGoto DEF CheckInbox
    <3>4. /\ tx'[c].line = tx[c].line
          /\ tx'[c].short = (msg[c].order \notin inbox /\ Lines[msg[c].order] = <<>>)
      BY <2>0, <2>3 DEF CheckInbox, TxRecord
    <3> HIDE DEF Fine
    <3>5. /\ tx[c].line = 1 /\ ~tx[c].short
          /\ msg[c].type = "order-created" /\ msg[c] \in Commands
          /\ mail[msg[c]] # "unsent"
      BY <1>1, <3>1 DEF Fine
    <3>6. Lines[msg[c].order] # <<>> => 1 \in 1..Len(Lines[msg[c].order])
      BY <3>2
    <3> QED
      BY <3>1, <3>3, <3>4, <3>5, <3>6 DEF Fine
  <2>4. CASE ReserveLine(c)
    <3>1. msg'[c] = msg[c] /\ UNCHANGED mail /\ pc[c] = "lines"
      BY <2>4 DEF ReserveLine, queueVars
    <3>2. pc'[c] = IF tx[c].line = Len(Lines[msg[c].order]) THEN "commit" ELSE "lines"
      BY <2>4, OwnGoto DEF ReserveLine
    <3>3. tx'[c].line = tx[c].line + 1 /\ tx'[c].short = tx[c].short
      BY <2>0, <2>4 DEF ReserveLine, TxRecord
    <3> QED
      BY <1>1, <2>2, <3>1, <3>2, <3>3
  <2>5. CASE LineShort(c)
    <3>1. msg'[c] = msg[c] /\ UNCHANGED mail /\ pc[c] = "lines"
      BY <2>5 DEF LineShort, queueVars
    <3>2. pc'[c] = "commit"
      BY <2>5, OwnGoto DEF LineShort
    <3>3. tx'[c].line = tx[c].line /\ tx'[c].short = TRUE
      BY <2>0, <2>5 DEF LineShort, TxRecord
    <3> QED
      BY <1>1, <2>2, <3>1, <3>2, <3>3
  <2>6. CASE CommitOrder(c) \/ RestoreStock(c)
    <3>1. CASE Return(c)
      BY <3>1, OwnGoto
    <3>2. CASE EndTx(c, "publish") /\ UNCHANGED mail
      BY <1>1, <2>6, <3>2, OwnGoto DEF CommitOrder, RestoreStock
    <3> QED
      BY <2>6, <3>1, <3>2 DEF CommitOrder, RestoreStock, queueVars
  <2>7. CASE CommitConflict(c) \/ DeadlockVictim(c)
    <3>1. Rollback(c) /\ UNCHANGED mail /\ pc[c] \in {"lines", "commit"}
      BY <2>7 DEF CommitConflict, DeadlockVictim, WaitsFor, Blocked, queueVars
    <3>2. CASE Return(c)
      BY <3>2, OwnGoto
    <3>3. CASE ~Return(c)
      <4>1. pc'[c] = "inbox" /\ msg'[c] = msg[c]
        BY <3>1, <3>3, OwnGoto DEF Rollback
      <4>2. tx'[c].line = 1 /\ ~tx'[c].short
        BY <2>0, <3>1, <3>3 DEF Rollback, NoTx
      <4> QED
        BY <2>2, <3>1, <4>1, <4>2
    <3> QED
      BY <3>2, <3>3
  <2>8. CASE ReleaseUnavailable(c) \/ Acknowledge(c)
    BY <2>8, OwnGoto DEF ReleaseUnavailable, Acknowledge
  <2>9. CASE LockLedger(c)
    <3>1. msg'[c] = msg[c] /\ UNCHANGED mail /\ pc[c] = "release"
      BY <2>9 DEF LockLedger, queueVars
    <3>2. pc'[c] \in {"publish", "restore"}
      BY <2>9, OwnGoto DEF LockLedger
    <3> QED
      BY <1>1, <3>1, <3>2
  <2>10. CASE PublishStep(c)
    BY <1>1, <2>10, PublishOwn, Monotone DEF txVars
  <2> QED
    BY <1>4, <2>1, <2>3, <2>4, <2>5, <2>6, <2>7, <2>8, <2>9, <2>10
    DEF ConsumerStep
<1> QED
  BY <1>2, <1>3, <1>4, ConsumerChange

\* A step locks at most one more row for a consumer: the row ReserveLine updates.
LEMMA HeldChange ==
  ASSUME InventoryInv, [Next]_vars, NEW c \in Consumers
  PROVE  \/ Held(c)' \subseteq Held(c) /\ (Held(c)' # {} => msg'[c] = msg[c])
         \/ /\ ReserveLine(c)
            /\ msg'[c] = msg[c]
            /\ Held(c)' \subseteq Held(c) \cup {Lines[msg[c].order][tx[c].line]}
<1>1. CASE pc'[c] = pc[c] /\ msg'[c] = msg[c] /\ tx'[c] = tx[c]
  <2>1. Held(c)' = Held(c)
    BY <1>1 DEF Held
  <2> QED
    BY <1>1, <2>1
<1>2. CASE pc'[c] \notin {"lines", "commit"}
  BY <1>2 DEF Held
<1>3. CASE ConsumerStep(c) /\ pc'[c] \in {"lines", "commit"}
  <2>0. tx \in [Consumers -> TxRecord] /\ ConsumerInv
    BY DEF InventoryInv, TypeOK, ThreadTypes
  <2>1. CASE CheckInbox(c)
    <3>1. tx'[c].line = 1 /\ msg'[c] = msg[c]
      BY <2>0, <2>1 DEF CheckInbox, ConsumerInv, TxRecord
    <3>2. Held(c)' = {}
      BY <3>1 DEF Held
    <3> QED
      BY <3>1, <3>2
  <2>2. CASE ReserveLine(c)
    <3>1. pc[c] = "lines" /\ msg'[c] = msg[c] /\ tx'[c].line = tx[c].line + 1
      BY <2>0, <2>2 DEF ReserveLine, TxRecord
    <3>2. tx[c].line \in Nat
      BY <2>0 DEF TxRecord
    <3>3. 1..(tx'[c].line - 1) \subseteq (1..(tx[c].line - 1)) \cup {tx[c].line}
      BY <3>1, <3>2
    <3> QED
      BY <2>2, <3>1, <3>3 DEF Held
  <2>3. CASE LineShort(c)
    <3>1. pc[c] = "lines" /\ msg'[c] = msg[c] /\ tx'[c].line = tx[c].line
      BY <2>0, <2>3 DEF LineShort, TxRecord
    <3> QED
      BY <3>1 DEF Held
  <2>4. CASE CommitConflict(c) \/ DeadlockVictim(c)
    BY <1>3, <2>4, OwnGoto DEF CommitConflict, DeadlockVictim, Rollback
  <2>5. ASSUME NEW m \in Commands, Receive(c, m)
        PROVE  FALSE
    BY <1>3, <2>5, OwnGoto DEF Receive
  <2>6. CASE CommitOrder(c) \/ RestoreStock(c) \/ ReleaseUnavailable(c)
             \/ LockLedger(c) \/ Acknowledge(c)
    BY <1>3, <2>6, OwnGoto
    DEF CommitOrder, RestoreStock, ReleaseUnavailable, LockLedger, Acknowledge
  <2>7. CASE PublishStep(c)
    BY <1>3, <2>7, PublishOwn
  <2> QED
    BY <1>3, <2>1, <2>2, <2>3, <2>4, <2>5, <2>6, <2>7 DEF ConsumerStep
<1> QED
  BY <1>1, <1>2, <1>3, ConsumerChange

\* A locked row is a line of the order that its transaction reserves.
LEMMA HeldRow ==
  ASSUME InventoryInv, NEW c \in Consumers, NEW p \in Held(c)
  PROVE  p \in Products /\ msg[c].order \in Orders
<1>1. pc[c] \in {"lines", "commit"}
  BY DEF Held
<1>2. msg[c].order \in Orders /\ Lines[msg[c].order] \in Seq(Products)
  BY <1>1, OrderOfMessage, InventoryAssumption
<1>3. /\ tx[c].line - 1 <= Len(Lines[msg[c].order])
      /\ tx[c].line \in Nat /\ Len(Lines[msg[c].order]) \in Nat
  BY <1>1, <1>2 DEF InventoryInv, ConsumerInv, TypeOK, ThreadTypes, TxRecord
<1>4. PICK i \in 1..(tx[c].line - 1) : p = Lines[msg[c].order][i]
  BY <1>1 DEF Held
<1>5. i \in 1..Len(Lines[msg[c].order])
  BY <1>3, <1>4
<1> QED
  BY <1>2, <1>4, <1>5

\* While a transaction keeps a row locked, nobody takes from it.
LEMMA LockedStockKept ==
  ASSUME InventoryInv, [Next]_vars, NEW c \in Consumers,
         NEW p \in Held(c), p \in Held(c)'
  PROVE  stock'[p] >= stock[p]
<1>0. stock \in [Products -> Nat] /\ p \in Products
  BY HeldRow DEF InventoryInv, TypeOK, TableTypes
<1>1. ASSUME NEW d \in Consumers, CommitOrder(d)
      PROVE  stock'[p] >= stock[p]
  <2>1. c # d
    <3>1. pc'[d] \in {"publish", "idle"}
      BY <1>1, OwnGoto DEF CommitOrder
    <3> QED
      BY <3>1 DEF Held
  <2>2. p \notin Held(d)
    BY <2>1 DEF InventoryInv, LockInv
  <2> QED
    BY <1>0, <1>1, <2>2 DEF CommitOrder, CommitDecision
<1>2. ASSUME NEW d \in Consumers, RestoreStock(d)
      PROVE  stock'[p] >= stock[p]
  <2>1. Quantity[msg[d].order][p] \in Nat
    BY <1>0, <1>2, OrderOfMessage, InventoryAssumption DEF RestoreStock
  <2> QED
    BY <1>0, <1>2, <2>1 DEF RestoreStock
<1>3. ASSUME NEW a \in Admins, AdjustWrite(a)
      PROVE  stock'[p] >= stock[p]
  BY <1>0, <1>3 DEF AdjustWrite
<1>4. CASE UNCHANGED stock
  BY <1>0, <1>4
<1> QED
  BY <1>1, <1>2, <1>3, <1>4, TableChange DEF MarkPublished, dbVars

\* Row locks exclude each other, and the units a transaction took are there.
LEMMA LockInvStep ==
  ASSUME InventoryInv, [Next]_vars
  PROVE  LockInv'
<1>0. LockInv
  BY DEF InventoryInv
<1>1. ASSUME NEW c \in Consumers, NEW d \in Consumers, c # d, ReserveLine(c)
      PROVE  Held(c)' \cap Held(d)' = {}
  <2>1. Held(d)' = Held(d)
    <3>1. pc'[d] = pc[d] /\ msg'[d] = msg[d] /\ tx'[d] = tx[d]
      BY <1>1, OtherConsumers DEF ConsumerStep
    <3> QED
      BY <3>1 DEF Held
  <2>2. Lines[msg[c].order][tx[c].line] \notin Held(d)
    BY <1>1 DEF ReserveLine, LockedByOther
  <2>3. Held(c)' \subseteq Held(c) \cup {Lines[msg[c].order][tx[c].line]}
    BY HeldChange
  <2> QED
    BY <1>0, <1>1, <2>1, <2>2, <2>3 DEF LockInv
<1>2. ASSUME NEW c \in Consumers, NEW d \in Consumers, c # d
      PROVE  Held(c)' \cap Held(d)' = {}
  <2>1. CASE ReserveLine(c)
    BY <1>1, <1>2, <2>1
  <2>2. CASE ReserveLine(d)
    BY <1>1, <1>2, <2>2
  <2>3. CASE ~ReserveLine(c) /\ ~ReserveLine(d)
    <3>1. Held(c)' \subseteq Held(c) /\ Held(d)' \subseteq Held(d)
      BY <2>3, HeldChange
    <3> QED
      BY <1>0, <1>2, <3>1 DEF LockInv
  <2> QED
    BY <2>1, <2>2, <2>3
<1>3. ASSUME NEW c \in Consumers, NEW p \in Held(c)'
      PROVE  stock'[p] >= Quantity[msg'[c].order][p]
  <2>1. CASE p \in Held(c)
    <3>1. msg'[c] = msg[c]
      BY <1>3, HeldChange
    <3>2. stock[p] >= Quantity[msg[c].order][p]
      BY <1>0, <2>1 DEF LockInv
    <3>3. stock'[p] >= stock[p]
      BY <1>3, <2>1, LockedStockKept
    <3>4. stock[p] \in Int /\ stock'[p] \in Int /\ Quantity[msg[c].order][p] \in Int
      BY <2>1, HeldRow, TypeStep, InventoryAssumption
      DEF InventoryInv, TypeOK, TableTypes
    <3> QED
      BY <3>1, <3>2, <3>3, <3>4
  <2>2. CASE p \notin Held(c)
    <3>1. ReserveLine(c) /\ msg'[c] = msg[c] /\ p = Lines[msg[c].order][tx[c].line]
      BY <1>3, <2>2, HeldChange
    <3> QED
      BY <3>1 DEF ReserveLine, dbVars
  <2> QED
    BY <2>1, <2>2
<1> QED
  BY <1>2, <1>3 DEF LockInv

-----------------------------------------------------------------------------
(* Ledger rows and what a handler has done.                                 *)

\* The rows of an order become reserved when it is confirmed and are all given
\* back at once; no other step touches them.
LEMMA ReservedChange ==
  ASSUME InventoryInv, [Next]_vars, NEW o \in Orders
  PROVE  \/ Reserved(o)' = Reserved(o)
         \/ o \notin inbox
         \/ \E c \in Consumers :
              RestoreStock(c) /\ msg[c].order = o /\ Reserved(o)' = {}
<1>0. ledger \in [Orders -> [Products -> RowState]]
  BY DEF InventoryInv, TypeOK, TableTypes
<1>1. ASSUME NEW c \in Consumers, CommitOrder(c), o \in inbox
      PROVE  Reserved(o)' = Reserved(o)
  <2>1. msg[c].order # o /\ msg[c].order \in Orders
    BY <1>1, OrderOfMessage DEF CommitOrder
  <2>2. ledger'[o] = ledger[o]
    BY <1>0, <1>1, <2>1 DEF CommitOrder, CommitDecision
  <2> QED
    BY <2>2 DEF Reserved
<1>2. ASSUME NEW c \in Consumers, RestoreStock(c), msg[c].order # o
      PROVE  Reserved(o)' = Reserved(o)
  BY <1>0, <1>2, OrderOfMessage DEF RestoreStock, Reserved
<1>3. ASSUME NEW c \in Consumers, RestoreStock(c), msg[c].order = o
      PROVE  Reserved(o)' = {}
  <2>1. tx[c].rows = Reserved(o)
    BY <1>3 DEF InventoryInv, ReleaseInv, RestoreStock
  <2>2. ledger'[o] = [p \in Products |->
                        IF p \in Reserved(o) THEN "RELEASED" ELSE ledger[o][p]]
    BY <1>0, <1>3, <2>1 DEF RestoreStock
  <2> QED
    BY <2>2 DEF Reserved
<1>4. CASE UNCHANGED ledger
  BY <1>4 DEF Reserved
<1> QED
  BY <1>1, <1>2, <1>3, <1>4, TableChange DEF MarkPublished, AdjustWrite, dbVars

\* A command that asks to cancel an order exists only after its confirmation.
LEMMA CancelDecided ==
  ASSUME InventoryInv, NEW m \in Commands, m.type = "order-cancel-requested",
         mail[m] # "unsent"
  PROVE  m.order \in inbox /\ m.order \in Orders
BY DEF InventoryInv, HandledInv, Commands

\* An order that has nothing reserved after its decision never has again.
LEMMA NoRowsStay ==
  ASSUME InventoryInv, [Next]_vars, NEW o \in Orders, o \in inbox, Reserved(o) = {}
  PROVE  Reserved(o)' = {}
BY ReservedChange

\* One release at a time per order, of exactly the rows still reserved.
LEMMA ReleaseInvStep ==
  ASSUME InventoryInv, [Next]_vars
  PROVE  ReleaseInv'
<1>0. ReleaseInv /\ tx \in [Consumers -> TxRecord]
  BY DEF InventoryInv, TypeOK, ThreadTypes
<1>1. ASSUME NEW c \in Consumers, pc'[c] = "restore"
      PROVE  \/ pc[c] = "restore" /\ msg'[c] = msg[c] /\ tx'[c] = tx[c]
             \/ LockLedger(c) /\ msg'[c] = msg[c] /\ pc[c] = "release"
  <2>1. ASSUME ConsumerStep(c)
        PROVE  LockLedger(c)
    <3>1. ASSUME NEW m \in Commands, Receive(c, m)
          PROVE  FALSE
      BY <1>1, <3>1, OwnGoto DEF Receive
    <3>2. ASSUME CheckInbox(c) \/ ReserveLine(c) \/ LineShort(c)
          PROVE  FALSE
      BY <1>1, <3>2, OwnGoto DEF CheckInbox, ReserveLine, LineShort
    <3>3. ASSUME CommitOrder(c) \/ RestoreStock(c) \/ ReleaseUnavailable(c)
                 \/ Acknowledge(c)
          PROVE  FALSE
      BY <1>1, <3>3, OwnGoto
      DEF CommitOrder, RestoreStock, ReleaseUnavailable, Acknowledge
    <3>4. ASSUME CommitConflict(c) \/ DeadlockVictim(c)
          PROVE  FALSE
      BY <1>1, <3>4, OwnGoto DEF CommitConflict, DeadlockVictim, Rollback
    <3>5. ASSUME PublishStep(c)
          PROVE  FALSE
      BY <1>1, <3>5, PublishOwn
    <3> QED
      BY <2>1, <3>1, <3>2, <3>3, <3>4, <3>5 DEF ConsumerStep
  <2>2. LockLedger(c) => msg'[c] = msg[c] /\ pc[c] = "release"
    BY DEF LockLedger
  <2> QED
    BY <1>1, <2>1, <2>2, ConsumerChange
<1>2. ASSUME NEW c \in Consumers, NEW d \in Consumers, c # d, LockLedger(c),
             pc'[d] = "restore"
      PROVE  msg'[d].order # msg'[c].order
  <2>1. pc'[d] = pc[d] /\ msg'[d] = msg[d]
    BY <1>2, OtherConsumers DEF ConsumerStep
  <2> QED
    BY <1>2, <2>1 DEF LockLedger
<1>3. ASSUME NEW c \in Consumers, NEW d \in Consumers, pc'[c] = "restore",
             pc'[d] = "restore", msg'[c].order = msg'[d].order
      PROVE  c = d
  BY <1>0, <1>1, <1>2, <1>3 DEF ReleaseInv
<1>4. ASSUME NEW c \in Consumers, pc'[c] = "restore"
      PROVE  tx'[c].rows = Reserved(msg[c].order)' /\ tx'[c].rows # {}
  <2>1. CASE pc[c] = "restore" /\ msg'[c] = msg[c] /\ tx'[c] = tx[c]
    <3>1. msg[c].order \in inbox /\ msg[c].order \in Orders
      BY <2>1, CancelDecided DEF InventoryInv, ConsumerInv
    <3>2. PICK o \in Orders : o = msg[c].order
      BY <3>1
    <3>3. ASSUME NEW d \in Consumers, RestoreStock(d), msg[d].order = o
          PROVE  FALSE
      <4>1. pc[d] = "restore" /\ pc'[d] # "restore"
        BY <3>3, OwnGoto DEF RestoreStock
      <4> QED
        BY <1>0, <1>4, <2>1, <3>2, <3>3, <4>1 DEF ReleaseInv
    <3>4. Reserved(o)' = Reserved(o)
      BY <3>1, <3>2, <3>3, ReservedChange
    <3>5. tx[c].rows = Reserved(o) /\ tx[c].rows # {}
      BY <1>0, <2>1, <3>2 DEF ReleaseInv
    <3>6. Reserved(msg[c].order)' = Reserved(o)'
      BY <2>1, <3>2 DEF Reserved
    <3> QED
      BY <2>1, <3>4, <3>5, <3>6
  <2>2. CASE LockLedger(c) /\ msg'[c] = msg[c]
    <3>1. tx'[c].rows = Reserved(msg[c].order)
      BY <1>0, <2>2 DEF LockLedger, TxRecord
    <3>2. Reserved(msg[c].order) # {}
      <4>1. CASE Reserved(msg[c].order) = {}
        <5>1. Goto(c, "publish")
          BY <2>2, <4>1 DEF LockLedger
        <5> QED
          BY <1>4, <5>1, OwnGoto
      <4> QED
        BY <4>1
    <3>3. UNCHANGED ledger
      BY <2>2 DEF LockLedger, dbVars
    <3>4. Reserved(msg[c].order)' = Reserved(msg[c].order)
      BY <2>2, <3>3 DEF Reserved
    <3> QED
      BY <3>1, <3>2, <3>4
  <2> QED
    BY <1>1, <1>4, <2>1, <2>2
<1> QED
  BY <1>3, <1>4 DEF ReleaseInv

\* A handler that is relaying has made its command durable.
LEMMA HandledInvStep ==
  ASSUME InventoryInv, [Next]_vars
  PROVE  HandledInv'
<1>0. HandledInv /\ ConsumerInv /\ DecisionConsistent
  BY DEF InventoryInv
<1>1. mail \in [Commands -> {"unsent", "queued", "deleted", "dlq"}]
  BY DEF InventoryInv, TypeOK, QueueTypes
<1>2. ASSUME NEW m \in Commands, m.type = "order-cancel-requested",
             mail'[m] # "unsent"
      PROVE  m.order \in inbox'
  <2>1. CASE SendCommand(m)
    <3>1. decision[m.order] # "NONE" /\ m.order \in Orders
      BY <1>2, <2>1 DEF SendCommand, Commands
    <3> QED
      BY <1>0, <3>1, Monotone DEF DecisionConsistent
  <2>2. CASE ~SendCommand(m)
    <3>1. mail[m] # "unsent"
      BY <1>1, <1>2, <2>2, MailChange DEF SendCommand, Redrive, Acknowledge
    <3> QED
      BY <1>2, <3>1, CancelDecided, Monotone
  <2> QED
    BY <2>1, <2>2
<1>3. ASSUME NEW c \in Consumers, pc'[c] \in {"publish", "relay"}
      PROVE  IF msg'[c].type = "order-created" THEN msg'[c].order \in inbox'
             ELSE Reserved(msg[c].order)' = {}
  <2>1. CASE /\ pc[c] \in {"publish", "relay"} /\ msg'[c] = msg[c]
    <3>1. PICK m \in Commands : m = msg[c] /\ mail[m] # "unsent"
      BY <1>0, <2>1 DEF ConsumerInv
    <3>2. CASE m.type = "order-created"
      BY <1>0, <2>1, <3>1, <3>2, Monotone DEF HandledInv
    <3>3. CASE m.type # "order-created"
      <4>1. m.order \in inbox /\ m.order \in Orders /\ Reserved(m.order) = {}
        BY <1>0, <2>1, <3>1, <3>3, CancelDecided DEF HandledInv, Commands
      <4>2. PICK o \in Orders : o = m.order
        BY <4>1
      <4>3. Reserved(o)' = {}
        BY <4>1, <4>2, NoRowsStay
      <4>4. Reserved(msg[c].order)' = Reserved(o)'
        BY <2>1, <3>1, <4>2 DEF Reserved
      <4> QED
        BY <2>1, <3>1, <3>3, <4>3, <4>4
    <3> QED
      BY <3>2, <3>3
  <2>2. CASE CheckInbox(c)
    <3>1. msg[c].type = "order-created" /\ msg'[c] = msg[c] /\ UNCHANGED inbox
      BY <1>0, <2>2 DEF CheckInbox, ConsumerInv, dbVars
    <3>2. CASE msg[c].order \in inbox
      BY <3>1, <3>2
    <3>3. CASE msg[c].order \notin inbox
      <4>1. Goto(c, "commit") \/ Goto(c, "lines")
        BY <2>2, <3>3 DEF CheckInbox
      <4> QED
        BY <1>3, <4>1, OwnGoto
    <3> QED
      BY <3>2, <3>3
  <2>3. CASE CommitOrder(c)
    <3>1. msg[c].type = "order-created" /\ msg[c].order \in inbox'
      BY <1>0, <2>3 DEF CommitOrder, CommitDecision, ConsumerInv
    <3>2. msg'[c] = msg[c]
      BY <1>3, <2>3, OwnGoto DEF CommitOrder
    <3> QED
      BY <3>1, <3>2
  <2>4. CASE RestoreStock(c)
    <3>1. /\ msg[c].type # "order-created" /\ msg[c] \in Commands
          /\ mail[msg[c]] # "unsent" /\ pc[c] = "restore"
      BY <1>0, <2>4 DEF RestoreStock, ConsumerInv
    <3>2. msg'[c] = msg[c]
      BY <1>3, <2>4, OwnGoto DEF RestoreStock
    <3>3. PICK o \in Orders : o = msg[c].order
      BY <3>1 DEF Commands
    <3>4. tx[c].rows = Reserved(o) /\ ledger \in [Orders -> [Products -> RowState]]
      BY <3>1, <3>3 DEF InventoryInv, ReleaseInv, TypeOK, TableTypes
    <3>5. ledger'[o] = [p \in Products |->
                          IF p \in Reserved(o) THEN "RELEASED" ELSE ledger[o][p]]
      BY <2>4, <3>3, <3>4 DEF RestoreStock
    <3>6. Reserved(o)' = {}
      BY <3>5 DEF Reserved
    <3>7. Reserved(msg[c].order)' = Reserved(o)'
      BY <3>2, <3>3 DEF Reserved
    <3> QED
      BY <3>1, <3>2, <3>6, <3>7
  <2>5. CASE LockLedger(c)
    <3>1. /\ msg[c].type # "order-created" /\ msg'[c] = msg[c]
          /\ UNCHANGED ledger
      BY <1>0, <2>5 DEF LockLedger, ConsumerInv, dbVars
    <3>2. CASE Reserved(msg[c].order) = {}
      <4>1. Reserved(msg[c].order)' = Reserved(msg[c].order)
        BY <3>1 DEF Reserved
      <4> QED
        BY <3>1, <3>2, <4>1
    <3>3. CASE Reserved(msg[c].order) # {}
      <4>1. Goto(c, "restore")
        BY <2>5, <3>3 DEF LockLedger
      <4> QED
        BY <1>3, <4>1, OwnGoto
    <3> QED
      BY <3>2, <3>3
  <2>6. ASSUME ConsumerStep(c), ~CheckInbox(c), ~CommitOrder(c),
               ~RestoreStock(c), ~LockLedger(c)
        PROVE  pc[c] \in {"publish", "relay"} /\ msg'[c] = msg[c]
    <3>1. ASSUME NEW m \in Commands, Receive(c, m)
          PROVE  FALSE
      BY <1>3, <3>1, OwnGoto DEF Receive
    <3>2. ASSUME ReserveLine(c) \/ LineShort(c)
          PROVE  FALSE
      BY <1>3, <3>2, OwnGoto DEF ReserveLine, LineShort
    <3>3. ASSUME ReleaseUnavailable(c) \/ Acknowledge(c)
          PROVE  FALSE
      BY <1>3, <3>3, OwnGoto DEF ReleaseUnavailable, Acknowledge
    <3>4. ASSUME CommitConflict(c) \/ DeadlockVictim(c)
          PROVE  FALSE
      BY <1>3, <3>4, OwnGoto DEF CommitConflict, DeadlockVictim, Rollback
    <3>5. ASSUME PublishStep(c)
          PROVE  pc[c] \in {"publish", "relay"} /\ msg'[c] = msg[c]
      BY <3>5, PublishOwn DEF txVars
    <3> QED
      BY <2>6, <3>1, <3>2, <3>3, <3>4, <3>5 DEF ConsumerStep
  <2> QED
    BY <1>3, <2>1, <2>2, <2>3, <2>4, <2>5, <2>6, ConsumerChange
<1> QED
  BY <1>2, <1>3 DEF HandledInv

-----------------------------------------------------------------------------
(* The outbox.                                                              *)

\* A row once written is never removed.
LEMMA RowsStay ==
  ASSUME InventoryInv, [Next]_vars, NEW e \in Events, outbox[e] # "NONE"
  PROVE  outbox'[e] # "NONE"
<1>1. outbox \in [Events -> {"NONE", "PENDING", "PUBLISHED"}]
  BY DEF InventoryInv, TypeOK, TableTypes
<1>2. ASSUME NEW x \in Threads, MarkPublished(x)
      PROVE  outbox'[e] # "NONE"
  BY <1>1, <1>2 DEF MarkPublished
<1>3. ASSUME NEW c \in Consumers, CommitOrder(c) \/ RestoreStock(c)
      PROVE  outbox'[e] # "NONE"
  BY <1>1, <1>3 DEF CommitOrder, CommitDecision, RestoreStock
<1> QED
  BY <1>2, <1>3, TableChange DEF AdjustWrite, dbVars

\* The steps that touch a relay's batch or what SNS accepted.
LEMMA RelayChange ==
  ASSUME [Next]_vars
  PROVE  \/ UNCHANGED <<relayVars, announced>>
         \/ \E x \in Threads : PublishStep(x)
         \/ \E x \in Threads, e \in Events : RecordFails(x, e)
         \/ \E h \in Hosts : Crash(h)
<1>1. ASSUME NEW c \in Consumers, ConsumerStep(c)
      PROVE  UNCHANGED <<relayVars, announced>> \/ PublishStep(c)
  BY <1>1
  DEF ConsumerStep, Receive, CheckInbox, ReserveLine, LineShort, CommitOrder,
      CommitConflict, DeadlockVictim, ReleaseUnavailable, LockLedger,
      RestoreStock, Acknowledge
<1>2. ASSUME NEW r \in Relays, RelayStep(r)
      PROVE  UNCHANGED <<relayVars, announced>> \/ PublishStep(r)
  BY <1>2 DEF RelayStep, RelayAgain
<1>3. ASSUME NEW x \in Threads, FaultStep(x)
      PROVE  UNCHANGED <<relayVars, announced>> \/ \E e \in Events : RecordFails(x, e)
  BY <1>3 DEF FaultStep, DatabaseFault, ReadPendingFails
<1> QED
  BY <1>1, <1>2, <1>3
  DEF Next, SendCommand, Redrive, AdminStep, AdjustRead, AdjustWrite, vars, Threads

\* Only its own steps, a fault and a crash move a thread.
LEMMA ThreadChange ==
  ASSUME InventoryInv, [Next]_vars, NEW x \in Threads
  PROVE  \/ pc'[x] = pc[x]
         \/ x \in Consumers /\ ConsumerStep(x)
         \/ x \in Relays /\ RelayStep(x)
         \/ FaultStep(x)
         \/ \E h \in Hosts : Crash(h) /\ Host[x] = h
<1>0. pc \in [Threads -> ConsumerPC \cup RelayPC]
  BY DEF InventoryInv, TypeOK, ThreadTypes
<1>1. ASSUME NEW c \in Consumers, ConsumerStep(c), c # x
      PROVE  pc'[x] = pc[x]
  BY <1>0, <1>1
  DEF ConsumerStep, Receive, CheckInbox, ReserveLine, LineShort, CommitOrder,
      CommitConflict, DeadlockVictim, Rollback, ReleaseUnavailable, LockLedger,
      RestoreStock, PublishStep, ReadPending, PublishRecord, MarkPublished,
      Acknowledge, Goto, Return, EndTx
<1>2. ASSUME NEW r \in Relays, RelayStep(r), r # x
      PROVE  pc'[x] = pc[x]
  BY <1>0, <1>2
  DEF RelayStep, RelayAgain, PublishStep, ReadPending, PublishRecord,
      MarkPublished, Goto
<1>3. ASSUME NEW y \in Threads, FaultStep(y), y # x
      PROVE  pc'[x] = pc[x]
  BY <1>0, <1>3
  DEF FaultStep, DatabaseFault, ReadPendingFails, RecordFails, Goto, Return
<1>4. ASSUME NEW h \in Hosts, Crash(h), Host[x] # h
      PROVE  pc'[x] = pc[x]
  BY <1>4 DEF Crash
<1> QED
  BY <1>1, <1>2, <1>3, <1>4
  DEF Next, SendCommand, Redrive, AdminStep, AdjustRead, AdjustWrite, vars

\* A thread leaves publish_once only when it is done with its batch.
LEMMA BatchDone ==
  ASSUME InventoryInv, [Next]_vars, NEW x \in Threads, pc[x] = "relay",
         pc'[x] # "relay"
  PROVE  batch[x] = {} \/ current'[x] = None
<1>0. pc \in [Threads -> ConsumerPC \cup RelayPC]
  BY DEF InventoryInv, TypeOK, ThreadTypes
<1>1. CASE PublishStep(x)
  BY <1>0, <1>1 DEF PublishStep, ReadPending, PublishRecord, MarkPublished
<1>2. CASE x \in Consumers /\ ConsumerStep(x)
  BY <1>1, <1>2
  DEF ConsumerStep, Receive, CheckInbox, ReserveLine, LineShort, CommitOrder,
      CommitConflict, DeadlockVictim, WaitsFor, Blocked, ReleaseUnavailable,
      LockLedger, RestoreStock, Acknowledge
<1>3. CASE x \in Relays /\ RelayStep(x)
  BY <1>1, <1>3 DEF RelayStep, RelayAgain
<1>4. CASE FaultStep(x)
  BY <1>4 DEF FaultStep, DatabaseFault, ReadPendingFails, RecordFails
<1>5. ASSUME NEW h \in Hosts, Crash(h), Host[x] = h
      PROVE  current'[x] = None
  BY <1>5 DEF Crash
<1> QED
  BY <1>2, <1>3, <1>4, <1>5, ThreadChange

\* Only durable rows are relayed, and only accepted ones are marked.
LEMMA RelayInvStep ==
  ASSUME InventoryInv, [Next]_vars
  PROVE  RelayInv'
<1>0. /\ RelayInv
      /\ batch \in [Threads -> SUBSET Events]
      /\ current \in [Threads -> Events \cup {None}]
      /\ announced \subseteq Events
  BY DEF InventoryInv, TypeOK, RelayTypes, QueueTypes
<1>1. ASSUME NEW x \in Threads
      PROVE  /\ \A e \in batch'[x] : e \in Events /\ outbox[e] # "NONE"
             /\ current'[x] # None => current'[x] \in batch'[x]
                                      /\ current'[x] \in announced'
  <2>1. ASSUME NEW y \in Threads, ReadPending(y)
        PROVE  /\ \A e \in batch'[x] : e \in Events /\ outbox[e] # "NONE"
               /\ current'[x] # None => current'[x] \in batch'[x]
                                        /\ current'[x] \in announced'
    BY <1>0, <2>1 DEF ReadPending, RelayInv
  <2>2. ASSUME NEW y \in Threads, NEW e \in Events, PublishRecord(y, e)
        PROVE  /\ \A f \in batch'[x] : f \in Events /\ outbox[f] # "NONE"
               /\ current'[x] # None => current'[x] \in batch'[x]
                                        /\ current'[x] \in announced'
    BY <1>0, <2>2 DEF PublishRecord, RelayInv
  <2>3. ASSUME NEW y \in Threads, MarkPublished(y)
        PROVE  /\ \A f \in batch'[x] : f \in Events /\ outbox[f] # "NONE"
               /\ current'[x] # None => current'[x] \in batch'[x]
                                        /\ current'[x] \in announced'
    BY <1>0, <2>3 DEF MarkPublished, RelayInv
  <2>4. ASSUME NEW y \in Threads, NEW e \in Events, RecordFails(y, e)
        PROVE  /\ \A f \in batch'[x] : f \in Events /\ outbox[f] # "NONE"
               /\ current'[x] # None => current'[x] \in batch'[x]
                                        /\ current'[x] \in announced'
    BY <1>0, <2>4 DEF RecordFails, RelayInv
  <2>5. ASSUME NEW h \in Hosts, Crash(h)
        PROVE  /\ \A f \in batch'[x] : f \in Events /\ outbox[f] # "NONE"
               /\ current'[x] # None => current'[x] \in batch'[x]
                                        /\ current'[x] \in announced'
    BY <1>0, <2>5 DEF Crash, RelayInv
  <2>6. CASE UNCHANGED <<relayVars, announced>>
    BY <1>0, <2>6 DEF relayVars, RelayInv
  <2> QED
    BY <2>1, <2>2, <2>3, <2>4, <2>5, <2>6, RelayChange DEF PublishStep
<1>2. ASSUME NEW x \in Threads, current'[x] # None
      PROVE  pc'[x] = "relay"
  <2>1. CASE current[x] # None
    BY <1>0, <1>2, <2>1, BatchDone DEF RelayInv
  <2>2. CASE current[x] = None
    <3>1. PICK e \in Events : PublishRecord(x, e)
      BY <1>0, <1>2, <2>2, RelayChange
      DEF PublishStep, ReadPending, PublishRecord, MarkPublished, RecordFails,
          Crash, relayVars
    <3> QED
      BY <3>1 DEF PublishRecord
  <2> QED
    BY <2>1, <2>2
<1> QED
  BY <1>1, <1>2, RowsStay DEF RelayInv

-----------------------------------------------------------------------------
(* The properties.                                                          *)

\* The tables that one decision writes keep agreeing.
LEMMA DecisionConsistentStep ==
  ASSUME InventoryInv, [Next]_vars
  PROVE  DecisionConsistent'
<1> DEFINE Agree(o) ==
      /\ o \in inbox <=> decision[o] # "NONE"
      /\ o \in inbox <=> outbox[<<"outcome", o>>] # "NONE"
      /\ {p \in Products : ledger[o][p] # "NONE"} =
           IF decision[o] = "order-confirmed" THEN OrderProducts(o) ELSE {}
      /\ outbox[<<"cancelled", o>>] # "NONE" <=>
           \E p \in Products : ledger[o][p] = "RELEASED"
      /\ outbox[<<"cancelled", o>>] # "NONE" => Reserved(o) = {}
<1>0. SUFFICES ASSUME NEW o \in Orders PROVE Agree(o)'
  BY DEF DecisionConsistent
<1>1. Agree(o)
  BY DEF InventoryInv, DecisionConsistent
<1>2. /\ inbox \subseteq Orders
      /\ decision \in [Orders -> {"NONE", "order-confirmed", "order-rejected"}]
      /\ outbox \in [Events -> {"NONE", "PENDING", "PUBLISHED"}]
      /\ ledger \in [Orders -> [Products -> RowState]]
  BY DEF InventoryInv, TypeOK, TableTypes
<1>3. \A x \in Orders : <<"outcome", x>> \in Events /\ <<"cancelled", x>> \in Events
  BY DEF Events
<1>4. ASSUME NEW c \in Consumers, CommitOrder(c)
      PROVE  Agree(o)'
  <2>1. PICK x \in Orders : x = msg[c].order
    BY <1>4, OrderOfMessage DEF CommitOrder
  <2>2. /\ x \notin inbox
        /\ inbox' = inbox \cup {x}
        /\ decision' = [decision EXCEPT ![x] =
             IF tx[c].short THEN "order-rejected" ELSE "order-confirmed"]
        /\ outbox' = [outbox EXCEPT ![<<"outcome", x>>] = "PENDING"]
        /\ ledger' = IF tx[c].short THEN ledger
                     ELSE [ledger EXCEPT ![x] = [p \in Products |->
                       IF p \in OrderProducts(x) THEN "RESERVED" ELSE ledger[x][p]]]
    BY <1>4, <2>1 DEF CommitOrder, CommitDecision
  <2>3. CASE o # x
    <3>1. /\ o \in inbox' <=> o \in inbox
          /\ decision'[o] = decision[o] /\ ledger'[o] = ledger[o]
          /\ outbox'[<<"outcome", o>>] = outbox[<<"outcome", o>>]
          /\ outbox'[<<"cancelled", o>>] = outbox[<<"cancelled", o>>]
      BY <1>2, <1>3, <2>2, <2>3
    <3> QED
      BY <1>1, <3>1 DEF Reserved
  <2>4. CASE o = x
    <3>1. /\ o \in inbox'
          /\ decision'[o] = IF tx[c].short THEN "order-rejected" ELSE "order-confirmed"
          /\ outbox'[<<"outcome", o>>] = "PENDING"
          /\ outbox'[<<"cancelled", o>>] = outbox[<<"cancelled", o>>]
      BY <1>2, <1>3, <2>2, <2>4
    <3>2. \A p \in Products : ledger[o][p] = "NONE"
      BY <1>1, <2>2, <2>4
    <3>3. outbox[<<"cancelled", o>>] = "NONE"
      BY <1>1, <3>2
    <3>4. \A p \in Products : ledger'[o][p] =
            IF ~tx[c].short /\ p \in OrderProducts(o) THEN "RESERVED" ELSE "NONE"
      BY <1>2, <2>2, <2>4, <3>2
    <3>5. OrderProducts(o) \subseteq Products
      BY InventoryAssumption DEF OrderProducts
    <3>6. {p \in Products : ledger'[o][p] # "NONE"} =
            IF decision'[o] = "order-confirmed" THEN OrderProducts(o) ELSE {}
      BY <3>1, <3>4, <3>5
    <3>7. ~\E p \in Products : ledger'[o][p] = "RELEASED"
      BY <3>4
    <3> QED
      BY <3>1, <3>3, <3>6, <3>7 DEF OrderProducts
  <2> QED
    BY <2>3, <2>4
<1>5. ASSUME NEW c \in Consumers, RestoreStock(c)
      PROVE  Agree(o)'
  <2>1. PICK x \in Orders : x = msg[c].order
    BY <1>5, OrderOfMessage DEF RestoreStock
  <2>2. tx[c].rows = Reserved(x) /\ Reserved(x) # {}
    BY <1>5, <2>1 DEF RestoreStock, InventoryInv, ReleaseInv
  <2>3. /\ UNCHANGED <<inbox, decision>>
        /\ outbox' = [outbox EXCEPT ![<<"cancelled", x>>] = "PENDING"]
        /\ ledger' = [ledger EXCEPT ![x] = [p \in Products |->
             IF p \in Reserved(x) THEN "RELEASED" ELSE ledger[x][p]]]
    BY <1>5, <2>1, <2>2 DEF RestoreStock
  <2>4. CASE o # x
    <3>1. /\ ledger'[o] = ledger[o]
          /\ outbox'[<<"outcome", o>>] = outbox[<<"outcome", o>>]
          /\ outbox'[<<"cancelled", o>>] = outbox[<<"cancelled", o>>]
      BY <1>2, <1>3, <2>3, <2>4
    <3> QED
      BY <1>1, <2>3, <3>1 DEF Reserved
  <2>5. CASE o = x
    <3>1. /\ outbox'[<<"outcome", o>>] = outbox[<<"outcome", o>>]
          /\ outbox'[<<"cancelled", o>>] = "PENDING"
      BY <1>2, <1>3, <2>3, <2>5
    <3>2. \A p \in Products : ledger'[o][p] =
            IF p \in Reserved(o) THEN "RELEASED" ELSE ledger[o][p]
      BY <1>2, <2>3, <2>5
    <3>3. \A p \in Products : p \in Reserved(o) <=> ledger[o][p] = "RESERVED"
      BY DEF Reserved
    <3>4. {p \in Products : ledger'[o][p] # "NONE"}
            = {p \in Products : ledger[o][p] # "NONE"}
      BY <3>2, <3>3
    <3>5. \E p \in Products : ledger'[o][p] = "RELEASED"
      BY <2>2, <2>5, <3>2 DEF Reserved
    <3>6. \A p \in Products : ledger'[o][p] # "RESERVED"
      BY <3>2, <3>3
    <3>7. Reserved(o)' = {}
      BY <3>6 DEF Reserved
    <3> QED
      BY <1>1, <2>3, <3>1, <3>4, <3>5, <3>7
  <2> QED
    BY <2>4, <2>5
<1>6. ASSUME NEW x \in Threads, MarkPublished(x)
      PROVE  Agree(o)'
  <2>1. \A e \in Events : outbox'[e] # "NONE" <=> outbox[e] # "NONE"
    BY <1>2, <1>6 DEF MarkPublished
  <2>2. UNCHANGED <<inbox, decision, ledger>>
    BY <1>6 DEF MarkPublished
  <2> QED
    BY <1>1, <1>3, <2>1, <2>2 DEF Reserved
<1>7. CASE UNCHANGED <<inbox, decision, outbox, ledger>>
  BY <1>1, <1>7 DEF Reserved
<1> QED
  BY <1>4, <1>5, <1>6, <1>7, TableChange DEF AdjustWrite, dbVars

\* Nothing is announced before it is durable, or marked before announced.
LEMMA AnnouncedIsDurableStep ==
  ASSUME InventoryInv, [Next]_vars
  PROVE  AnnouncedIsDurable'
<1>0. /\ outbox \in [Events -> {"NONE", "PENDING", "PUBLISHED"}]
      /\ announced \subseteq Events
      /\ AnnouncedIsDurable /\ RelayInv
  BY DEF InventoryInv, TypeOK, TableTypes, QueueTypes
<1>1. announced \subseteq announced'
  BY RelayChange DEF PublishStep, ReadPending, PublishRecord, MarkPublished,
                     RecordFails, Crash
<1>2. ASSUME NEW e \in Events, e \in announced'
      PROVE  outbox'[e] # "NONE"
  <2>1. CASE e \in announced
    BY <1>0, <2>1, RowsStay DEF AnnouncedIsDurable
  <2>2. CASE e \notin announced
    <3>1. PICK x \in Threads : PublishRecord(x, e)
      BY <1>2, <2>2, RelayChange
      DEF PublishStep, ReadPending, PublishRecord, MarkPublished, RecordFails, Crash
    <3>2. outbox[e] # "NONE"
      BY <1>0, <3>1 DEF PublishRecord, RelayInv
    <3> QED
      BY <3>2, RowsStay
  <2> QED
    BY <2>1, <2>2
<1>3. ASSUME NEW e \in Events, outbox'[e] = "PUBLISHED"
      PROVE  e \in announced'
  <2>1. CASE outbox[e] = "PUBLISHED"
    BY <1>0, <1>1, <2>1 DEF AnnouncedIsDurable
  <2>2. CASE outbox[e] # "PUBLISHED"
    <3>1. PICK x \in Threads : MarkPublished(x) /\ current[x] = e
      BY <1>0, <1>3, <2>2, TableChange
      DEF CommitOrder, CommitDecision, RestoreStock, MarkPublished, AdjustWrite, dbVars
    <3>2. current[x] \in announced
      BY <1>0, <3>1 DEF MarkPublished, RelayInv
    <3> QED
      BY <1>1, <3>1, <3>2
  <2> QED
    BY <2>1, <2>2
<1> QED
  BY <1>2, <1>3 DEF AnnouncedIsDurable

\* A deleted command stays done.
LEMMA DeletedIsDoneStep ==
  ASSUME InventoryInv, [Next]_vars
  PROVE  DeletedIsDone'
<1>0. /\ mail \in [Commands -> {"unsent", "queued", "deleted", "dlq"}]
      /\ DeletedIsDone /\ HandledInv /\ ConsumerInv
  BY DEF InventoryInv, TypeOK, QueueTypes
<1> DEFINE Done(m) == IF m.type = "order-created" THEN m.order \in inbox
                      ELSE Reserved(m.order) = {}
<1>1. ASSUME NEW m \in Commands, mail[m] # "unsent", Done(m)
      PROVE  Done(m)'
  <2>1. CASE m.type = "order-created"
    BY <1>1, <2>1, Monotone
  <2>2. CASE m.type # "order-created"
    <3>1. m.order \in inbox /\ m.order \in Orders
      BY <1>1, <2>2, CancelDecided DEF Commands
    <3> QED
      BY <1>1, <2>2, <3>1, NoRowsStay
  <2> QED
    BY <2>1, <2>2
<1>2. ASSUME NEW m \in Commands, mail'[m] = "deleted"
      PROVE  mail[m] # "unsent" /\ Done(m)
  <2>1. CASE mail[m] = "deleted"
    BY <1>0, <2>1 DEF DeletedIsDone
  <2>2. CASE mail[m] # "deleted"
    <3>1. PICK c \in Consumers : Acknowledge(c) /\ msg[c] = m /\ mail[m] = "queued"
      BY <1>0, <1>2, <2>2, MailChange DEF SendCommand, Redrive, Acknowledge
    <3>2. pc[c] = "relay"
      BY <3>1 DEF Acknowledge
    <3> QED
      BY <1>0, <3>1, <3>2 DEF HandledInv
  <2> QED
    BY <2>1, <2>2
<1> QED
  BY <1>1, <1>2 DEF DeletedIsDone

\* A decision is never changed and a released row never reserved again.
LEMMA DecidedOnceStep ==
  ASSUME InventoryInv, [Next]_vars, NEW o \in Orders, o \in inbox
  PROVE  /\ decision'[o] = decision[o]
         /\ \A p \in Products : ledger[o][p] # ledger'[o][p] =>
              ledger[o][p] = "RESERVED" /\ ledger'[o][p] = "RELEASED"
<1>1. /\ decision \in [Orders -> {"NONE", "order-confirmed", "order-rejected"}]
      /\ ledger \in [Orders -> [Products -> RowState]]
  BY DEF InventoryInv, TypeOK, TableTypes
<1>2. ASSUME NEW c \in Consumers, CommitOrder(c)
      PROVE  decision'[o] = decision[o] /\ ledger'[o] = ledger[o]
  <2>1. msg[c].order # o /\ msg[c].order \in Orders
    BY <1>2, OrderOfMessage DEF CommitOrder
  <2> QED
    BY <1>1, <1>2, <2>1 DEF CommitOrder, CommitDecision
<1>3. ASSUME NEW c \in Consumers, RestoreStock(c)
      PROVE  /\ decision'[o] = decision[o]
             /\ \A p \in Products : ledger[o][p] # ledger'[o][p] =>
                  ledger[o][p] = "RESERVED" /\ ledger'[o][p] = "RELEASED"
  <2>1. tx[c].rows = Reserved(msg[c].order) /\ UNCHANGED decision
    BY <1>3 DEF InventoryInv, ReleaseInv, RestoreStock
  <2>2. PICK x \in Orders : x = msg[c].order
    BY <1>3, OrderOfMessage DEF RestoreStock
  <2>3. ledger' = [ledger EXCEPT ![x] = [p \in Products |->
                     IF p \in Reserved(x) THEN "RELEASED" ELSE ledger[x][p]]]
    BY <1>3, <2>1, <2>2 DEF RestoreStock
  <2> QED
    BY <1>1, <2>1, <2>3 DEF Reserved
<1>4. CASE UNCHANGED <<decision, ledger>>
  BY <1>4
<1> QED
  BY <1>2, <1>3, <1>4, TableChange DEF MarkPublished, AdjustWrite, dbVars

-----------------------------------------------------------------------------
(* Units of stock.                                                          *)

\* The units of one order's line are as many as it asks for.
LEMMA UnitsOfOrder ==
  ASSUME NEW o \in Orders, NEW p \in Products
  PROVE  /\ IsFiniteSet({o} \X (1..Quantity[o][p]))
         /\ Cardinality({o} \X (1..Quantity[o][p])) = Quantity[o][p]
         /\ Quantity[o][p] \in Nat
<1>1. Quantity[o][p] \in Nat \ {0}
  BY InventoryAssumption
<1>2. IsFiniteSet({o}) /\ Cardinality({o}) = 1
  BY FS_Singleton
<1>3. IsFiniteSet(1..Quantity[o][p]) /\ Cardinality(1..Quantity[o][p]) = Quantity[o][p]
  <2>1. \A n \in Nat \ {0} : IsFiniteSet(1..n) /\ Cardinality(1..n) = n
    <3>1. ASSUME NEW n \in Nat \ {0}
          PROVE  IsFiniteSet(1..n) /\ Cardinality(1..n) = IF 1 > n THEN 0 ELSE n - 1 + 1
      BY FS_Interval
    <3>2. \A n \in Nat \ {0} : ~(1 > n) /\ n - 1 + 1 = n
      OBVIOUS
    <3> QED
      BY <3>1, <3>2
  <2> QED
    BY <1>1, <2>1
<1>4. /\ IsFiniteSet({o} \X (1..Quantity[o][p]))
      /\ Cardinality({o} \X (1..Quantity[o][p])) = 1 * Quantity[o][p]
  BY <1>2, <1>3, FS_Product
<1> QED
  BY <1>1, <1>4

\* An order that joins the holders of a product adds what it asks for.
LEMMA UnitsAdded ==
  ASSUME NEW H \in SUBSET Orders, NEW o \in Orders, NEW p \in Products,
         o \notin H, IsFiniteSet(UnitsOf(H, p))
  PROVE  /\ IsFiniteSet(UnitsOf(H \cup {o}, p))
         /\ Cardinality(UnitsOf(H \cup {o}, p)) = Cardinality(UnitsOf(H, p)) + Quantity[o][p]
<1> DEFINE Mine == {o} \X (1..Quantity[o][p])
<1>1. UnitsOf(H \cup {o}, p) = UnitsOf(H, p) \cup Mine
  BY DEF UnitsOf
<1>2. UnitsOf(H, p) \cap Mine = {}
  BY DEF UnitsOf
<1>3. IsFiniteSet(Mine) /\ Cardinality(Mine) = Quantity[o][p] /\ Quantity[o][p] \in Nat
  BY UnitsOfOrder
<1> HIDE DEF Mine
<1>4. /\ IsFiniteSet(UnitsOf(H, p) \cup Mine)
      /\ Cardinality(UnitsOf(H, p) \cup Mine) =
           Cardinality(UnitsOf(H, p)) + Cardinality(Mine) - Cardinality({})
  BY <1>2, <1>3, FS_Union
<1>5. Cardinality(UnitsOf(H, p)) \in Nat /\ Cardinality({}) = 0
  BY FS_CardinalityType, FS_EmptySet
<1>6. Cardinality(UnitsOf(H, p) \cup Mine) = Cardinality(UnitsOf(H, p)) + Quantity[o][p]
  BY <1>3, <1>4, <1>5
<1> QED
  BY <1>1, <1>4, <1>6

\* An order that leaves them takes that much away.
LEMMA UnitsRemoved ==
  ASSUME NEW H \in SUBSET Orders, NEW o \in H, NEW p \in Products,
         IsFiniteSet(UnitsOf(H, p))
  PROVE  /\ IsFiniteSet(UnitsOf(H \ {o}, p))
         /\ Cardinality(UnitsOf(H, p)) = Cardinality(UnitsOf(H \ {o}, p)) + Quantity[o][p]
<1>1. UnitsOf(H \ {o}, p) \in SUBSET UnitsOf(H, p)
  BY DEF UnitsOf
<1>2. IsFiniteSet(UnitsOf(H \ {o}, p))
  BY <1>1, FS_Subset
<1>3. (H \ {o}) \cup {o} = H /\ o \in Orders /\ H \ {o} \in SUBSET Orders
  OBVIOUS
<1> QED
  BY <1>2, <1>3, UnitsAdded

\* The transaction that confirms an order has decremented all its products.
LEMMA ConfirmedHolds ==
  ASSUME InventoryInv, NEW c \in Consumers, pc[c] = "commit", ~tx[c].short
  PROVE  Held(c) = OrderProducts(msg[c].order)
<1>1. Lines[msg[c].order] \in Seq(Products)
  BY OrderOfMessage, InventoryAssumption
<1>2. tx[c].line = Len(Lines[msg[c].order]) + 1 /\ Len(Lines[msg[c].order]) \in Nat
  BY <1>1 DEF InventoryInv, ConsumerInv
<1> QED
  BY <1>2 DEF Held, OrderProducts

\* The units of p that are on the shelf or held, less those that operators stated.
Balance(p) == stock[p] + HeldForOrders(p) - supply[p]

\* Where the units of a product can be counted, they are numbers.
LEMMA BalanceNumbers ==
  ASSUME InventoryInv, NEW p \in Products, IsFiniteSet(UnitsOf(Holders(p), p))
  PROVE  stock[p] \in Nat /\ supply[p] \in Int /\ HeldForOrders(p) \in Nat
<1>1. stock[p] \in Nat /\ supply[p] \in Int
  BY DEF InventoryInv, TypeOK, TableTypes
<1> QED
  BY <1>1, FS_CardinalityType DEF HeldForOrders

\* A commit moves an order's units from the shelf to the ledger, or, if a line
\* was short, takes them from the shelf alone.
LEMMA CommitBalance ==
  ASSUME InventoryInv, InventoryInv', NEW p \in Products,
         IsFiniteSet(UnitsOf(Holders(p), p)), NEW c \in Consumers, CommitOrder(c)
  PROVE  /\ IsFiniteSet(UnitsOf(Holders(p), p))'
         /\ Balance(p)' =
              IF tx[c].short /\ p \in Held(c) THEN Balance(p) - Quantity[msg[c].order][p]
                                              ELSE Balance(p)
<1> DEFINE o == msg[c].order
<1>0. /\ ledger \in [Orders -> [Products -> RowState]] /\ stock \in [Products -> Nat]
      /\ o \in Orders /\ o \notin inbox /\ pc[c] = "commit" /\ supply' = supply
  BY OrderOfMessage DEF InventoryInv, TypeOK, TableTypes, CommitOrder
<1>1. stock'[p] = IF p \in Held(c) THEN stock[p] - Quantity[o][p] ELSE stock[p]
  BY DEF CommitOrder, CommitDecision
<1>2. Quantity[o][p] \in Nat /\ stock[p] \in Nat
      /\ supply[p] \in Int /\ HeldForOrders(p) \in Nat
  BY <1>0, UnitsOfOrder, BalanceNumbers
<1>3. CASE tx[c].short
  <2>1. Holders(p)' = Holders(p)
    BY <1>3 DEF CommitOrder, CommitDecision, Holders
  <2>2. UnitsOf(Holders(p), p)' = UnitsOf(Holders(p), p)
    BY <2>1 DEF UnitsOf
  <2> HIDE DEF o
  <2> QED
    BY <1>0, <1>1, <1>2, <1>3, <2>2 DEF Balance, HeldForOrders, o
<1>4. CASE ~tx[c].short
  <2>1. ledger' = [ledger EXCEPT ![o] = [q \in Products |->
                     IF q \in Held(c) THEN "RESERVED" ELSE ledger[o][q]]]
    BY <1>0, <1>4, ConfirmedHolds DEF CommitOrder, CommitDecision
  <2>2. o \notin Holders(p)
    <3>1. {q \in Products : ledger[o][q] # "NONE"} = {}
      BY <1>0 DEF InventoryInv, DecisionConsistent
    <3> QED
      BY <3>1 DEF Holders
  <2>3. Holders(p)' = IF p \in Held(c) THEN Holders(p) \cup {o} ELSE Holders(p)
    BY <1>0, <2>1 DEF Holders
  <2>4. Holders(p) \in SUBSET Orders
    BY DEF Holders
  <2>5. UnitsOf(Holders(p), p)' = UnitsOf(Holders(p)', p)
    BY DEF UnitsOf
  <2>6. /\ IsFiniteSet(UnitsOf(Holders(p)', p))
        /\ Cardinality(UnitsOf(Holders(p)', p)) =
             IF p \in Held(c) THEN Cardinality(UnitsOf(Holders(p), p)) + Quantity[o][p]
                              ELSE Cardinality(UnitsOf(Holders(p), p))
    BY <1>0, <2>2, <2>3, <2>4, UnitsAdded
  <2> HIDE DEF o
  <2> QED
    BY <1>0, <1>1, <1>2, <1>4, <2>5, <2>6 DEF Balance, HeldForOrders
<1> QED
  BY <1>3, <1>4

\* A release moves the units of an order back from the ledger to the shelf.
LEMMA RestoreBalance ==
  ASSUME InventoryInv, InventoryInv', NEW p \in Products,
         IsFiniteSet(UnitsOf(Holders(p), p)), NEW c \in Consumers, RestoreStock(c)
  PROVE  IsFiniteSet(UnitsOf(Holders(p), p))' /\ Balance(p)' = Balance(p)
<1> DEFINE o == msg[c].order
<1>0. /\ ledger \in [Orders -> [Products -> RowState]] /\ stock \in [Products -> Nat]
      /\ o \in Orders /\ supply' = supply
  BY OrderOfMessage DEF InventoryInv, TypeOK, TableTypes, RestoreStock
<1>1. tx[c].rows = Reserved(o)
  BY DEF InventoryInv, ReleaseInv, RestoreStock
<1>2. p \in tx[c].rows <=> o \in Holders(p)
  BY <1>0, <1>1 DEF Reserved, Holders
<1>3. stock'[p] = IF o \in Holders(p) THEN stock[p] + Quantity[o][p] ELSE stock[p]
  BY <1>2 DEF RestoreStock
<1>4. Holders(p)' = Holders(p) \ {o}
  <2>1. ledger' = [ledger EXCEPT ![o] = [q \in Products |->
                     IF q \in tx[c].rows THEN "RELEASED" ELSE ledger[o][q]]]
    BY <1>0 DEF RestoreStock
  <2> QED
    BY <1>0, <1>2, <2>1 DEF Holders
<1>5. Holders(p) \in SUBSET Orders
  BY DEF Holders
<1>6. UnitsOf(Holders(p), p)' = UnitsOf(Holders(p) \ {o}, p)
  BY <1>4 DEF UnitsOf
<1>7. /\ IsFiniteSet(UnitsOf(Holders(p) \ {o}, p))
      /\ Cardinality(UnitsOf(Holders(p), p)) =
           IF o \in Holders(p) THEN Cardinality(UnitsOf(Holders(p) \ {o}, p)) + Quantity[o][p]
           ELSE Cardinality(UnitsOf(Holders(p) \ {o}, p))
  <2>1. CASE o \in Holders(p)
    BY <1>5, <2>1, UnitsRemoved
  <2>2. CASE o \notin Holders(p)
    <3>1. Holders(p) \ {o} = Holders(p)
      BY <2>2
    <3> QED
      BY <2>2, <3>1
  <2> QED
    BY <2>1, <2>2
<1>8. Quantity[o][p] \in Nat /\ stock[p] \in Nat /\ supply[p] \in Int
      /\ Cardinality(UnitsOf(Holders(p) \ {o}, p)) \in Nat
  BY <1>0, <1>7, UnitsOfOrder, BalanceNumbers, FS_CardinalityType
<1> HIDE DEF o
<1> QED
  BY <1>0, <1>3, <1>6, <1>7, <1>8 DEF Balance, HeldForOrders

\* No step changes the balance of a product but the commit of a rejected order
\* whose earlier lines had been decremented.
LEMMA BalanceStep ==
  ASSUME InventoryInv, InventoryInv', [Next]_vars, NEW p \in Products,
         IsFiniteSet(UnitsOf(Holders(p), p))
  PROVE  /\ IsFiniteSet(UnitsOf(Holders(p), p))'
         /\ \/ Balance(p)' = Balance(p)
            \/ \E c \in Consumers :
                 /\ CommitOrder(c) /\ tx[c].short /\ p \in Held(c)
                 /\ Balance(p)' = Balance(p) - Quantity[msg[c].order][p]
<1>1. ASSUME NEW c \in Consumers, CommitOrder(c)
      PROVE  /\ IsFiniteSet(UnitsOf(Holders(p), p))'
             /\ \/ Balance(p)' = Balance(p)
                \/ /\ tx[c].short /\ p \in Held(c)
                   /\ Balance(p)' = Balance(p) - Quantity[msg[c].order][p]
  BY <1>1, CommitBalance
<1>2. ASSUME NEW c \in Consumers, RestoreStock(c)
      PROVE  IsFiniteSet(UnitsOf(Holders(p), p))' /\ Balance(p)' = Balance(p)
  BY <1>2, RestoreBalance
<1>3. ASSUME UNCHANGED ledger
      PROVE  UnitsOf(Holders(p), p)' = UnitsOf(Holders(p), p)
  BY <1>3 DEF UnitsOf, Holders
<1>4. ASSUME NEW a \in Admins, AdjustWrite(a)
      PROVE  IsFiniteSet(UnitsOf(Holders(p), p))' /\ Balance(p)' = Balance(p)
  <2>1. /\ stock \in [Products -> Nat] /\ supply \in [Products -> Int]
        /\ stock' \in [Products -> Nat] /\ HeldForOrders(p) \in Nat
    BY BalanceNumbers DEF InventoryInv, TypeOK, TableTypes
  <2>2. UnitsOf(Holders(p), p)' = UnitsOf(Holders(p), p)
    BY <1>3, <1>4 DEF AdjustWrite
  <2>3. PICK r, q : /\ stock' = [stock EXCEPT ![r] = q]
                    /\ supply' = [supply EXCEPT ![r] = supply[r] + q - stock[r]]
    BY <1>4 DEF AdjustWrite
  <2>4. stock'[p] \in Int /\ stock[p] \in Int /\ supply[p] \in Int
    BY <2>1
  <2>5. stock'[p] - supply'[p] = stock[p] - supply[p]
    BY <2>1, <2>3, <2>4
  <2>6. supply'[p] \in Int
    BY <2>1, <2>3, <2>4
  <2> QED
    BY <2>1, <2>2, <2>4, <2>5, <2>6 DEF Balance, HeldForOrders
<1>5. CASE UNCHANGED <<ledger, stock, supply>>
  BY <1>3, <1>5 DEF Balance, HeldForOrders
<1>6. \/ \E a \in Admins : AdjustWrite(a)
      \/ UNCHANGED supply
  <2>1. ASSUME NEW c \in Consumers, ConsumerStep(c)
        PROVE  UNCHANGED supply
    BY <2>1
    DEF ConsumerStep, Receive, CheckInbox, ReserveLine, LineShort, CommitOrder,
        CommitConflict, DeadlockVictim, ReleaseUnavailable, LockLedger,
        RestoreStock, PublishStep, ReadPending, PublishRecord, MarkPublished,
        Acknowledge
  <2>2. ASSUME NEW r \in Relays, RelayStep(r)
        PROVE  UNCHANGED supply
    BY <2>2 DEF RelayStep, RelayAgain, PublishStep, ReadPending, PublishRecord,
                MarkPublished
  <2>3. ASSUME NEW x \in Threads, FaultStep(x)
        PROVE  UNCHANGED supply
    BY <2>3 DEF FaultStep, DatabaseFault, ReadPendingFails, RecordFails
  <2> QED
    BY <2>1, <2>2, <2>3
    DEF Next, SendCommand, Redrive, AdminStep, AdjustRead, Crash, vars
<1> QED
  BY <1>1, <1>2, <1>4, <1>5, <1>6, TableChange DEF MarkPublished, dbVars

\* At the start everything is on the shelf.
LEMMA BalanceInit ==
  ASSUME Init, NEW p \in Products
  PROVE  IsFiniteSet(UnitsOf(Holders(p), p)) /\ Balance(p) = 0
<1>1. Holders(p) = {}
  BY DEF Init, Holders
<1>2. UnitsOf(Holders(p), p) = {}
  BY <1>1 DEF UnitsOf
<1>3. InitStock[p] \in Nat /\ stock[p] = InitStock[p] /\ supply[p] = InitStock[p]
  BY InventoryAssumption DEF Init
<1> QED
  BY <1>2, <1>3, FS_EmptySet DEF Balance, HeldForOrders

\* The units that orders hold can be counted: only finitely many orders can have
\* been confirmed, however many there are.
CountedInv == \A p \in Products : IsFiniteSet(UnitsOf(Holders(p), p))

-----------------------------------------------------------------------------
(* The theorems.                                                            *)

\* Whatever the numbers of orders, lines, consumer threads, relay threads,
\* operators, faults and crashes: the inductive invariant holds in every state.
THEOREM InventoryInvariant == Spec => []InventoryInv
<1>1. Init => InventoryInv
  BY InitInv
<1>2. InventoryInv /\ [Next]_vars => InventoryInv'
  <2> SUFFICES ASSUME InventoryInv, [Next]_vars PROVE InventoryInv'
    OBVIOUS
  <2> QED
    BY TypeStep, ConsumerInvStep, LockInvStep, ReleaseInvStep, RelayInvStep,
       HandledInvStep, DecisionConsistentStep, AnnouncedIsDurableStep,
       DeletedIsDoneStep DEF InventoryInv
<1> QED
  BY <1>1, <1>2, PTL DEF Spec

\* Every variable keeps its type; in particular no stock row goes below zero,
\* because a transaction subtracts only units of rows it holds locked.
THEOREM TypeCorrect == Spec => []TypeOK
<1>1. InventoryInv => TypeOK
  BY DEF InventoryInv
<1> QED
  BY <1>1, InventoryInvariant, PTL

\* Receipt, verdict, ledger rows and outbox rows of an order agree in every
\* committed state (process_order and release_reservation).
THEOREM DecisionIsConsistent == Spec => []DecisionConsistent
<1>1. InventoryInv => DecisionConsistent
  BY DEF InventoryInv
<1> QED
  BY <1>1, InventoryInvariant, PTL

\* The relay announces durable rows only and marks announced rows only
\* (publish_once and mark_outbox_published), with any number of relaying threads.
THEOREM AnnouncedRowsDurable == Spec => []AnnouncedIsDurable
<1>1. InventoryInv => AnnouncedIsDurable
  BY DEF InventoryInv
<1> QED
  BY <1>1, InventoryInvariant, PTL

\* poll_once deletes a command only when its effect is durable, so a crash
\* never loses an order command.
THEOREM DeletedCommandsDone == Spec => []DeletedIsDone
<1>1. InventoryInv => DeletedIsDone
  BY DEF InventoryInv
<1> QED
  BY <1>1, InventoryInvariant, PTL

\* No redelivery, duplicate or concurrent handler changes a decision, and a
\* reservation is released at most once (the inbox and the ledger).
THEOREM DecisionsAreFinal == Spec => DecidedOnce
<1>1. InventoryInv /\ [Next]_vars =>
        [\A o \in Orders : o \in inbox =>
           /\ decision'[o] = decision[o]
           /\ \A p \in Products : ledger[o][p] # ledger'[o][p] =>
                ledger[o][p] = "RESERVED" /\ ledger'[o][p] = "RELEASED"]_vars
  BY DecidedOnceStep
<1> QED
  BY <1>1, InventoryInvariant, PTL DEF Spec, DecidedOnce

\* The last unit is never sold twice and no reservation is given back twice: with
\* any orders, quantities, levels, threads, duplicates, faults and crashes, the
\* units on the shelf and the units held stay within those that operators stated.
THEOREM NothingOversold == Spec => []NoOversell
<1> DEFINE Inv == InventoryInv /\ CountedInv /\ NoOversell
<1>0. ASSUME InventoryInv, CountedInv
      PROVE  NoOversell <=> \A p \in Products : Balance(p) <= 0
  BY <1>0, BalanceNumbers DEF CountedInv, NoOversell, Balance
<1>1. Init => Inv
  BY <1>0, InitInv, BalanceInit DEF CountedInv
<1>2. Inv /\ InventoryInv' /\ [Next]_vars => Inv'
  <2> SUFFICES ASSUME Inv, InventoryInv', [Next]_vars, NEW p \in Products
               PROVE  /\ IsFiniteSet(UnitsOf(Holders(p), p))'
                      /\ (stock[p] + HeldForOrders(p) <= supply[p])'
    BY DEF CountedInv, NoOversell
  <2>1. IsFiniteSet(UnitsOf(Holders(p), p))
    BY DEF CountedInv
  <2>2. IsFiniteSet(UnitsOf(Holders(p), p))'
    BY <2>1, BalanceStep
  <2>3. stock[p] \in Nat /\ supply[p] \in Int /\ HeldForOrders(p) \in Nat
    BY <2>1, BalanceNumbers
  <2>4. stock'[p] \in Nat /\ supply'[p] \in Int /\ HeldForOrders(p)' \in Nat
    <3>1. stock'[p] \in Nat /\ supply'[p] \in Int
      BY DEF InventoryInv, TypeOK, TableTypes
    <3> QED
      BY <2>2, <3>1, FS_CardinalityType DEF HeldForOrders
  <2>5. Balance(p) <= 0 /\ Balance(p) \in Int
    BY <2>3 DEF Balance, NoOversell
  <2>6. Balance(p)' <= 0
    <3>1. CASE Balance(p)' = Balance(p)
      BY <2>5, <3>1
    <3>2. ASSUME NEW c \in Consumers, CommitOrder(c),
                 Balance(p)' = Balance(p) - Quantity[msg[c].order][p]
          PROVE  Balance(p)' <= 0
      <4>1. Quantity[msg[c].order][p] \in Nat
        BY <3>2, OrderOfMessage, UnitsOfOrder DEF CommitOrder
      <4> QED
        BY <2>5, <3>2, <4>1
    <3> QED
      BY <2>1, <3>1, <3>2, BalanceStep
  <2> QED
    BY <2>2, <2>4, <2>6 DEF Balance
<1>3. Inv => NoOversell
  OBVIOUS
<1> QED
  BY <1>1, <1>2, <1>3, InventoryInvariant, PTL DEF Spec

\* Where every order has one line at most, a rejected order has decremented
\* nothing: then no unit is lost either.
THEOREM AllStockAccounted ==
  (\A o \in Orders : Len(Lines[o]) <= 1) => (Spec => []StockAccounted)
<1> SUFFICES ASSUME \A o \in Orders : Len(Lines[o]) <= 1
             PROVE  Spec => []StockAccounted
  OBVIOUS
<1> DEFINE Inv == InventoryInv /\ CountedInv /\ StockAccounted
<1>0. ASSUME InventoryInv, CountedInv
      PROVE  StockAccounted <=> \A p \in Products : Balance(p) = 0
  BY <1>0, BalanceNumbers DEF CountedInv, StockAccounted, Balance
<1>1. Init => Inv
  BY <1>0, InitInv, BalanceInit DEF CountedInv
<1>2. Inv /\ InventoryInv' /\ [Next]_vars => Inv'
  <2> SUFFICES ASSUME Inv, InventoryInv', [Next]_vars, NEW p \in Products
               PROVE  /\ IsFiniteSet(UnitsOf(Holders(p), p))'
                      /\ (stock[p] + HeldForOrders(p) = supply[p])'
    BY DEF CountedInv, StockAccounted
  <2>1. IsFiniteSet(UnitsOf(Holders(p), p))
    BY DEF CountedInv
  <2>2. IsFiniteSet(UnitsOf(Holders(p), p))'
    BY <2>1, BalanceStep
  <2>3. stock[p] \in Nat /\ supply[p] \in Int /\ HeldForOrders(p) \in Nat
    BY <2>1, BalanceNumbers
  <2>4. stock'[p] \in Nat /\ supply'[p] \in Int /\ HeldForOrders(p)' \in Nat
    <3>1. stock'[p] \in Nat /\ supply'[p] \in Int
      BY DEF InventoryInv, TypeOK, TableTypes
    <3> QED
      BY <2>2, <3>1, FS_CardinalityType DEF HeldForOrders
  <2>5. ASSUME NEW c \in Consumers, CommitOrder(c), tx[c].short, p \in Held(c)
        PROVE  FALSE
    <3>1. pc[c] = "commit" /\ msg[c].order \in Orders
      BY <2>5, OrderOfMessage DEF CommitOrder
    <3>2. Lines[msg[c].order] \in Seq(Products)
      BY <3>1, InventoryAssumption
    <3>3. tx[c].line = 1
      BY <2>5, <3>1, <3>2 DEF InventoryInv, ConsumerInv
    <3> QED
      BY <2>5, <3>3 DEF Held
  <2>6. Balance(p) = 0
    BY <2>3 DEF Balance, StockAccounted
  <2>7. Balance(p)' = 0
    BY <2>1, <2>5, <2>6, BalanceStep
  <2> QED
    BY <2>2, <2>4, <2>7 DEF Balance
<1>3. Inv => StockAccounted
  OBVIOUS
<1> QED
  BY <1>1, <1>2, <1>3, InventoryInvariant, PTL DEF Spec

\* Units get lost in one way only: the commit that rejects an order of two lines or
\* more keeps the units of a line before the short one (_reserve_in_session).
THEOREM OnlyRejectionLosesUnits ==
  Spec => [][\A p \in Products : Balance(p)' # Balance(p) =>
               \E o \in Orders :
                 /\ Len(Lines[o]) > 1 /\ p \in OrderProducts(o)
                 /\ o \notin inbox /\ decision'[o] = "order-rejected"
                 /\ Balance(p)' = Balance(p) - Quantity[o][p]]_vars
<1> DEFINE Lost(p) == Balance(p)' # Balance(p) =>
                        \E o \in Orders :
                          /\ Len(Lines[o]) > 1 /\ p \in OrderProducts(o)
                          /\ o \notin inbox /\ decision'[o] = "order-rejected"
                          /\ Balance(p)' = Balance(p) - Quantity[o][p]
           Inv == InventoryInv /\ CountedInv
<1>1. Init => Inv
  BY InitInv, BalanceInit DEF CountedInv
<1>2. Inv /\ InventoryInv' /\ [Next]_vars => Inv'
  BY BalanceStep DEF CountedInv
<1>3. Inv /\ InventoryInv' /\ [Next]_vars => [\A p \in Products : Lost(p)]_vars
  <2> SUFFICES ASSUME Inv, InventoryInv', [Next]_vars, NEW p \in Products PROVE Lost(p)
    OBVIOUS
  <2>1. IsFiniteSet(UnitsOf(Holders(p), p))
    BY DEF CountedInv
  <2>2. ASSUME NEW c \in Consumers, CommitOrder(c), tx[c].short, p \in Held(c),
               Balance(p)' = Balance(p) - Quantity[msg[c].order][p]
        PROVE  Lost(p)
    <3>1. PICK o \in Orders : o = msg[c].order
      BY <2>2, OrderOfMessage DEF CommitOrder
    <3>2. pc[c] = "commit" /\ o \notin inbox
      BY <2>2, <3>1 DEF CommitOrder
    <3>3. decision'[o] = "order-rejected"
      BY <2>2, <3>1 DEF CommitOrder, CommitDecision, InventoryInv, TypeOK, TableTypes
    <3>4. Lines[o] \in Seq(Products) /\ Len(Lines[o]) \in Nat
      BY InventoryAssumption
    <3>5. PICK i \in 1..(tx[c].line - 1) : p = Lines[o][i]
      BY <2>2, <3>1, <3>2 DEF Held
    <3>6. tx[c].line \in 2..Len(Lines[o])
      BY <2>2, <3>1, <3>2, <3>4, <3>5
      DEF InventoryInv, ConsumerInv, TypeOK, ThreadTypes, TxRecord
    <3>7. i \in 1..Len(Lines[o]) /\ Len(Lines[o]) > 1
      BY <3>4, <3>5, <3>6
    <3>8. p \in OrderProducts(o)
      BY <3>5, <3>7 DEF OrderProducts
    <3> QED
      BY <2>2, <3>1, <3>2, <3>3, <3>7, <3>8
  <2> QED
    BY <2>1, <2>2, BalanceStep
<1> QED
  BY <1>1, <1>2, <1>3, InventoryInvariant, PTL DEF Spec

\* On orders of one line the reservation is all-or-nothing, as services.py says.
THEOREM SingleLinesAllOrNothing ==
  (\A o \in Orders : Len(Lines[o]) <= 1) => (Spec => RejectionTakesNothing)
<1> SUFFICES ASSUME \A o \in Orders : Len(Lines[o]) <= 1
             PROVE  Spec => RejectionTakesNothing
  OBVIOUS
<1> DEFINE Whole == \A o \in Orders :
      decision[o] = "NONE" /\ decision'[o] = "order-rejected" => stock' = stock
<1>1. InventoryInv /\ [Next]_vars => [Whole]_vars
  <2> SUFFICES ASSUME InventoryInv, [Next]_vars, NEW o \in Orders,
                      decision[o] = "NONE", decision'[o] = "order-rejected"
               PROVE  stock' = stock
    OBVIOUS
  <2>0. /\ decision \in [Orders -> {"NONE", "order-confirmed", "order-rejected"}]
        /\ stock \in [Products -> Nat]
    BY DEF InventoryInv, TypeOK, TableTypes
  <2>1. ASSUME NEW c \in Consumers, CommitOrder(c)
        PROVE  stock' = stock
    <3>1. pc[c] = "commit" /\ msg[c].order \in Orders
      BY <2>1, OrderOfMessage DEF CommitOrder
    <3>2. msg[c].order = o /\ tx[c].short
      BY <2>0, <2>1, <3>1 DEF CommitOrder, CommitDecision
    <3>3. Lines[o] \in Seq(Products)
      BY InventoryAssumption
    <3>4. tx[c].line = 1
      BY <3>1, <3>2, <3>3 DEF InventoryInv, ConsumerInv
    <3>5. Held(c) = {}
      BY <3>4 DEF Held
    <3> QED
      BY <2>0, <2>1, <3>5 DEF CommitOrder, CommitDecision
  <2>2. CASE UNCHANGED decision
    BY <2>2
  <2> QED
    BY <2>1, <2>2, TableChange DEF RestoreStock, MarkPublished, AdjustWrite, dbVars
<1> QED
  BY <1>1, InventoryInvariant, PTL DEF Spec, RejectionTakesNothing

-----------------------------------------------------------------------------
(* Refinement.                                                              *)

\* The empty tables map to the initial state of the promise.
LEMMA PromiseInit == Init => Promise!Init
<1> SUFFICES ASSUME Init PROVE Promise!Init
  OBVIOUS
<1>1. Asked = {}
  BY DEF Init, Asked
<1>2. HeldState = [o \in Orders |-> "none"]
  BY DEF Init, HeldState, Events
<1> QED
  BY <1>1, <1>2 DEF Init, Promise!Init

\* The commands asked for change only when one is sent for the first time.
LEMMA AskedChange ==
  ASSUME InventoryInv, [Next]_vars
  PROVE  Asked' = Asked \/ \E m \in Commands : SendCommand(m)
<1>1. mail \in [Commands -> {"unsent", "queued", "deleted", "dlq"}]
  BY DEF InventoryInv, TypeOK, QueueTypes
<1>2. CASE UNCHANGED mail
  BY <1>2 DEF Asked
<1>3. ASSUME NEW m \in Commands, Redrive(m)
      PROVE  Asked' = Asked
  <2>1. \A n \in Commands : mail'[n] # "unsent" <=> mail[n] # "unsent"
    BY <1>1, <1>3 DEF Redrive
  <2> QED
    BY <2>1 DEF Asked
<1>4. ASSUME NEW c \in Consumers, Acknowledge(c)
      PROVE  Asked' = Asked
  <2>1. \A n \in Commands : mail'[n] # "unsent" <=> mail[n] # "unsent"
    BY <1>1, <1>4 DEF Acknowledge
  <2> QED
    BY <2>1 DEF Asked
<1> QED
  BY <1>2, <1>3, <1>4, MailChange

\* A step that sends, decides, releases or announces is that step of the
\* promise; every other step leaves the promise where it is.
LEMMA PromiseStep ==
  ASSUME InventoryInv, [Next]_vars
  PROVE  [Promise!Next]_(Promise!vars)
<1>0. /\ mail \in [Commands -> {"unsent", "queued", "deleted", "dlq"}]
      /\ decision \in [Orders -> {"NONE", "order-confirmed", "order-rejected"}]
      /\ outbox \in [Events -> {"NONE", "PENDING", "PUBLISHED"}]
      /\ announced \subseteq Events
  BY DEF InventoryInv, TypeOK, TableTypes, QueueTypes
<1>1. \A o \in Orders : <<"outcome", o>> \in Events /\ <<"cancelled", o>> \in Events
  BY DEF Events
<1>2. ASSUME NEW m \in Commands, SendCommand(m)
      PROVE  [Promise!Next]_(Promise!vars)
  <2>1. Asked' = Asked \cup {<<m.type, m.order>>}
    <3>1. \A n \in Commands : mail'[n] # "unsent" <=> mail[n] # "unsent" \/ n = m
      BY <1>0, <1>2 DEF SendCommand
    <3> QED
      BY <3>1 DEF Asked
  <2>2. UNCHANGED <<decision, HeldState, announced>>
    BY <1>2 DEF SendCommand, HeldState, dbVars
  <2>3. CASE <<m.type, m.order>> \in Asked
    BY <2>1, <2>2, <2>3 DEF Promise!vars
  <2>4. CASE <<m.type, m.order>> \notin Asked
    <3>1. <<m.type, m.order>> \in Promise!Requests
      BY DEF Promise!Requests, Commands
    <3>2. Promise!Ask(<<m.type, m.order>>)
      BY <1>2, <2>1, <2>2, <2>4 DEF SendCommand, Promise!Ask
    <3> QED
      BY <3>1, <3>2 DEF Promise!Next
  <2> QED
    BY <2>3, <2>4
<1>3. ASSUME NEW c \in Consumers, CommitOrder(c)
      PROVE  [Promise!Next]_(Promise!vars)
  <2>1. PICK o \in Orders : o = msg[c].order
    BY <1>3, OrderOfMessage DEF CommitOrder
  <2>2. PICK v \in {"order-confirmed", "order-rejected"} :
           v = IF tx[c].short THEN "order-rejected" ELSE "order-confirmed"
    OBVIOUS
  <2>3. /\ o \notin inbox /\ decision' = [decision EXCEPT ![o] = v]
        /\ outbox' = [outbox EXCEPT ![<<"outcome", o>>] = "PENDING"]
        /\ UNCHANGED announced
    BY <1>3, <2>1, <2>2 DEF CommitOrder, CommitDecision
  <2>4. decision[o] = "NONE" /\ outbox[<<"cancelled", o>>] = "NONE"
    BY <2>3 DEF InventoryInv, DecisionConsistent, OrderProducts
  <2>5. Asked' = Asked
    BY <1>3, AskedChange DEF CommitOrder, SendCommand, Asked, queueVars
  <2>6. <<"order-created", o>> \in Asked
    BY <1>3, <2>1 DEF CommitOrder, InventoryInv, ConsumerInv, Asked
  <2>7. HeldState' = IF v = "order-confirmed"
                     THEN [HeldState EXCEPT ![o] = "reserved"] ELSE HeldState
    <3>1. \A x \in Orders : outbox'[<<"cancelled", x>>] = outbox[<<"cancelled", x>>]
      BY <1>0, <1>1, <2>3
    <3>2. \A x \in Orders : decision'[x] = IF x = o THEN v ELSE decision[x]
      BY <1>0, <2>3
    <3> QED
      BY <2>4, <3>1, <3>2 DEF HeldState
  <2>8. Promise!Decide(o, v)
    BY <2>3, <2>4, <2>5, <2>6, <2>7 DEF Promise!Decide
  <2> QED
    BY <2>8 DEF Promise!Next, Promise!Decision
<1>4. ASSUME NEW c \in Consumers, RestoreStock(c)
      PROVE  [Promise!Next]_(Promise!vars)
  <2>1. PICK o \in Orders : o = msg[c].order
    BY <1>4, OrderOfMessage DEF RestoreStock
  <2>2. Reserved(o) # {}
    BY <1>4, <2>1 DEF RestoreStock, InventoryInv, ReleaseInv
  <2>3. /\ outbox' = [outbox EXCEPT ![<<"cancelled", o>>] = "PENDING"]
        /\ UNCHANGED <<decision, announced>>
    BY <1>4, <2>1 DEF RestoreStock
  <2>4. outbox[<<"cancelled", o>>] = "NONE" /\ decision[o] = "order-confirmed"
    BY <2>2 DEF InventoryInv, DecisionConsistent, Reserved
  <2>5. Asked' = Asked
    BY <1>4, AskedChange DEF RestoreStock, Asked, queueVars
  <2>6. <<"order-cancel-requested", o>> \in Asked
    BY <1>4, <2>1 DEF RestoreStock, InventoryInv, ConsumerInv, Asked
  <2>7. HeldState' = [HeldState EXCEPT ![o] = "released"]
    <3>1. \A x \in Orders : outbox'[<<"cancelled", x>>] =
            IF x = o THEN "PENDING" ELSE outbox[<<"cancelled", x>>]
      BY <1>0, <1>1, <2>3
    <3>2. HeldState' = [x \in Orders |-> IF x = o THEN "released" ELSE HeldState[x]]
      BY <2>3, <3>1 DEF HeldState
    <3>3. [HeldState EXCEPT ![o] = "released"]
            = [x \in Orders |-> IF x = o THEN "released" ELSE HeldState[x]]
      BY DEF HeldState
    <3> QED
      BY <3>2, <3>3
  <2>8. HeldState[o] = "reserved"
    BY <2>4 DEF HeldState
  <2>9. Promise!Release(o)
    BY <2>3, <2>5, <2>6, <2>7, <2>8 DEF Promise!Release
  <2> QED
    BY <2>9 DEF Promise!Next
<1>5. ASSUME NEW x \in Threads, NEW e \in Events, PublishRecord(x, e)
      PROVE  [Promise!Next]_(Promise!vars)
  <2>1. UNCHANGED <<Asked, decision, HeldState>> /\ announced' = announced \cup {e}
    BY <1>5 DEF PublishRecord, Asked, HeldState, dbVars, queueVars
  <2>2. CASE e \in announced
    BY <2>1, <2>2 DEF Promise!vars
  <2>3. CASE e \notin announced
    <3>1. outbox[e] # "NONE"
      BY <1>5 DEF PublishRecord, InventoryInv, RelayInv
    <3>2. PICK o \in Orders : e = <<"outcome", o>> \/ e = <<"cancelled", o>>
      BY DEF Events
    <3>3. IF e[1] = "outcome" THEN decision[e[2]] # "NONE"
          ELSE HeldState[e[2]] = "released"
      BY <3>1, <3>2 DEF InventoryInv, DecisionConsistent, HeldState
    <3>4. Promise!Announce(e)
      BY <2>1, <2>3, <3>3 DEF Promise!Announce
    <3> QED
      BY <3>4 DEF Promise!Next, Promise!Announcements, Events
  <2> QED
    BY <2>2, <2>3
<1>6. ASSUME NEW x \in Threads, MarkPublished(x)
      PROVE  UNCHANGED <<decision, HeldState, announced>>
  <2>1. \A e \in Events : outbox'[e] # "NONE" <=> outbox[e] # "NONE"
    BY <1>0, <1>6 DEF MarkPublished
  <2> QED
    BY <1>1, <1>6, <2>1 DEF MarkPublished, HeldState
<1>7. ASSUME ~ \E m \in Commands : SendCommand(m),
             ~ \E c \in Consumers : CommitOrder(c) \/ RestoreStock(c),
             ~ \E x \in Threads, e \in Events : PublishRecord(x, e)
      PROVE  UNCHANGED Promise!vars
  <2>1. Asked' = Asked
    BY <1>7, AskedChange
  <2>2. UNCHANGED announced
    BY <1>7, RelayChange
    DEF PublishStep, ReadPending, MarkPublished, RecordFails, Crash
  <2>3. UNCHANGED <<decision, HeldState>>
    BY <1>6, <1>7, TableChange DEF AdjustWrite, HeldState, dbVars
  <2> QED
    BY <2>1, <2>2, <2>3 DEF Promise!vars
<1> QED
  BY <1>2, <1>3, <1>4, <1>5, <1>7

\* The Inventory Service implements the promise: initial states map to initial
\* states and every step to a step of Reservation or to a stutter.
THEOREM ImplementsPromise == Spec => PromiseKept
<1>1. Init => Promise!Init
  BY PromiseInit
<1>2. InventoryInv /\ [Next]_vars => [Promise!Next]_(Promise!vars)
  BY PromiseStep
<1> QED
  BY <1>1, <1>2, InventoryInvariant, PTL DEF Spec, PromiseKept, Promise!Spec
=============================================================================
