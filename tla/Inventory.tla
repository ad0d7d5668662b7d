----------------------------- MODULE Inventory -----------------------------
(***************************************************************************)
(* The Inventory Service of SmartRetailX: the half of the order saga that  *)
(* decides.  Consumer threads receive order commands from SQS, reserve     *)
(* stock in an Aurora transaction together with an inbox receipt and an    *)
(* outbox row, and relay outbox rows to SNS; a second thread per task      *)
(* relays the rows that were left behind; operators set stock levels.      *)
(*                                                                         *)
(* Transactions run at READ COMMITTED: an UPDATE of a stock row holds its  *)
(* row lock until commit, and nothing of a transaction is visible before.  *)
(* The event id of a command is a function of its order, so the inbox is   *)
(* keyed by order here.  A product without a stock row is one with         *)
(* quantity 0 (every reader treats the two alike).                         *)
(***************************************************************************)
EXTENDS Integers, Sequences, FiniteSets

CONSTANTS
  Orders, Products,
  Lines,        \* Lines[o]: the products of order o in the order of its items
  Quantity,     \* Quantity[o][p]: units of p that order o asks for
  InitStock,    \* the stock rows at start
  Consumers,    \* "inventory-consumer" threads of all tasks
  Relays,       \* "inventory-outbox" threads of all tasks
  Hosts, Host,  \* Host[x]: the task that runs thread x
  Admins,       \* PATCH /v1/inventory requests, one each
  Levels,       \* the quantities operators set
  Wiring,       \* the stock object handed to the threads, see Wrapped
  Copies,       \* how often the sender may enqueue one command
  MaxReceive,   \* maxReceiveCount of the orders queue
  RetryAttempts, \* attempts of the wrapper at one repository call
  MaxFaults,    \* bound: infrastructure faults in a behaviour
  MaxCrashes,   \* bound: task crashes in a behaviour
  None

Threads == Consumers \cup Relays

ASSUME InventoryAssumption ==
  /\ Lines \in [Orders -> Seq(Products)]
  /\ \A o \in Orders : \A i, j \in 1..Len(Lines[o]) :
        Lines[o][i] = Lines[o][j] => i = j
  /\ Quantity \in [Orders -> [Products -> Nat \ {0}]]
  /\ InitStock \in [Products -> Nat]
  /\ Levels \subseteq Nat
  /\ Consumers \cap Relays = {}
  /\ Host \in [Threads -> Hosts]
  /\ Wiring \in {"ResilientStock", "StockRepository"}
  /\ Copies \in Nat
  /\ MaxReceive \in Nat \ {0} /\ RetryAttempts \in Nat \ {0}
  /\ MaxFaults \in Nat /\ MaxCrashes \in Nat

\* The application wires ResilientStock around the repository: it retries
\* database errors, and it has no release_reservation method.  The tests of
\* the consumer hand it the repository itself.
Wrapped == Wiring = "ResilientStock"

Commands == [type : {"order-created", "order-cancel-requested"},
             order : Orders, copy : 1..Copies]

\* Outbox rows: inventory-outcome#<event> and inventory-cancelled#<order>.
Events == {"outcome", "cancelled"} \X Orders

ASSUME NoneAssumption == None \notin Commands /\ None \notin Events

VARIABLES
  stock, ledger, inbox, decision, outbox,     \* the Aurora tables
  mail, receives,                             \* the orders queue and its DLQ
  announced,                                  \* rows SNS accepted a message for
  pc, msg, tx, batch, current,                \* the threads
  adjust,                                     \* the operators' requests
  faults, crashes,                            \* bounds
  supply                                      \* ghost: units operators stated

dbVars == <<stock, ledger, inbox, decision, outbox>>
queueVars == <<mail, receives>>
relayVars == <<batch, current>>
txVars == <<msg, tx>>
budgetVars == <<faults, crashes>>
vars == <<dbVars, queueVars, announced, pc, txVars, relayVars, adjust,
          budgetVars, supply>>

----------------------------------------------------------------------------
ConsumerPC == {"idle", "inbox", "lines", "commit", "release", "restore",
               "publish", "relay"}
RelayPC == {"publish", "relay", "dead"}
RowState == {"NONE", "RESERVED", "RELEASED"}

OrderProducts(o) == {Lines[o][i] : i \in 1..Len(Lines[o])}

\* A consumer's open transaction: the next line to reserve, whether a line was
\* short, the ledger rows locked for release; and which attempt at it this is.
NoTx == [line |-> 1, short |-> FALSE, rows |-> {}, attempt |-> 1]

\* The rows locked by the process_order transaction of consumer c: its lines
\* before the next one have been decremented and not committed.
Held(c) == IF pc[c] \in {"lines", "commit"}
           THEN {Lines[msg[c].order][i] : i \in 1..(tx[c].line - 1)}
           ELSE {}

LockedByOther(c, p) == \E d \in Consumers \ {c} : p \in Held(d)

\* The transaction waits for a row lock (the row matches its WHERE clause).
Blocked(c) ==
  /\ pc[c] = "lines"
  /\ LET o == msg[c].order
         p == Lines[o][tx[c].line]
     IN stock[p] >= Quantity[o][p] /\ LockedByOther(c, p)

Reserved(o) == {p \in Products : ledger[o][p] = "RESERVED"}

TxRecord == [line : Nat, short : BOOLEAN, rows : SUBSET Products,
             attempt : 1..RetryAttempts]

AdjustRecord == [pc : {"new", "read", "done"}, product : Products \cup {None},
                 target : Levels \cup {None}, old : Nat \cup {None}]

TableTypes ==
  /\ stock \in [Products -> Nat]
  /\ ledger \in [Orders -> [Products -> RowState]]
  /\ inbox \subseteq Orders
  /\ decision \in [Orders -> {"NONE", "order-confirmed", "order-rejected"}]
  /\ outbox \in [Events -> {"NONE", "PENDING", "PUBLISHED"}]
  /\ supply \in [Products -> Int]

QueueTypes ==
  /\ mail \in [Commands -> {"unsent", "queued", "deleted", "dlq"}]
  /\ receives \in [Commands -> 0..MaxReceive]
  /\ announced \subseteq Events

ThreadTypes ==
  /\ pc \in [Threads -> ConsumerPC \cup RelayPC]
  /\ \A c \in Consumers : pc[c] \in ConsumerPC
  /\ \A r \in Relays : pc[r] \in RelayPC
  /\ msg \in [Consumers -> Commands \cup {None}]
  /\ tx \in [Consumers -> TxRecord]

RelayTypes ==
  /\ batch \in [Threads -> SUBSET Events]
  /\ current \in [Threads -> Events \cup {None}]

TypeOK ==
  /\ TableTypes /\ QueueTypes /\ ThreadTypes /\ RelayTypes
  /\ adjust \in [Admins -> AdjustRecord]
  /\ \A a \in Admins : adjust[a].pc = "read" =>
       adjust[a].product \in Products /\ adjust[a].target \in Levels
  /\ faults \in 0..MaxFaults /\ crashes \in 0..MaxCrashes

Init ==
  /\ stock = InitStock
  /\ ledger = [o \in Orders |-> [p \in Products |-> "NONE"]]
  /\ inbox = {}
  /\ decision = [o \in Orders |-> "NONE"]
  /\ outbox = [e \in Events |-> "NONE"]
  /\ mail = [m \in Commands |-> "unsent"]
  /\ receives = [m \in Commands |-> 0]
  /\ announced = {}
  /\ pc = [x \in Threads |-> IF x \in Consumers THEN "idle" ELSE "publish"]
  /\ msg = [c \in Consumers |-> None]
  /\ tx = [c \in Consumers |-> NoTx]
  /\ batch = [x \in Threads |-> {}]
  /\ current = [x \in Threads |-> None]
  /\ adjust = [a \in Admins |-> [pc |-> "new", product |-> None,
                                 target |-> None, old |-> None]]
  /\ faults = 0
  /\ crashes = 0
  /\ supply = InitStock

Goto(x, label) == pc' = [pc EXCEPT ![x] = label]

\* The consumer's handler returns (or raises) and its transaction is over.
Return(c) ==
  /\ Goto(c, "idle")
  /\ msg' = [msg EXCEPT ![c] = None]
  /\ tx' = [tx EXCEPT ![c] = NoTx]

\* The transaction is over and the handler goes on.
EndTx(c, label) ==
  /\ Goto(c, label)
  /\ tx' = [tx EXCEPT ![c] = NoTx]
  /\ UNCHANGED msg

\* Every infrastructure fault draws on the bound.
Fault == faults < MaxFaults /\ faults' = faults + 1

----------------------------------------------------------------------------
(* The orders queue: a standard SQS queue, at-least-once, unordered.       *)

\* The Order Service's outbox publisher enqueues a command (external to this
\* module).  A cancellation is only requested for an order whose confirmation
\* has been announced.
SendCommand(m) ==
  /\ mail[m] = "unsent"
  /\ m.type = "order-cancel-requested" =>
       decision[m.order] = "order-confirmed" /\ <<"outcome", m.order>> \in announced
  /\ mail' = [mail EXCEPT ![m] = "queued"]
  /\ UNCHANGED <<dbVars, receives, announced, pc, txVars, relayVars, adjust,
                 budgetVars, supply>>

\* poll_once hands the consumer a message and handle dispatches on its type.
\* A message that another thread is handling may be delivered again: its
\* visibility timeout can expire, and SQS may duplicate.
Receive(c, m) ==
  /\ pc[c] = "idle"
  /\ mail[m] = "queued" /\ receives[m] < MaxReceive
  /\ receives' = [receives EXCEPT ![m] = @ + 1]
  /\ msg' = [msg EXCEPT ![c] = m]
  /\ Goto(c, IF m.type = "order-created" THEN "inbox" ELSE "release")
  /\ UNCHANGED <<dbVars, mail, announced, tx, relayVars, adjust,
                 budgetVars, supply>>

\* After maxReceiveCount receives SQS moves the message to the DLQ.
Redrive(m) ==
  /\ mail[m] = "queued" /\ receives[m] = MaxReceive
  /\ mail' = [mail EXCEPT ![m] = "dlq"]
  /\ UNCHANGED <<dbVars, receives, announced, pc, txVars, relayVars, adjust,
                 budgetVars, supply>>

----------------------------------------------------------------------------
(* process_order: inbox check, one conditional UPDATE per line, commit.    *)

\* session.get(ProcessedEvent): a duplicate is acknowledged (after relaying).
CheckInbox(c) ==
  /\ pc[c] = "inbox"
  /\ LET o == msg[c].order IN
     /\ Goto(c, IF o \in inbox THEN "publish"
                ELSE IF Lines[o] = <<>> THEN "commit" ELSE "lines")
     /\ tx' = [tx EXCEPT ![c].short = o \notin inbox /\ Lines[o] = <<>>]
  /\ UNCHANGED <<dbVars, queueVars, announced, msg, relayVars, adjust,
                 budgetVars, supply>>

\* UPDATE stock ... WHERE quantity >= :qty matched: the row is locked and the
\* decrement stays private to the transaction.
ReserveLine(c) ==
  /\ pc[c] = "lines"
  /\ LET o == msg[c].order
         p == Lines[o][tx[c].line]
     IN /\ stock[p] >= Quantity[o][p]
        /\ ~LockedByOther(c, p)
        /\ tx' = [tx EXCEPT ![c].line = @ + 1]
        /\ Goto(c, IF tx[c].line = Len(Lines[o]) THEN "commit" ELSE "lines")
  /\ UNCHANGED <<dbVars, queueVars, announced, msg, relayVars, adjust,
                 budgetVars, supply>>

\* rowcount = 0: _reserve_in_session returns a failure and leaves the lines
\* before this one decremented in the transaction.
LineShort(c) ==
  /\ pc[c] = "lines"
  /\ LET o == msg[c].order
         p == Lines[o][tx[c].line]
     IN stock[p] < Quantity[o][p]
  /\ tx' = [tx EXCEPT ![c].short = TRUE]
  /\ Goto(c, "commit")
  /\ UNCHANGED <<dbVars, queueVars, announced, msg, relayVars, adjust,
                 budgetVars, supply>>

\* Seeded mistake: ledger rows are added for a rejected order too.
CommitLedgerAlways(c) ==
  LET o == msg[c].order IN
  /\ stock' = [p \in Products |-> IF p \in Held(c)
                                  THEN stock[p] - Quantity[o][p] ELSE stock[p]]
  /\ ledger' = [ledger EXCEPT ![o] = [p \in Products |->
                  IF p \in OrderProducts(o) THEN "RESERVED" ELSE @[p]]]
  /\ decision' = [decision EXCEPT ![o] =
                    IF tx[c].short THEN "order-rejected" ELSE "order-confirmed"]
  /\ inbox' = inbox \cup {o}
  /\ outbox' = [outbox EXCEPT ![<<"outcome", o>>] = "PENDING"]

\* What commit makes visible: the decrements, the ledger rows of a confirmed
\* order, the inbox receipt and the outcome's outbox row.
CommitDecision(c) ==
  LET o == msg[c].order IN
  /\ stock' = [p \in Products |-> IF p \in Held(c)
                                  THEN stock[p] - Quantity[o][p] ELSE stock[p]]
  /\ ledger' = IF tx[c].short THEN ledger
               ELSE [ledger EXCEPT ![o] = [p \in Products |->
                       IF p \in OrderProducts(o) THEN "RESERVED" ELSE @[p]]]
  /\ decision' = [decision EXCEPT ![o] =
                    IF tx[c].short THEN "order-rejected" ELSE "order-confirmed"]
  /\ inbox' = inbox \cup {o}
  /\ outbox' = [outbox EXCEPT ![<<"outcome", o>>] = "PENDING"]

\* Seeded mistake: the inbox receipt has no unique key.
CommitOrderAgain(c) ==
  /\ pc[c] = "commit"
  /\ CommitDecision(c)
  /\ EndTx(c, "publish")
  /\ UNCHANGED <<queueVars, announced, relayVars, adjust, budgetVars, supply>>

CommitOrder(c) ==
  /\ pc[c] = "commit" /\ msg[c].order \notin inbox
  /\ CommitDecision(c)
  /\ \/ EndTx(c, "publish") /\ UNCHANGED faults
     \* applied, but the acknowledgement is lost and the attempts run out
     \/ Return(c) /\ Fault
  /\ UNCHANGED <<queueVars, announced, relayVars, adjust, crashes, supply>>

\* An error of the DBAPIError family: the wrapper runs process_order again
\* until its attempts run out; then, or without it, handle returns False.
Rollback(c) ==
  IF Wrapped /\ tx[c].attempt < RetryAttempts
  THEN /\ Goto(c, "inbox")
       /\ tx' = [tx EXCEPT ![c] = [NoTx EXCEPT !.attempt = tx[c].attempt + 1]]
       /\ UNCHANGED msg
  ELSE Return(c)

\* Another thread committed the same event: IntegrityError.
CommitConflict(c) ==
  /\ pc[c] = "commit" /\ msg[c].order \in inbox
  /\ Rollback(c)
  /\ UNCHANGED <<dbVars, queueVars, announced, relayVars, adjust, budgetVars,
                 supply>>

\* Seeded mistake: waiting transactions are never aborted.
DeadlockStays(c) ==
  /\ Blocked(c)
  /\ UNCHANGED vars

\* c waits for the row lock that d holds.
WaitsFor(c, d) == Blocked(c) /\ d # c /\ Lines[msg[c].order][tx[c].line] \in Held(d)

\* The database aborts a transaction of a cycle of waiting transactions.
DeadlockVictim(c) ==
  /\ \E S \in SUBSET Consumers :
       /\ c \in S
       /\ \A d \in S : /\ \E e \in S : WaitsFor(d, e)
                       /\ \E e \in S : WaitsFor(e, d)
  /\ Rollback(c)
  /\ UNCHANGED <<dbVars, queueVars, announced, relayVars, adjust, budgetVars,
                 supply>>

----------------------------------------------------------------------------
(* release_reservation: the cancellation branch of handle.                 *)

\* ResilientStock has no such method: AttributeError, handle returns False.
ReleaseUnavailable(c) ==
  /\ pc[c] = "release" /\ Wrapped
  /\ Return(c)
  /\ UNCHANGED <<dbVars, queueVars, announced, relayVars, adjust, budgetVars,
                 supply>>

\* Seeded mistake: the ledger rows are read without FOR UPDATE.
ReadLedgerUnlocked(c) ==
  /\ pc[c] = "release" /\ ~Wrapped
  /\ LET o == msg[c].order IN
     /\ tx' = [tx EXCEPT ![c].rows = Reserved(o)]
     /\ Goto(c, IF Reserved(o) = {} THEN "publish" ELSE "restore")
  /\ UNCHANGED <<dbVars, queueVars, announced, msg, relayVars,
                 adjust, budgetVars, supply>>

\* Seeded mistake: the duplicate test is inverted.
LockLedgerInverted(c) ==
  /\ pc[c] = "release" /\ ~Wrapped
  /\ LET o == msg[c].order IN
     /\ \A d \in Consumers \ {c} : ~(pc[d] = "restore" /\ msg[d].order = o)
     /\ tx' = [tx EXCEPT ![c].rows = Reserved(o)]
     /\ Goto(c, IF Reserved(o) # {} THEN "publish" ELSE "restore")
  /\ UNCHANGED <<dbVars, queueVars, announced, msg, relayVars,
                 adjust, budgetVars, supply>>

\* SELECT ... FOR UPDATE of the order's ledger rows: they stay locked until
\* commit.  No row left to release: a duplicate, nothing is emitted.
LockLedger(c) ==
  /\ pc[c] = "release" /\ ~Wrapped
  /\ LET o == msg[c].order IN
     /\ \A d \in Consumers \ {c} : ~(pc[d] = "restore" /\ msg[d].order = o)
     /\ tx' = [tx EXCEPT ![c].rows = Reserved(o)]
     /\ Goto(c, IF Reserved(o) = {} THEN "publish" ELSE "restore")
  /\ UNCHANGED <<dbVars, queueVars, announced, msg, relayVars,
                 adjust, budgetVars, supply>>

\* Stock goes back, the rows become RELEASED, the outbox row is merged, in one
\* commit; the stock rows must not be locked by a reservation.  The UPDATEs of
\* the stock rows and the commit are one step: a deadlock among the former ends
\* in an aborted transaction, which DatabaseFault is.
RestoreStock(c) ==
  /\ pc[c] = "restore"
  /\ LET o == msg[c].order IN
     /\ \A p \in tx[c].rows : ~LockedByOther(c, p)
     /\ stock' = [p \in Products |-> IF p \in tx[c].rows
                                     THEN stock[p] + Quantity[o][p] ELSE stock[p]]
     /\ ledger' = [ledger EXCEPT ![o] = [p \in Products |->
                     IF p \in tx[c].rows THEN "RELEASED" ELSE @[p]]]
     /\ outbox' = [outbox EXCEPT ![<<"cancelled", o>>] = "PENDING"]
  /\ \/ EndTx(c, "publish") /\ UNCHANGED faults
     \/ Return(c) /\ Fault
  /\ UNCHANGED <<inbox, decision, queueVars, announced, relayVars, adjust,
                 crashes, supply>>

\* Any database call of handle can fail for longer than the attempts last, or
\* find the breaker open: rollback, return False.
DatabaseFault(c) ==
  /\ pc[c] \in {"inbox", "lines", "commit", "release", "restore"}
  /\ Fault
  /\ Return(c)
  /\ UNCHANGED <<dbVars, queueVars, announced, relayVars, adjust, crashes,
                 supply>>

----------------------------------------------------------------------------
(* publish_once, run by the consumer after each command and by the relay   *)
(* thread in a loop.  The instances stay below its limit of 25 rows.       *)

ReadPending(x) ==
  /\ pc[x] = "publish"
  /\ batch' = [batch EXCEPT ![x] = {e \in Events : outbox[e] = "PENDING"}]
  /\ Goto(x, "relay")
  /\ UNCHANGED <<dbVars, queueVars, announced, txVars, current, adjust,
                 budgetVars, supply>>

\* pending_outbox is outside the try of publish_once: in the consumer the
\* error ends handle and is caught by run_forever, in the relay thread nothing
\* catches it and the thread ends.
ReadPendingFails(x) ==
  /\ pc[x] = "publish"
  /\ Fault
  /\ IF x \in Consumers THEN Return(x)
                        ELSE Goto(x, "dead") /\ UNCHANGED txVars
  /\ UNCHANGED <<dbVars, queueVars, announced, relayVars, adjust, crashes,
                 supply>>

\* SNS accepts the message of the next record.
PublishRecord(x, e) ==
  /\ pc[x] = "relay" /\ e \in batch[x] /\ current[x] = None
  /\ announced' = announced \cup {e}
  /\ current' = [current EXCEPT ![x] = e]
  /\ UNCHANGED <<dbVars, queueVars, pc, txVars, batch, adjust, budgetVars,
                 supply>>

\* Seeded mistake: the UPDATE that marks a row marks the whole batch.
MarkBatchPublished(x) ==
  /\ pc[x] = "relay" /\ current[x] # None
  /\ outbox' = [e \in Events |-> IF e \in batch[x] THEN "PUBLISHED" ELSE outbox[e]]
  /\ batch' = [batch EXCEPT ![x] = {}]
  /\ current' = [current EXCEPT ![x] = None]
  /\ UNCHANGED <<stock, ledger, inbox, decision, queueVars, announced, pc,
                 txVars, adjust, budgetVars, supply>>

\* mark_outbox_published, conditional on the row still being PENDING.
MarkPublished(x) ==
  /\ pc[x] = "relay" /\ current[x] # None
  /\ outbox' = [outbox EXCEPT ![current[x]] = IF @ = "PENDING" THEN "PUBLISHED" ELSE @]
  /\ batch' = [batch EXCEPT ![x] = @ \ {current[x]}]
  /\ current' = [current EXCEPT ![x] = None]
  /\ UNCHANGED <<stock, ledger, inbox, decision, queueVars, announced, pc,
                 txVars, adjust, budgetVars, supply>>

\* Publishing or marking a record raised: the row stays PENDING and the loop
\* goes on with the next record.
RecordFails(x, e) ==
  /\ pc[x] = "relay" /\ e \in batch[x] /\ current[x] \in {None, e}
  /\ Fault
  /\ batch' = [batch EXCEPT ![x] = @ \ {e}]
  /\ current' = [current EXCEPT ![x] = None]
  /\ UNCHANGED <<dbVars, queueVars, announced, pc, txVars, adjust, crashes,
                 supply>>

\* handle returned True: poll_once deletes the message.
Acknowledge(c) ==
  /\ pc[c] = "relay" /\ batch[c] = {}
  /\ Return(c)
  /\ \/ /\ mail' = [mail EXCEPT ![msg[c]] = IF @ = "queued" THEN "deleted" ELSE @]
        /\ UNCHANGED faults
     \/ Fault /\ UNCHANGED mail          \* delete_message failed
  /\ UNCHANGED <<dbVars, receives, announced, relayVars, adjust, crashes,
                 supply>>

\* The relay thread waits its interval and polls again.
RelayAgain(r) ==
  /\ pc[r] = "relay" /\ batch[r] = {}
  /\ Goto(r, "publish")
  /\ UNCHANGED <<dbVars, queueVars, announced, txVars, relayVars, adjust,
                 budgetVars, supply>>

----------------------------------------------------------------------------
(* PATCH /v1/inventory/{product_id}: an absolute set.                      *)

\* session.get(StockItem, product_id)
AdjustRead(a, p, q) ==
  /\ adjust[a].pc = "new"
  /\ adjust' = [adjust EXCEPT ![a] = [pc |-> "read", product |-> p,
                                      target |-> q, old |-> stock[p]]]
  /\ UNCHANGED <<dbVars, queueVars, announced, pc, txVars, relayVars,
                 budgetVars, supply>>

\* commit: the UPDATE waits for the row lock, and writes the quantity only
\* when it differs from the one that was read.
AdjustWrite(a) ==
  /\ adjust[a].pc = "read"
  /\ LET p == adjust[a].product
         q == IF adjust[a].target = adjust[a].old THEN stock[p] ELSE adjust[a].target
     IN /\ \A c \in Consumers : p \notin Held(c)
        /\ stock' = [stock EXCEPT ![p] = q]
        /\ supply' = [supply EXCEPT ![p] = @ + q - stock[p]]
  /\ adjust' = [adjust EXCEPT ![a].pc = "done"]
  /\ UNCHANGED <<ledger, inbox, decision, outbox, queueVars, announced, pc,
                 txVars, relayVars, budgetVars>>

----------------------------------------------------------------------------
\* A task dies and ECS starts another: its threads start over, its open
\* transactions roll back, its messages become visible again.
Crash(h) ==
  /\ crashes < MaxCrashes
  /\ crashes' = crashes + 1
  /\ pc' = [x \in Threads |-> IF Host[x] # h THEN pc[x]
                              ELSE IF x \in Consumers THEN "idle" ELSE "publish"]
  /\ batch' = [x \in Threads |-> IF Host[x] = h THEN {} ELSE batch[x]]
  /\ current' = [x \in Threads |-> IF Host[x] = h THEN None ELSE current[x]]
  /\ msg' = [c \in Consumers |-> IF Host[c] = h THEN None ELSE msg[c]]
  /\ tx' = [c \in Consumers |-> IF Host[c] = h THEN NoTx ELSE tx[c]]
  /\ UNCHANGED <<dbVars, queueVars, announced, adjust, faults, supply>>

PublishStep(x) ==
  \/ ReadPending(x)
  \/ \E e \in Events : PublishRecord(x, e)
  \/ MarkPublished(x)

ConsumerStep(c) ==
  \/ \E m \in Commands : Receive(c, m)
  \/ CheckInbox(c) \/ ReserveLine(c) \/ LineShort(c)
  \/ CommitOrder(c) \/ CommitConflict(c) \/ DeadlockVictim(c)
  \/ ReleaseUnavailable(c) \/ LockLedger(c) \/ RestoreStock(c)
  \/ PublishStep(c) \/ Acknowledge(c)

RelayStep(r) == PublishStep(r) \/ RelayAgain(r)

FaultStep(x) ==
  \/ x \in Consumers /\ DatabaseFault(x)
  \/ ReadPendingFails(x)
  \/ \E e \in Events : RecordFails(x, e)

AdminStep(a) ==
  \/ \E p \in Products, q \in Levels : AdjustRead(a, p, q)
  \/ AdjustWrite(a)

Next ==
  \/ \E m \in Commands : SendCommand(m) \/ Redrive(m)
  \/ \E c \in Consumers : ConsumerStep(c)
  \/ \E r \in Relays : RelayStep(r)
  \/ \E x \in Threads : FaultStep(x)
  \/ \E a \in Admins : AdminStep(a)
  \/ \E h \in Hosts : Crash(h)

Spec == Init /\ [][Next]_vars

\* Threads that are scheduled make progress and SQS moves what was received too
\* often.  Nothing forces a command to be sent, an operator to act, or a fault.
\* Weak fairness is enough for lock waits too: only finitely many transactions
\* can overtake a waiting one, for receives and attempts are limited.
Fairness ==
  /\ \A c \in Consumers : WF_vars(ConsumerStep(c))
  /\ \A r \in Relays : WF_vars(RelayStep(r))
  /\ WF_vars(\E m \in Commands : Redrive(m))

FairSpec == Spec /\ Fairness

----------------------------------------------------------------------------
\* The units of p that the ledger holds for a set of orders, each of them an order
\* and a number of its own.
UnitsOf(holders, p) == UNION {{o} \X (1..Quantity[o][p]) : o \in holders}
Holders(p) == {o \in Orders : ledger[o][p] = "RESERVED"}
HeldForOrders(p) == Cardinality(UnitsOf(Holders(p), p))

\* Units on the shelf and units reserved for orders never exceed the units
\* operators stated, whatever is duplicated, retried or interleaved: the last
\* unit is not sold twice and a reservation is not given back twice.
NoOversell == \A p \in Products : stock[p] + HeldForOrders(p) <= supply[p]

\* Every unit is on the shelf or reserved for an order that was not rejected.
StockAccounted == \A p \in Products : stock[p] + HeldForOrders(p) = supply[p]

\* The tables that one decision writes agree, at every instant another
\* transaction can look: receipt, outcome row, verdict and ledger rows.
DecisionConsistent ==
  \A o \in Orders :
    /\ o \in inbox <=> decision[o] # "NONE"
    /\ o \in inbox <=> outbox[<<"outcome", o>>] # "NONE"
    /\ {p \in Products : ledger[o][p] # "NONE"} =
         IF decision[o] = "order-confirmed" THEN OrderProducts(o) ELSE {}
    /\ outbox[<<"cancelled", o>>] # "NONE" <=>
         \E p \in Products : ledger[o][p] = "RELEASED"
    /\ outbox[<<"cancelled", o>>] # "NONE" => Reserved(o) = {}

\* A row is marked PUBLISHED only after SNS accepted its message, and nothing
\* is announced before it is durable.
AnnouncedIsDurable ==
  \A e \in Events : /\ outbox[e] = "PUBLISHED" => e \in announced
                    /\ e \in announced => outbox[e] # "NONE"

\* A command is deleted from the queue only once its effect is durable.
DeletedIsDone ==
  \A m \in Commands : mail[m] = "deleted" =>
    IF m.type = "order-created" THEN m.order \in inbox ELSE Reserved(m.order) = {}

\* A decision is taken once: a redelivered or concurrently handled command
\* changes neither verdict nor stock, and a released row stays released.
DecidedOnce ==
  [][\A o \in Orders : o \in inbox =>
       /\ decision'[o] = decision[o]
       /\ \A p \in Products :
            ledger[o][p] # ledger'[o][p] =>
              ledger[o][p] = "RESERVED" /\ ledger'[o][p] = "RELEASED"]_vars

\* "The reservation is all-or-nothing across every line of an order"
\* (services.py): the commit that rejects an order leaves the stock alone.
RejectionTakesNothing ==
  [][\A o \in Orders :
       decision[o] = "NONE" /\ decision'[o] = "order-rejected" => stock' = stock]_vars

\* Every outbox row is announced: a failed publish or a lost consumer leaves
\* it to a relay thread.
RowsAnnounced ==
  \A e \in Events : outbox[e] = "PENDING" ~> e \in announced

CommandsOf(type) == {m \in Commands : m.type = type}

\* An order command is decided or ends in the DLQ.
CommandSettled ==
  \A m \in CommandsOf("order-created") :
    mail[m] = "queued" ~> m.order \in inbox \/ mail[m] = "dlq"

\* A requested cancellation gives the reserved stock back.
CancellationReleases ==
  \A m \in CommandsOf("order-cancel-requested") :
    mail[m] = "queued" ~> Reserved(m.order) = {}

----------------------------------------------------------------------------
(* The abstract promise.                                                   *)

Asked == {<<m.type, m.order>> : m \in {n \in Commands : mail[n] # "unsent"}}

HeldState == [o \in Orders |->
  IF outbox[<<"cancelled", o>>] # "NONE" THEN "released"
  ELSE IF decision[o] = "order-confirmed" THEN "reserved" ELSE "none"]

Promise == INSTANCE Reservation
  WITH asked <- Asked, verdict <- decision, held <- HeldState, said <- announced

\* The service, with all its threads, retries, duplicates and crashes, does
\* for an order what Reservation promises: each commit is one step of it.
PromiseKept == Promise!Spec

----------------------------------------------------------------------------
(* The strengthening that makes the invariants above inductive.            *)

\* What a consumer works on, and how far its transaction is, per pc.
ConsumerInv ==
  \A c \in Consumers :
    /\ pc[c] = "idle" => tx[c] = NoTx
    /\ pc[c] # "idle" => msg[c] \in Commands /\ mail[msg[c]] # "unsent"
    /\ pc[c] \in {"inbox", "lines", "commit"} => msg[c].type = "order-created"
    /\ pc[c] \in {"release", "restore"} => msg[c].type = "order-cancel-requested"
    /\ pc[c] = "inbox" => tx[c].line = 1 /\ ~tx[c].short
    /\ pc[c] = "lines" => /\ tx[c].line \in 1..Len(Lines[msg[c].order])
                          /\ ~tx[c].short
    /\ pc[c] = "commit" =>
         IF tx[c].short
         THEN tx[c].line = 1 \/ tx[c].line \in 1..Len(Lines[msg[c].order])
         ELSE tx[c].line = Len(Lines[msg[c].order]) + 1

\* Row locks exclude each other, and what a transaction decremented is there.
LockInv ==
  /\ \A c, d \in Consumers : c # d => Held(c) \cap Held(d) = {}
  /\ \A c \in Consumers : \A p \in Held(c) : stock[p] >= Quantity[msg[c].order][p]

\* At most one transaction holds an order's ledger rows for release, and they
\* are the reserved ones.
ReleaseInv ==
  /\ \A c, d \in Consumers :
       pc[c] = "restore" /\ pc[d] = "restore" /\ msg[c].order = msg[d].order => c = d
  /\ \A c \in Consumers : pc[c] = "restore" =>
       tx[c].rows = Reserved(msg[c].order) /\ tx[c].rows # {}

\* Only durable rows are relayed; the row being marked was accepted by SNS.
RelayInv ==
  \A x \in Threads :
    /\ \A e \in batch[x] : outbox[e] # "NONE"
    /\ current[x] # None => /\ current[x] \in batch[x] /\ current[x] \in announced
                            /\ pc[x] = "relay"

\* A cancellation follows the confirmation of its order, and a handler that is
\* about to acknowledge has nothing left to do.
HandledInv ==
  /\ \A m \in Commands : m.type = "order-cancel-requested" /\ mail[m] # "unsent"
                         => m.order \in inbox
  /\ \A c \in Consumers : pc[c] \in {"publish", "relay"} =>
       IF msg[c].type = "order-created" THEN msg[c].order \in inbox
       ELSE Reserved(msg[c].order) = {}

\* The inductive invariant: transactions exclude each other on the rows they
\* hold, every decision's tables agree, what is relayed, announced or deleted
\* from the queue is durable, whichever threads interleave, fail or die.
InventoryInv ==
  /\ TypeOK /\ ConsumerInv /\ LockInv /\ ReleaseInv /\ RelayInv /\ HandledInv
  /\ DecisionConsistent /\ AnnouncedIsDurable /\ DeletedIsDone
=============================================================================
