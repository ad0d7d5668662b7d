---------------------------- MODULE OrdersProofs ----------------------------
(* OrdersInv is an invariant of Orders for any number of orders, consumers, *)
(* deliveries, retries and faults; with it the Order Service implements     *)
(* OrderLifecycle and uses the Inventory Service as Reservation demands.    *)
EXTENDS Orders, TLAPS

----------------------------------------------------------------------------
(* The vocabulary: stages, rows and messages.                              *)

\* The delivery stages are ranked one after the other.
LEMMA StageOrder ==
  /\ Stages = {"PACKING", "DISPATCHED", "OUT_FOR_DELIVERY", "DELIVERED"}
  /\ FulfilmentStatus = Stages \cup {"NOT_STARTED"}
  /\ "NOT_STARTED" \notin Stages
  /\ \A t \in Stages : Previous[t] \in FulfilmentStatus
  /\ \A t \in FulfilmentStatus : Rank[t] \in Nat
  /\ \A t \in Stages : Rank[t] = Rank[Previous[t]] + 1
  /\ Rank["NOT_STARTED"] = 0
  /\ \A t, u \in FulfilmentStatus : Rank[t] = Rank[u] => t = u
BY DEF Stages, FulfilmentStatus, Previous, Rank

\* The rows of an order are rows, and commands or fulfilment changes.
LEMMA RowsOf ==
  ASSUME NEW o \in Orders
  PROVE  /\ Created(o) \in Commands /\ CancelRequested(o) \in Commands
         /\ Created(o) \in Rows /\ CancelRequested(o) \in Rows
         /\ \A t \in Stages : <<t, o>> \in Rows
         /\ \A p \in Orders : /\ Created(o) # CancelRequested(p)
                              /\ Created(o) = Created(p) => o = p
                              /\ CancelRequested(o) = CancelRequested(p) => o = p
         /\ \A t \in Stages, p \in Orders :
              <<t, p>> # Created(o) /\ <<t, p>> # CancelRequested(o)
         /\ <<"outcome", o>> \in Stock!Announcements
         /\ <<"cancelled", o>> \in Stock!Announcements
BY StageOrder DEF Created, CancelRequested, Commands, Rows, Stock!Requests,
                  Stock!Announcements

\* A message is a delivery of an announcement about one order.
LEMMA MessageOf ==
  ASSUME NEW m \in Messages
  PROVE  /\ OrderOf(m) \in Orders /\ m[1] \in Stock!Announcements
         /\ \/ m[1] = <<"outcome", OrderOf(m)>> /\ m[1][1] = "outcome"
            \/ m[1] = <<"cancelled", OrderOf(m)>> /\ m[1][1] = "cancelled"
BY DEF Messages, OrderOf, Stock!Announcements

----------------------------------------------------------------------------
(* The initial state.                                                      *)

\* Nothing was placed, sent or delivered yet.
LEMMA InitInv == Init => OrdersInv
<1> SUFFICES ASSUME Init PROVE OrdersInv
  OBVIOUS
<1> USE DEF Init, Stock!Init
<1>1. TypeOK
  BY OrdersAssumption, StageOrder DEF TypeOK, OrderStatus
<1>2. StockInv /\ OutcomeInv /\ ShippedStockHeld /\ StatusTruthful
  BY DEF StockInv, OutcomeInv, ShippedStockHeld, StatusTruthful
<1>3. RelayInv /\ DeliveredIsSent
  BY DEF RelayInv, DeliveredIsSent
<1>4. DeliveryInv /\ AckedIsApplied
  BY DEF DeliveryInv, AckedIsApplied
<1>5. RowsMatchOrders
  <2> SUFFICES ASSUME NEW o \in Orders
               PROVE  RowsMatch(o)
    BY DEF RowsMatchOrders
  <2>1. \A t \in Stages : rows[<<t, o>>] = "NONE" /\ ~ Rank[t] <= Rank[fulfilment[o]]
    <3>1. \A t \in Stages : rows[<<t, o>>] = "NONE"
      BY RowsOf
    <3>2. \A t \in Stages : Rank[t] > Rank["NOT_STARTED"]
      BY StageOrder
    <3>3. fulfilment[o] = "NOT_STARTED" /\ Rank["NOT_STARTED"] \in Nat
      BY StageOrder
    <3>4. QED
      BY <3>1, <3>2, <3>3, StageOrder
  <2>2. QED
    <3>1. rows[Created(o)] = "NONE" /\ rows[CancelRequested(o)] = "NONE" /\ status[o] = "NONE"
      BY RowsOf
    <3>2. QED
      BY <2>1, <3>1 DEF RowsMatch
<1>6. QED
  BY <1>1, <1>2, <1>3, <1>4, <1>5 DEF OrdersInv

----------------------------------------------------------------------------
(* What a saga event does to its order.                                    *)

\* An outcome moves a PENDING order to the announced verdict; a cancellation
\* completes a CANCEL_PENDING order whose stock was released.
LEMMA ApplyDoes ==
  ASSUME TypeOK, StockInv, DeliveryInv, NEW c \in Consumers, Apply(c)
  PROVE  \E o \in Orders :
           /\ o = OrderOf(msg[c]) /\ msg[c] \in Messages
           /\ \/ /\ msg[c][1] = <<"outcome", o>> /\ msg[c][1][1] = "outcome"
                 /\ <<"outcome", o>> \in said /\ status[o] = "PENDING"
                 /\ \/ /\ verdict[o] = "order-confirmed"
                       /\ status' = [status EXCEPT ![o] = "CONFIRMED"]
                    \/ /\ verdict[o] = "order-rejected"
                       /\ status' = [status EXCEPT ![o] = "REJECTED"]
              \/ /\ msg[c][1] = <<"cancelled", o>> /\ msg[c][1][1] = "cancelled"
                 /\ held[o] = "released" /\ status[o] = "CANCEL_PENDING"
                 /\ status' = [status EXCEPT ![o] = "CANCELLED"]
<1> DEFINE m == msg[c]
           o == OrderOf(m)
<1>1. m \in Messages /\ m[1] \in said
  BY DEF Apply, DeliveryInv
<1>2. o \in Orders /\ m[1] \in Stock!Announcements
  BY <1>1, MessageOf
<1>3. CASE m[1] = <<"outcome", o>> /\ m[1][1] = "outcome"
  <2> HIDE DEF o
  <2>1. verdict[o] \in {"order-confirmed", "order-rejected"}
    <3>1. <<"outcome", o>> \in said
      BY <1>1, <1>3
    <3>2. verdict[o] # "NONE"
      BY <1>2, <3>1 DEF StockInv
    <3>3. verdict[o] \in {"NONE", "order-confirmed", "order-rejected"}
      BY <1>2 DEF TypeOK
    <3>4. QED
      BY <3>2, <3>3
  <2> USE DEF o
  <2>2. EventType(m) = verdict[o] /\ ExpectedStatus(m) = "PENDING"
    BY <1>3, <2>1 DEF EventType, ExpectedStatus, OrderOf
  <2>3. /\ StatusForEvent["order-confirmed"] = "CONFIRMED"
        /\ StatusForEvent["order-rejected"] = "REJECTED"
    BY DEF StatusForEvent
  <2>4. status[o] = "PENDING" /\ status' = [status EXCEPT ![o] = StatusForEvent[verdict[o]]]
    BY <2>2 DEF Apply
  <2>5. QED
    BY <1>1, <1>2, <1>3, <2>1, <2>3, <2>4
<1>4. CASE m[1] = <<"cancelled", o>> /\ m[1][1] = "cancelled"
  <2>1. EventType(m) = "order-cancelled" /\ ExpectedStatus(m) = "CANCEL_PENDING"
    BY <1>4 DEF EventType, ExpectedStatus
  <2>2. StatusForEvent["order-cancelled"] = "CANCELLED"
    BY DEF StatusForEvent
  <2>3. status[o] = "CANCEL_PENDING" /\ status' = [status EXCEPT ![o] = "CANCELLED"]
    BY <2>1, <2>2 DEF Apply
  <2>4. held[o] = "released"
    BY <1>1, <1>2, <1>4 DEF StockInv
  <2>5. QED
    BY <1>1, <1>2, <1>4, <2>3, <2>4
<1>5. QED
  BY <1>1, <1>3, <1>4, MessageOf

----------------------------------------------------------------------------
(* Types.                                                                  *)

\* Every step keeps the types.
LEMMA TypeStep == TypeOK /\ StockInv /\ DeliveryInv /\ Next => TypeOK'
<1> SUFFICES ASSUME TypeOK, StockInv, DeliveryInv, Next PROVE TypeOK'
  OBVIOUS
<1> USE OrdersAssumption DEF TypeOK, OrderStatus, tableVars, relayVars, stockVars,
        queueVars, consumerVars
<1>1. ASSUME NEW o \in Orders, PutWithCommand(o) \/ RequestCancellation(o)
      PROVE  TypeOK'
  BY <1>1 DEF PutWithCommand, RequestCancellation, PutRow
<1>2. ASSUME NEW o \in Orders, NEW t \in Stages, SetFulfilment(o, t)
      PROVE  TypeOK'
  BY <1>2, StageOrder DEF SetFulfilment, PutRow
<1>3. ASSUME NEW e \in Rows, RelayRead(e) \/ RelayMark(e)
      PROVE  TypeOK'
  BY <1>3 DEF RelayRead, RelayMark
<1>4. ASSUME NEW e \in Rows, RelaySend(e)
      PROVE  TypeOK'
  BY <1>4 DEF RelaySend
<1>5. ASSUME NEW e \in Rows, RelayFails(e)
      PROVE  TypeOK'
  BY <1>5 DEF RelayFails, Fault
<1>6. CASE StockStep
  <2>1. ASSUME NEW o \in Orders, Stock!Decision(o) \/ Stock!Release(o)
        PROVE  TypeOK'
    BY <1>6, <2>1 DEF StockStep, Stock!Decision, Stock!Decide, Stock!Release
  <2>2. ASSUME NEW e \in Stock!Announcements, Stock!Announce(e)
        PROVE  TypeOK'
    BY <1>6, <2>2 DEF StockStep, Stock!Announce
  <2>3. QED
    BY <1>6, <2>1, <2>2 DEF StockStep
<1>7. ASSUME NEW m \in Messages, FanOut(m) \/ Redrive(m)
      PROVE  TypeOK'
  BY <1>7 DEF FanOut, Redrive
<1>8. ASSUME NEW c \in Consumers, NEW m \in Messages, Receive(c, m)
      PROVE  TypeOK'
  BY <1>8 DEF Receive, Goto
<1>9. ASSUME NEW c \in Consumers, Apply(c)
      PROVE  TypeOK'
  <2>1. status' \in [Orders -> OrderStatus \cup {"NONE"}]
    <3>1. PICK o \in Orders :
            \E s \in {"CONFIRMED", "REJECTED", "CANCELLED"} :
              status' = [status EXCEPT ![o] = s]
      <4> HIDE DEF TypeOK
      <4> QED
        BY <1>9, ApplyDoes
    <3>2. QED
      BY <3>1
  <2>2. QED
    BY <1>9, <2>1 DEF Apply, Goto
<1>10. ASSUME NEW c \in Consumers, Ignore(c) \/ Interrupt(c)
       PROVE  TypeOK'
  BY <1>10 DEF Ignore, Interrupt, Goto, Return, Fault
<1>11. ASSUME NEW c \in Consumers, Acknowledge(c)
       PROVE  TypeOK'
  BY <1>11 DEF Acknowledge, Goto, Return
<1>12. QED
  BY <1>1, <1>2, <1>3, <1>4, <1>5, <1>6, <1>7, <1>8, <1>9, <1>10, <1>11
  DEF Next, RelayStep, ConsumerStep

----------------------------------------------------------------------------
(* The steps of the API.                                                   *)

\* A new order comes with its command, and nothing was said about it before.
LEMMA PutWithCommandInv ==
  ASSUME OrdersInv, NEW p \in Orders, PutWithCommand(p), TypeOK'
  PROVE  OrdersInv'
<1> USE DEF tableVars, relayVars, stockVars, queueVars, consumerVars
<1>1. /\ status[p] = "NONE" /\ status' = [status EXCEPT ![p] = "PENDING"]
      /\ rows[Created(p)] = "NONE" /\ rows' = [rows EXCEPT ![Created(p)] = "PENDING"]
      /\ UNCHANGED <<fulfilment, relayVars, stockVars, queueVars, consumerVars, faults>>
  BY DEF PutWithCommand, PutRow
<1>2. /\ \A o \in Orders : status'[o] = IF o = p THEN "PENDING" ELSE status[o]
      /\ \A e \in Rows : rows'[e] = IF e = Created(p) THEN "PENDING" ELSE rows[e]
  BY <1>1 DEF OrdersInv, TypeOK
<1>3. verdict[p] = "NONE" /\ held[p] = "none"
  <2>1. Created(p) \notin asked
    BY <1>1, RowsOf DEF OrdersInv, DeliveredIsSent
  <2>2. QED
    BY <2>1 DEF OrdersInv, StockInv
<1>4. fulfilment[p] = "NOT_STARTED"
  BY <1>1 DEF OrdersInv, OutcomeInv
<1>5. StockInv'
  BY <1>1 DEF OrdersInv, StockInv
<1>6. OutcomeInv' /\ ShippedStockHeld' /\ StatusTruthful'
  BY <1>1, <1>2, <1>3, <1>4 DEF OrdersInv, OutcomeInv, ShippedStockHeld, StatusTruthful
<1>7. RelayInv' /\ DeliveredIsSent'
  BY <1>1, <1>2, RowsOf DEF OrdersInv, RelayInv, DeliveredIsSent
<1>8. \A m \in Messages : Applied(m) => Applied(m)'
  BY <1>1, <1>2, MessageOf DEF Applied
<1>9. DeliveryInv' /\ AckedIsApplied'
  BY <1>1, <1>8 DEF OrdersInv, DeliveryInv, AckedIsApplied
<1>10. RowsMatchOrders'
  <2> SUFFICES ASSUME NEW o \in Orders
               PROVE  RowsMatch(o)'
    BY DEF RowsMatchOrders
  <2>1. RowsMatch(o)
    BY DEF OrdersInv, RowsMatchOrders
  <2>2. /\ rows'[CancelRequested(o)] = rows[CancelRequested(o)]
        /\ \A t \in Stages : rows'[<<t, o>>] = rows[<<t, o>>]
        /\ rows'[Created(o)] = IF o = p THEN "PENDING" ELSE rows[Created(o)]
    BY <1>2, RowsOf
  <2>3. QED
    BY <1>1, <1>2, <2>1, <2>2 DEF RowsMatch, Created, CancelRequested
<1>11. QED
  BY <1>5, <1>6, <1>7, <1>9, <1>10 DEF OrdersInv

\* Delivery advances for orders that hold their stock.
LEMMA SetFulfilmentInv ==
  ASSUME OrdersInv, NEW p \in Orders, NEW s \in Stages, SetFulfilment(p, s), TypeOK'
  PROVE  OrdersInv'
<1> USE DEF tableVars, relayVars, stockVars, queueVars, consumerVars
<1>1. /\ status[p] = "CONFIRMED" /\ fulfilment[p] = Previous[s]
      /\ fulfilment' = [fulfilment EXCEPT ![p] = s]
      /\ rows[<<s, p>>] = "NONE" /\ rows' = [rows EXCEPT ![<<s, p>>] = "PENDING"]
      /\ UNCHANGED <<status, relayVars, stockVars, queueVars, consumerVars, faults>>
  BY DEF SetFulfilment, PutRow
<1>2. /\ \A o \in Orders : fulfilment'[o] = IF o = p THEN s ELSE fulfilment[o]
      /\ \A e \in Rows : rows'[e] = IF e = <<s, p>> THEN "PENDING" ELSE rows[e]
  BY <1>1, RowsOf DEF OrdersInv, TypeOK
<1>3. held[p] = "reserved"
  <2>1. verdict[p] = "order-confirmed" /\ held[p] # "released"
    BY <1>1 DEF OrdersInv, StatusTruthful
  <2>2. held[p] \in {"none", "reserved", "released"} /\ held[p] # "none"
    BY <2>1 DEF OrdersInv, StockInv, TypeOK
  <2>3. QED
    BY <2>1, <2>2
<1>4. StockInv' /\ StatusTruthful'
  BY <1>1 DEF OrdersInv, StockInv, StatusTruthful
<1>5. OutcomeInv' /\ ShippedStockHeld'
  BY <1>1, <1>2, <1>3 DEF OrdersInv, OutcomeInv, ShippedStockHeld
<1>6. RelayInv' /\ DeliveredIsSent'
  BY <1>1, <1>2, RowsOf DEF OrdersInv, RelayInv, DeliveredIsSent
<1>7. DeliveryInv' /\ AckedIsApplied'
  BY <1>1 DEF OrdersInv, DeliveryInv, AckedIsApplied, Applied
<1>8. RowsMatchOrders'
  <2> SUFFICES ASSUME NEW o \in Orders
               PROVE  RowsMatch(o)'
    BY DEF RowsMatchOrders
  <2>1. RowsMatch(o)
    BY DEF OrdersInv, RowsMatchOrders
  <2>2. /\ rows'[Created(o)] = rows[Created(o)]
        /\ rows'[CancelRequested(o)] = rows[CancelRequested(o)]
        /\ \A t \in Stages : rows'[<<t, o>>] = IF t = s /\ o = p THEN "PENDING" ELSE rows[<<t, o>>]
    BY <1>2, RowsOf
  <2>3. CASE o # p
    <3>1. fulfilment'[o] = fulfilment[o]
      BY <1>2, <2>3
    <3>2. QED
      BY <1>1, <2>1, <2>2, <2>3, <3>1 DEF RowsMatch, Created, CancelRequested
  <2>4. CASE o = p
    <3>1. \A t \in Stages : Rank[t] <= Rank[s] <=> t = s \/ Rank[t] <= Rank[fulfilment[p]]
      <4>1. Rank[s] = Rank[fulfilment[p]] + 1 /\ fulfilment[p] \in FulfilmentStatus
        BY <1>1, StageOrder
      <4>2. QED
        BY <4>1, StageOrder
    <3>2. fulfilment'[p] = s
      BY <1>2
    <3>3. \A t \in Stages : rows'[<<t, p>>] # "NONE" <=> Rank[t] <= Rank[fulfilment'[p]]
      BY <2>1, <2>2, <2>4, <3>1, <3>2 DEF RowsMatch
    <3>4. QED
      BY <1>1, <2>1, <2>2, <2>4, <3>3 DEF RowsMatch, Created, CancelRequested
  <2>5. QED
    BY <2>3, <2>4
<1>9. QED
  BY <1>4, <1>5, <1>6, <1>7, <1>8 DEF OrdersInv

\* A cancellation is requested for a confirmed order still in the warehouse.
LEMMA RequestCancellationInv ==
  ASSUME OrdersInv, NEW p \in Orders, RequestCancellation(p), TypeOK'
  PROVE  OrdersInv'
<1> USE DEF tableVars, relayVars, stockVars, queueVars, consumerVars
<1>1. /\ status[p] = "CONFIRMED" /\ fulfilment[p] \in {"NOT_STARTED", "PACKING"}
      /\ status' = [status EXCEPT ![p] = "CANCEL_PENDING"]
      /\ rows[CancelRequested(p)] = "NONE"
      /\ rows' = [rows EXCEPT ![CancelRequested(p)] = "PENDING"]
      /\ UNCHANGED <<fulfilment, relayVars, stockVars, queueVars, consumerVars, faults>>
  BY DEF RequestCancellation, PutRow
<1>2. /\ \A o \in Orders : status'[o] = IF o = p THEN "CANCEL_PENDING" ELSE status[o]
      /\ \A e \in Rows : rows'[e] = IF e = CancelRequested(p) THEN "PENDING" ELSE rows[e]
  BY <1>1 DEF OrdersInv, TypeOK
<1>3. StockInv'
  BY <1>1 DEF OrdersInv, StockInv
<1>4. OutcomeInv' /\ ShippedStockHeld' /\ StatusTruthful'
  BY <1>1, <1>2 DEF OrdersInv, OutcomeInv, ShippedStockHeld, StatusTruthful
<1>5. RelayInv' /\ DeliveredIsSent'
  BY <1>1, <1>2, RowsOf DEF OrdersInv, RelayInv, DeliveredIsSent
<1>6. \A m \in Messages : Applied(m) => Applied(m)'
  BY <1>1, <1>2, MessageOf DEF Applied
<1>7. DeliveryInv' /\ AckedIsApplied'
  BY <1>1, <1>6 DEF OrdersInv, DeliveryInv, AckedIsApplied
<1>8. RowsMatchOrders'
  <2> SUFFICES ASSUME NEW o \in Orders
               PROVE  RowsMatch(o)'
    BY DEF RowsMatchOrders
  <2>1. RowsMatch(o)
    BY DEF OrdersInv, RowsMatchOrders
  <2>2. /\ rows'[Created(o)] = rows[Created(o)]
        /\ \A t \in Stages : rows'[<<t, o>>] = rows[<<t, o>>]
        /\ rows'[CancelRequested(o)] = IF o = p THEN "PENDING" ELSE rows[CancelRequested(o)]
    BY <1>2, RowsOf
  <2>3. QED
    BY <1>1, <1>2, <2>1, <2>2 DEF RowsMatch, Created, CancelRequested
<1>9. QED
  BY <1>3, <1>4, <1>5, <1>7, <1>8 DEF OrdersInv

----------------------------------------------------------------------------
(* The steps of the stream Lambda.                                         *)

\* The relay reads, sends, marks or fails: nothing but rows, its own state and
\* what the destinations have changes.
LEMMA RelayStepInv ==
  ASSUME OrdersInv, NEW e \in Rows, RelayStep(e) \/ RelayFails(e), TypeOK'
  PROVE  OrdersInv'
<1> USE DEF tableVars, relayVars, stockVars, queueVars, consumerVars
<1>1. UNCHANGED <<status, fulfilment, verdict, held, said, queueVars, consumerVars>>
  BY DEF RelayStep, RelayRead, RelaySend, RelayMark, RelayFails
<1>2. asked \subseteq asked'
  BY <1>1 DEF RelayStep, RelayRead, RelaySend, RelayMark, RelayFails
<1>3. StockInv' /\ StatusTruthful'
  BY <1>1, <1>2 DEF OrdersInv, StockInv, StatusTruthful
<1>4. OutcomeInv' /\ ShippedStockHeld'
  BY <1>1 DEF OrdersInv, OutcomeInv, ShippedStockHeld
<1>5. DeliveryInv' /\ AckedIsApplied'
  BY <1>1 DEF OrdersInv, DeliveryInv, AckedIsApplied, Applied
<1>6. RelayInv' /\ DeliveredIsSent'
  <2> USE DEF OrdersInv, TypeOK
  <2>1. CASE RelayRead(e)
    BY <2>1 DEF RelayRead, RelayInv, DeliveredIsSent
  <2>2. CASE RelaySend(e)
    <3>1. /\ \A f \in Rows : relay'[f] = IF f = e THEN "sent" ELSE relay[f]
          /\ relay[e] = "read" /\ rows' = rows
          /\ asked' \cup notified' = asked \cup notified \cup {e}
      BY <2>2 DEF RelaySend
    <3> HIDE DEF TypeOK
    <3>2. QED
      BY <3>1 DEF RelayInv, DeliveredIsSent
  <2>3. CASE RelayMark(e)
    BY <2>3 DEF RelayMark, RelayInv, DeliveredIsSent
  <2>4. CASE RelayFails(e)
    BY <2>4 DEF RelayFails, RelayInv, DeliveredIsSent
  <2>5. QED
    BY <2>1, <2>2, <2>3, <2>4 DEF RelayStep
<1>7. RowsMatchOrders'
  <2>1. \A f \in Rows : rows'[f] # "NONE" <=> rows[f] # "NONE"
    BY DEF RelayStep, RelayRead, RelaySend, RelayMark, RelayFails, OrdersInv, TypeOK
  <2> SUFFICES ASSUME NEW o \in Orders
               PROVE  RowsMatch(o)'
    BY DEF RowsMatchOrders
  <2>2. RowsMatch(o)
    BY DEF OrdersInv, RowsMatchOrders
  <2>3. QED
    BY <1>1, <2>1, <2>2, RowsOf DEF RowsMatch, Created, CancelRequested
<1>8. QED
  BY <1>3, <1>4, <1>5, <1>6, <1>7 DEF OrdersInv

----------------------------------------------------------------------------
(* The steps of the Inventory Service and of the queue.                    *)

\* The Inventory Service's promise keeps what the tables rely on.
LEMMA StockStepInv ==
  ASSUME OrdersInv, StockStep, TypeOK'
  PROVE  OrdersInv'
<1> USE DEF tableVars, relayVars, stockVars, queueVars, consumerVars
<1>1. UNCHANGED <<tableVars, relayVars, asked, queueVars, consumerVars>>
  BY DEF StockStep, Stock!Decision, Stock!Decide, Stock!Release, Stock!Announce
<1>2. OutcomeInv' /\ said \subseteq said'
  BY <1>1 DEF StockStep, Stock!Decision, Stock!Decide, Stock!Release, Stock!Announce,
              OrdersInv, OutcomeInv
<1>3. RelayInv' /\ DeliveredIsSent'
  BY <1>1 DEF OrdersInv, RelayInv, DeliveredIsSent
<1>4. DeliveryInv' /\ AckedIsApplied'
  BY <1>1, <1>2 DEF OrdersInv, DeliveryInv, AckedIsApplied, Applied
<1>5. RowsMatchOrders'
  BY <1>1 DEF OrdersInv, RowsMatchOrders, RowsMatch
<1>6. StockInv' /\ ShippedStockHeld' /\ StatusTruthful'
  <2>1. ASSUME NEW p \in Orders, NEW v \in {"order-confirmed", "order-rejected"},
               Stock!Decide(p, v)
        PROVE  StockInv' /\ ShippedStockHeld' /\ StatusTruthful'
    <3>1. /\ Created(p) \in asked /\ verdict[p] = "NONE" /\ UNCHANGED said
          /\ \A o \in Orders : verdict'[o] = IF o = p THEN v ELSE verdict[o]
          /\ \A o \in Orders : held'[o] = IF o = p /\ v = "order-confirmed"
                                          THEN "reserved" ELSE held[o]
      BY <2>1 DEF Stock!Decide, Created, OrdersInv, TypeOK
    <3>2. held[p] = "none"
      BY <3>1 DEF OrdersInv, StockInv
    <3>3. status[p] \in {"NONE", "PENDING"}
      BY <3>1 DEF OrdersInv, OutcomeInv, StockInv
    <3>4. StockInv'
      BY <1>1, <3>1, <3>2 DEF OrdersInv, StockInv
    <3>5. ShippedStockHeld' /\ StatusTruthful'
      BY <1>1, <3>1, <3>2, <3>3 DEF OrdersInv, ShippedStockHeld, StatusTruthful
    <3>6. QED
      BY <3>4, <3>5
  <2>2. ASSUME NEW p \in Orders, Stock!Release(p)
        PROVE  StockInv' /\ ShippedStockHeld' /\ StatusTruthful'
    <3>1. /\ CancelRequested(p) \in asked /\ held[p] = "reserved"
          /\ UNCHANGED <<verdict, said>>
          /\ \A o \in Orders : held'[o] = IF o = p THEN "released" ELSE held[o]
      BY <2>2 DEF Stock!Release, CancelRequested, OrdersInv, TypeOK
    <3>2. status[p] = "CANCEL_PENDING"
      <4>1. rows[CancelRequested(p)] # "NONE"
        BY <3>1, RowsOf DEF OrdersInv, DeliveredIsSent
      <4>2. status[p] \in {"CANCEL_PENDING", "CANCELLED"}
        BY <4>1 DEF OrdersInv, RowsMatchOrders, RowsMatch
      <4>3. QED
        BY <3>1, <4>2 DEF OrdersInv, StatusTruthful
    <3>3. StockInv'
      BY <1>1, <3>1 DEF OrdersInv, StockInv
    <3>4. ShippedStockHeld' /\ StatusTruthful'
      BY <1>1, <3>1, <3>2 DEF OrdersInv, ShippedStockHeld, StatusTruthful
    <3>5. QED
      BY <3>3, <3>4
  <2>3. ASSUME NEW a \in Stock!Announcements, Stock!Announce(a)
        PROVE  StockInv' /\ ShippedStockHeld' /\ StatusTruthful'
    <3>1. /\ said' = said \cup {a} /\ UNCHANGED <<verdict, held>>
          /\ \A o \in Orders : a = <<"outcome", o>> => verdict[o] # "NONE"
          /\ \A o \in Orders : a = <<"cancelled", o>> => held[o] = "released"
      BY <2>3 DEF Stock!Announce
    <3>2. StockInv'
      BY <1>1, <3>1 DEF OrdersInv, StockInv
    <3>3. ShippedStockHeld' /\ StatusTruthful'
      BY <1>1, <3>1 DEF OrdersInv, ShippedStockHeld, StatusTruthful
    <3>4. QED
      BY <3>2, <3>3
  <2>4. QED
    BY <2>1, <2>2, <2>3 DEF StockStep, Stock!Decision
<1>7. QED
  BY <1>2, <1>3, <1>4, <1>5, <1>6 DEF OrdersInv

\* A delivery is of an announcement; a dead-lettered one stays delivered.
LEMMA FanOutInv ==
  ASSUME OrdersInv, TypeOK', NEW m \in Messages, FanOut(m) \/ Redrive(m)
  PROVE  OrdersInv'
<1> USE DEF tableVars, relayVars, stockVars, queueVars, consumerVars
<1>1. /\ StockInv' /\ StatusTruthful' /\ OutcomeInv' /\ ShippedStockHeld'
      /\ RelayInv' /\ DeliveredIsSent' /\ RowsMatchOrders'
  BY DEF FanOut, Redrive, OrdersInv, StockInv, StatusTruthful, OutcomeInv, ShippedStockHeld,
         RelayInv, DeliveredIsSent, RowsMatchOrders, RowsMatch
<1>2. /\ m[1] \in said /\ UNCHANGED <<pc, msg, said, status>>
      /\ \E l \in {"queued", "dlq"} :
           \A n \in Messages : mail'[n] = IF n = m THEN l ELSE mail[n]
  BY DEF FanOut, Redrive, OrdersInv, DeliveryInv, TypeOK
<1>3. DeliveryInv' /\ AckedIsApplied'
  BY <1>2 DEF OrdersInv, DeliveryInv, AckedIsApplied, Applied
<1>4. QED
  BY <1>1, <1>3 DEF OrdersInv

\* Receives and acknowledgements touch the queue and the consumers only.
LEMMA ConsumerStepInv ==
  ASSUME OrdersInv, TypeOK', NEW m \in Messages, NEW c \in Consumers,
         Receive(c, m) \/ Ignore(c) \/ Interrupt(c) \/ Acknowledge(c)
  PROVE  OrdersInv'
<1> USE DEF tableVars, relayVars, stockVars, queueVars, consumerVars
<1>1. UNCHANGED <<tableVars, relayVars, stockVars>>
  BY DEF Receive, Ignore, Interrupt, Acknowledge
<1>2. StockInv' /\ StatusTruthful' /\ OutcomeInv' /\ ShippedStockHeld'
  BY <1>1 DEF OrdersInv, StockInv, StatusTruthful, OutcomeInv, ShippedStockHeld
<1>3. RelayInv' /\ DeliveredIsSent' /\ RowsMatchOrders'
  BY <1>1 DEF OrdersInv, RelayInv, DeliveredIsSent, RowsMatchOrders, RowsMatch
<1>4. \A n \in Messages : Applied(n)' <=> Applied(n)
  BY <1>1 DEF Applied
<1>5. DeliveryInv' /\ AckedIsApplied'
  <2> USE DEF OrdersInv
  <2>1. CASE Receive(c, m)
    <3>1. /\ mail[m] # "unsent" /\ mail' = mail
          /\ \A d \in Consumers : /\ pc'[d] = IF d = c THEN "apply" ELSE pc[d]
                                  /\ msg'[d] = IF d = c THEN m ELSE msg[d]
      BY <2>1 DEF Receive, Goto, TypeOK
    <3>2. QED
      BY <1>1, <1>4, <3>1 DEF DeliveryInv, AckedIsApplied
  <2>2. CASE Ignore(c)
    <3>1. /\ pc[c] = "apply" /\ UNCHANGED <<mail, msg>>
          /\ \A d \in Consumers : pc'[d] = IF d = c THEN "ack" ELSE pc[d]
      BY <2>2 DEF Ignore, Goto, TypeOK
    <3>2. Applied(msg[c])
      <4>1. msg[c] \in Messages /\ msg[c][1] \in said
        BY <3>1 DEF DeliveryInv
      <4>2. PICK o \in Orders : o = OrderOf(msg[c])
        BY <4>1, MessageOf
      <4>3. status[o] \notin {"NONE", ExpectedStatus(msg[c])}
        BY <2>2, <4>2 DEF Ignore
      <4>4. CASE msg[c][1] = <<"outcome", o>> /\ msg[c][1][1] = "outcome"
        <5>1. verdict[o] \in {"order-confirmed", "order-rejected"}
          <6>1. verdict[o] # "NONE"
            BY <4>1, <4>4 DEF StockInv
          <6>2. QED
            BY <6>1 DEF TypeOK
        <5>2. ExpectedStatus(msg[c]) = "PENDING"
          BY <4>2, <4>4, <5>1 DEF ExpectedStatus, EventType, OrderOf
        <5>3. QED
          BY <4>2, <4>3, <4>4, <5>2 DEF Applied
      <4>5. CASE msg[c][1] = <<"cancelled", o>> /\ msg[c][1][1] = "cancelled"
        <5>1. ExpectedStatus(msg[c]) = "CANCEL_PENDING"
          BY <4>5 DEF ExpectedStatus, EventType
        <5>2. status[o] \in {"CANCEL_PENDING", "CANCELLED"}
          BY <4>1, <4>5 DEF StockInv, StatusTruthful
        <5>3. QED
          BY <4>2, <4>3, <4>5, <5>1, <5>2 DEF Applied
      <4>6. QED
        BY <4>1, <4>2, <4>4, <4>5, MessageOf
    <3>3. QED
      BY <1>1, <1>4, <3>1, <3>2 DEF DeliveryInv, AckedIsApplied
  <2>3. CASE Interrupt(c)
    <3>1. /\ mail' = mail
          /\ \A d \in Consumers : /\ pc'[d] = IF d = c THEN "idle" ELSE pc[d]
                                  /\ d # c => msg'[d] = msg[d]
      BY <2>3 DEF Interrupt, Return, Goto, TypeOK
    <3>2. QED
      BY <1>1, <1>4, <3>1 DEF DeliveryInv, AckedIsApplied
  <2>4. CASE Acknowledge(c)
    <3>1. /\ pc[c] = "ack" /\ msg[c] \in Messages /\ Applied(msg[c])
          /\ mail[msg[c]] # "unsent"
      BY <2>4 DEF Acknowledge, DeliveryInv
    <3>2. /\ \A d \in Consumers : /\ pc'[d] = IF d = c THEN "idle" ELSE pc[d]
                                  /\ d # c => msg'[d] = msg[d]
          /\ \A n \in Messages : mail'[n] = IF n = msg[c] /\ mail[n] = "queued"
                                            THEN "deleted" ELSE mail[n]
      BY <2>4, <3>1 DEF Acknowledge, Return, Goto, TypeOK
    <3>3. QED
      BY <1>1, <1>4, <3>1, <3>2 DEF DeliveryInv, AckedIsApplied
  <2>5. QED
    BY <2>1, <2>2, <2>3, <2>4
<1>6. QED
  BY <1>2, <1>3, <1>5 DEF OrdersInv

----------------------------------------------------------------------------
(* The compensation consumer applies an outcome.                           *)

\* An applied event leaves the order as the Inventory Service has it.
LEMMA ApplyInv ==
  ASSUME OrdersInv, NEW c \in Consumers, Apply(c), TypeOK'
  PROVE  OrdersInv'
<1> USE DEF tableVars, relayVars, stockVars, queueVars, consumerVars
<1>1. /\ UNCHANGED <<fulfilment, rows, relayVars, stockVars, queueVars, msg>>
      /\ pc[c] = "apply" /\ pc' = [pc EXCEPT ![c] = "ack"]
  BY DEF Apply, Goto
<1>2. PICK p \in Orders :
        /\ p = OrderOf(msg[c]) /\ msg[c] \in Messages
        /\ \/ /\ msg[c][1] = <<"outcome", p>> /\ msg[c][1][1] = "outcome"
              /\ <<"outcome", p>> \in said /\ status[p] = "PENDING"
              /\ \/ /\ verdict[p] = "order-confirmed"
                    /\ status' = [status EXCEPT ![p] = "CONFIRMED"]
                 \/ /\ verdict[p] = "order-rejected"
                    /\ status' = [status EXCEPT ![p] = "REJECTED"]
           \/ /\ msg[c][1] = <<"cancelled", p>> /\ msg[c][1][1] = "cancelled"
              /\ held[p] = "released" /\ status[p] = "CANCEL_PENDING"
              /\ status' = [status EXCEPT ![p] = "CANCELLED"]
  BY ApplyDoes DEF OrdersInv
<1>3. PICK s \in {"CONFIRMED", "REJECTED", "CANCELLED"} :
        /\ \A o \in Orders : status'[o] = IF o = p THEN s ELSE status[o]
        /\ s = "CONFIRMED" => verdict[p] = "order-confirmed"
        /\ s = "REJECTED" => verdict[p] = "order-rejected"
        /\ s \in {"CONFIRMED", "REJECTED"} =>
             /\ msg[c][1][1] = "outcome" /\ status[p] = "PENDING"
             /\ <<"outcome", p>> \in said
        /\ s = "CANCELLED" => /\ msg[c][1][1] = "cancelled" /\ status[p] = "CANCEL_PENDING"
                              /\ held[p] = "released"
  BY <1>2 DEF OrdersInv, TypeOK
<1>4. StockInv'
  BY <1>1 DEF OrdersInv, StockInv
<1>5. OutcomeInv' /\ ShippedStockHeld' /\ StatusTruthful'
  <2>1. OutcomeInv'
    BY <1>1, <1>3 DEF OrdersInv, OutcomeInv
  <2>2. ShippedStockHeld'
    BY <1>1, <1>3 DEF OrdersInv, ShippedStockHeld
  <2>3. s = "REJECTED" => held[p] = "none"
    BY <1>3 DEF OrdersInv, StockInv
  <2>4. s = "CONFIRMED" => held[p] # "released"
    BY <1>3 DEF OrdersInv, StatusTruthful
  <2>5. s = "CANCELLED" => verdict[p] = "order-confirmed"
    BY <1>3 DEF OrdersInv, StatusTruthful
  <2>6. StatusTruthful'
    BY <1>1, <1>3, <2>3, <2>4, <2>5 DEF OrdersInv, StatusTruthful
  <2>7. QED
    BY <2>1, <2>2, <2>6
<1>6. RelayInv' /\ DeliveredIsSent'
  BY <1>1 DEF OrdersInv, RelayInv, DeliveredIsSent
<1>7. \A m \in Messages : Applied(m) => Applied(m)'
  <2>1. \A m \in Messages : OrderOf(m)' = OrderOf(m) /\ OrderOf(m) \in Orders
    BY MessageOf DEF OrderOf
  <2>2. QED
    BY <1>3, <2>1 DEF Applied
<1>8. Applied(msg[c])'
  BY <1>1, <1>2, <1>3 DEF Applied, OrderOf
<1>9. \A d \in Consumers : pc'[d] = IF d = c THEN "ack" ELSE pc[d]
  BY <1>1 DEF OrdersInv, TypeOK
<1>10. DeliveryInv' /\ AckedIsApplied'
  BY <1>1, <1>7, <1>8, <1>9 DEF OrdersInv, DeliveryInv, AckedIsApplied
<1>11. RowsMatchOrders'
  <2> SUFFICES ASSUME NEW o \in Orders
               PROVE  RowsMatch(o)'
    BY DEF RowsMatchOrders
  <2>1. RowsMatch(o)
    BY DEF OrdersInv, RowsMatchOrders
  <2>2. QED
    BY <1>1, <1>3, <2>1 DEF RowsMatch, Created, CancelRequested
<1>12. QED
  BY <1>4, <1>5, <1>6, <1>10, <1>11 DEF OrdersInv

----------------------------------------------------------------------------
(* The invariant.                                                          *)

\* Every step, and every stuttering step, keeps OrdersInv.
LEMMA NextInv == OrdersInv /\ [Next]_vars => OrdersInv'
<1> SUFFICES ASSUME OrdersInv, [Next]_vars PROVE OrdersInv'
  OBVIOUS
<1>1. CASE UNCHANGED vars
  <2>1. UNCHANGED <<status, fulfilment, rows, relay, tries, notified, asked, verdict,
                    held, said, mail, receives, pc, msg, faults>>
    BY <1>1 DEF vars, tableVars, relayVars, stockVars, queueVars, consumerVars
  <2>2. TypeOK' /\ StockInv' /\ OutcomeInv' /\ RelayInv'
    BY <2>1 DEF OrdersInv, TypeOK, StockInv, OutcomeInv, RelayInv
  <2>3. DeliveryInv' /\ AckedIsApplied'
    BY <2>1 DEF OrdersInv, DeliveryInv, AckedIsApplied, Applied
  <2>4. ShippedStockHeld' /\ StatusTruthful' /\ RowsMatchOrders' /\ DeliveredIsSent'
    BY <2>1 DEF OrdersInv, ShippedStockHeld, StatusTruthful, RowsMatchOrders, RowsMatch,
                DeliveredIsSent
  <2>5. QED
    BY <2>2, <2>3, <2>4 DEF OrdersInv
<1>2. CASE Next
  <2>1. TypeOK'
    BY <1>2, TypeStep DEF OrdersInv
  <2>2. ASSUME NEW o \in Orders, PutWithCommand(o) PROVE OrdersInv'
    BY <2>1, <2>2, PutWithCommandInv
  <2>3. ASSUME NEW o \in Orders, RequestCancellation(o) PROVE OrdersInv'
    BY <2>1, <2>3, RequestCancellationInv
  <2>4. ASSUME NEW o \in Orders, NEW t \in Stages, SetFulfilment(o, t) PROVE OrdersInv'
    BY <2>1, <2>4, SetFulfilmentInv
  <2>5. ASSUME NEW e \in Rows, RelayStep(e) \/ RelayFails(e) PROVE OrdersInv'
    BY <2>1, <2>5, RelayStepInv
  <2>6. CASE StockStep
    BY <2>1, <2>6, StockStepInv
  <2>7. ASSUME NEW c \in Consumers, Apply(c) PROVE OrdersInv'
    BY <2>1, <2>7, ApplyInv
  <2>8. ASSUME NEW c \in Consumers, NEW m \in Messages, Receive(c, m) PROVE OrdersInv'
    BY <2>1, <2>8, ConsumerStepInv
  <2>9. ASSUME NEW m \in Messages, FanOut(m) \/ Redrive(m) PROVE OrdersInv'
    BY <2>1, <2>9, FanOutInv
  <2>10. ASSUME NEW c \in Consumers, Ignore(c) \/ Interrupt(c) \/ Acknowledge(c)
         PROVE  OrdersInv'
    <3>1. msg[c] \in Messages
      BY <2>10 DEF Ignore, Interrupt, Acknowledge, OrdersInv, DeliveryInv
    <3>2. QED
      BY <2>1, <2>10, <3>1, ConsumerStepInv
  <2>11. QED
    BY <1>2, <2>2, <2>3, <2>4, <2>5, <2>6, <2>7, <2>8, <2>9, <2>10 DEF Next, ConsumerStep
<1>3. QED
  BY <1>1, <1>2

\* OrdersInv holds in every reachable state, for all values of the constants.
THEOREM OrdersInvariant == Spec => []OrdersInv
<1>1. Init => OrdersInv
  BY InitInv
<1>2. OrdersInv /\ [Next]_vars => OrdersInv'
  BY NextInv
<1>3. QED
  BY <1>1, <1>2, PTL DEF Spec

\* No order in delivery ever loses its stock: dispatch, cancellation and late
\* saga events exclude each other through the conditions of their writes.
THEOREM DispatchedStockStays == Spec => []ShippedStockHeld
<1>1. OrdersInv => ShippedStockHeld
  BY DEF OrdersInv
<1>2. QED
  BY <1>1, OrdersInvariant, PTL

\* The status a customer reads agrees with what the Inventory Service committed.
THEOREM StatusIsTruthful == Spec => []StatusTruthful
<1>1. OrdersInv => StatusTruthful
  BY DEF OrdersInv
<1>2. QED
  BY <1>1, OrdersInvariant, PTL

\* Accepted states and their outbox rows never come apart, and a row is
\* DELIVERED only when its destination has it.
THEOREM OutboxIsExact == Spec => [](RowsMatchOrders /\ DeliveredIsSent)
<1>1. OrdersInv => RowsMatchOrders /\ DeliveredIsSent
  BY DEF OrdersInv
<1>2. QED
  BY <1>1, OrdersInvariant, PTL

\* A deleted saga event is one whose effect the order shows.
THEOREM AcknowledgedIsApplied == Spec => []AckedIsApplied
<1>1. OrdersInv => AckedIsApplied
  BY DEF OrdersInv
<1>2. QED
  BY <1>1, OrdersInvariant, PTL

----------------------------------------------------------------------------
(* Refinement.                                                             *)

\* Status, fulfilment and stock of every order move as OrderLifecycle says, and
\* nothing else moves them.
THEOREM ImplementsLifecycle == Spec => LifecycleKept
<1> USE DEF tableVars, relayVars, stockVars, queueVars, consumerVars
<1>1. Init => Life!Init
  BY DEF Init, Life!Init, Stock!Init
<1>2. OrdersInv /\ [Next]_vars => [Life!Next]_<<status, fulfilment, held>>
  <2> SUFFICES ASSUME OrdersInv, [Next]_vars
               PROVE  Life!Next \/ UNCHANGED <<status, fulfilment, held>>
    OBVIOUS
  <2>1. ASSUME NEW o \in Orders, PutWithCommand(o)
        PROVE  Life!Next
    BY <2>1 DEF PutWithCommand, Life!Next, Life!Place, Life!Become
  <2>2. ASSUME NEW o \in Orders, RequestCancellation(o)
        PROVE  Life!Next
    BY <2>2 DEF RequestCancellation, Life!Next, Life!RequestCancel, Life!Become,
                Life!Cancellable
  <2>3. ASSUME NEW o \in Orders, NEW t \in Stages, SetFulfilment(o, t)
        PROVE  Life!Next
    <3>1. Life!Stages = Stages /\ Life!Previous = Previous
      BY DEF Life!Stages, Life!Previous, Stages, Previous
    <3>2. Life!Advance(o, t)
      BY <2>3, <3>1 DEF SetFulfilment, Life!Advance
    <3>3. QED
      BY <3>1, <3>2 DEF Life!Next
  <2>4. ASSUME NEW o \in Orders, NEW v \in {"order-confirmed", "order-rejected"},
               Stock!Decide(o, v), StockStep
        PROVE  Life!Next \/ UNCHANGED <<status, fulfilment, held>>
    <3>1. Created(o) \in asked /\ verdict[o] = "NONE"
      BY <2>4 DEF Stock!Decide, Created
    <3>2. held[o] = "none"
      BY <3>1 DEF OrdersInv, StockInv
    <3>3. status[o] = "PENDING"
      <4>1. rows[Created(o)] # "NONE"
        BY <3>1, RowsOf DEF OrdersInv, DeliveredIsSent
      <4>2. status[o] # "NONE"
        BY <4>1 DEF OrdersInv, RowsMatchOrders, RowsMatch
      <4>3. <<"outcome", o>> \notin said
        BY <3>1 DEF OrdersInv, StockInv
      <4>4. QED
        BY <4>2, <4>3 DEF OrdersInv, OutcomeInv
    <3>4. UNCHANGED <<status, fulfilment>>
      BY <2>4 DEF StockStep
    <3>5. CASE v = "order-confirmed"
      BY <2>4, <3>2, <3>3, <3>4, <3>5 DEF Stock!Decide, Life!Next, Life!Reserve
    <3>6. CASE v # "order-confirmed"
      BY <2>4, <3>4, <3>6 DEF Stock!Decide
    <3>7. QED
      BY <3>5, <3>6
  <2>5. ASSUME NEW o \in Orders, Stock!Release(o), StockStep
        PROVE  Life!Next
    <3>1. CancelRequested(o) \in asked /\ held[o] = "reserved"
      BY <2>5 DEF Stock!Release, CancelRequested
    <3>2. rows[CancelRequested(o)] # "NONE"
      BY <3>1, RowsOf DEF OrdersInv, DeliveredIsSent
    <3>3. status[o] \in {"CANCEL_PENDING", "CANCELLED"}
      BY <3>2 DEF OrdersInv, RowsMatchOrders, RowsMatch
    <3>4. status[o] = "CANCEL_PENDING"
      BY <3>1, <3>3 DEF OrdersInv, StatusTruthful
    <3>5. QED
      BY <2>5, <3>4 DEF Stock!Release, StockStep, Life!Next, Life!GiveBack
  <2>6. ASSUME NEW a \in Stock!Announcements, Stock!Announce(a), StockStep
        PROVE  UNCHANGED <<status, fulfilment, held>>
    BY <2>6 DEF Stock!Announce, StockStep
  <2>7. CASE StockStep
    BY <2>4, <2>5, <2>6, <2>7 DEF StockStep, Stock!Decision
  <2>8. ASSUME NEW c \in Consumers, Apply(c)
        PROVE  Life!Next
    <3>1. UNCHANGED <<fulfilment, held>>
      BY <2>8 DEF Apply
    <3>2. PICK p \in Orders :
            \/ /\ status[p] = "PENDING"
               /\ \/ /\ verdict[p] = "order-confirmed"
                     /\ status' = [status EXCEPT ![p] = "CONFIRMED"]
                  \/ /\ verdict[p] = "order-rejected"
                     /\ status' = [status EXCEPT ![p] = "REJECTED"]
            \/ /\ held[p] = "released" /\ status[p] = "CANCEL_PENDING"
               /\ status' = [status EXCEPT ![p] = "CANCELLED"]
      BY <2>8, ApplyDoes DEF OrdersInv
    <3>3. CASE verdict[p] = "order-confirmed" /\ status[p] = "PENDING"
               /\ status' = [status EXCEPT ![p] = "CONFIRMED"]
      <4>1. held[p] \in {"none", "reserved", "released"}
        BY DEF OrdersInv, TypeOK
      <4>2. held[p] # "none" /\ held[p] # "released"
        BY <3>3 DEF OrdersInv, StockInv, StatusTruthful
      <4>3. QED
        BY <3>1, <3>3, <4>1, <4>2 DEF Life!Next, Life!Confirm, Life!Become
    <3>4. CASE verdict[p] = "order-rejected" /\ status[p] = "PENDING"
               /\ status' = [status EXCEPT ![p] = "REJECTED"]
      <4>1. held[p] = "none"
        BY <3>4 DEF OrdersInv, StockInv
      <4>2. QED
        BY <3>1, <3>4, <4>1 DEF Life!Next, Life!Reject, Life!Become
    <3>5. CASE held[p] = "released" /\ status[p] = "CANCEL_PENDING"
               /\ status' = [status EXCEPT ![p] = "CANCELLED"]
      BY <3>1, <3>5 DEF Life!Next, Life!Cancel, Life!Become
    <3>6. QED
      BY <3>2, <3>3, <3>4, <3>5
  <2>9. ASSUME NEW e \in Rows, RelayStep(e) \/ RelayFails(e)
        PROVE  UNCHANGED <<status, fulfilment, held>>
    BY <2>9 DEF RelayStep, RelayRead, RelaySend, RelayMark, RelayFails
  <2>10. ASSUME NEW m \in Messages, FanOut(m) \/ Redrive(m)
         PROVE  UNCHANGED <<status, fulfilment, held>>
    BY <2>10 DEF FanOut, Redrive
  <2>11. ASSUME NEW c \in Consumers, Ignore(c) \/ Interrupt(c) \/ Acknowledge(c)
         PROVE  UNCHANGED <<status, fulfilment, held>>
    BY <2>11 DEF Ignore, Interrupt, Acknowledge
  <2>12. ASSUME NEW c \in Consumers, NEW m \in Messages, Receive(c, m)
         PROVE  UNCHANGED <<status, fulfilment, held>>
    BY <2>12 DEF Receive
  <2>13. CASE UNCHANGED vars
    BY <2>13 DEF vars
  <2>14. QED
    BY <2>1, <2>2, <2>3, <2>7, <2>8, <2>9, <2>10, <2>11, <2>12, <2>13
    DEF Next, ConsumerStep
<1>3. QED
  BY <1>1, <1>2, OrdersInvariant, PTL DEF Spec, LifecycleKept, Life!Spec, Life!vars

\* The Order Service sends commands as the Inventory Service's promise demands:
\* a cancellation only for an order that was announced as confirmed.
THEOREM UsesReservation == Spec => ReservationUsed
<1> USE DEF tableVars, relayVars, stockVars, queueVars, consumerVars
<1>1. Init => Stock!Init
  BY DEF Init
<1>2. OrdersInv /\ [Next]_vars => [Stock!Next]_stockVars
  <2> SUFFICES ASSUME OrdersInv, [Next]_vars
               PROVE  Stock!Next \/ UNCHANGED stockVars
    OBVIOUS
  <2>1. ASSUME NEW e \in Rows, RelaySend(e), e \in Commands, e \notin asked
        PROVE  Stock!Next
    <3>1. asked' = asked \cup {e} /\ UNCHANGED <<verdict, held, said>>
      BY <2>1 DEF RelaySend
    <3>2. e \in Stock!Requests
      BY <2>1 DEF Commands
    <3>3. ASSUME e[1] = "order-cancel-requested"
          PROVE  verdict[e[2]] = "order-confirmed" /\ <<"outcome", e[2]>> \in said
      <4>1. PICK o \in Orders : e = CancelRequested(o) /\ e[2] = o
        BY <3>2, <3>3 DEF Stock!Requests, CancelRequested
      <4>2. rows[e] # "NONE"
        BY <2>1 DEF RelaySend, OrdersInv, RelayInv
      <4>3. status[o] \in {"CANCEL_PENDING", "CANCELLED"}
        BY <4>1, <4>2 DEF OrdersInv, RowsMatchOrders, RowsMatch
      <4>4. QED
        BY <4>1, <4>3 DEF OrdersInv, StatusTruthful, OutcomeInv
    <3>4. Stock!Ask(e)
      BY <2>1, <3>1, <3>3 DEF Stock!Ask
    <3>5. QED
      BY <3>2, <3>4 DEF Stock!Next
  <2>2. ASSUME NEW e \in Rows, RelaySend(e), ~ (e \in Commands /\ e \notin asked)
        PROVE  UNCHANGED stockVars
    BY <2>2 DEF RelaySend
  <2>3. ASSUME NEW e \in Rows, RelayRead(e) \/ RelayMark(e) \/ RelayFails(e)
        PROVE  UNCHANGED stockVars
    BY <2>3 DEF RelayRead, RelayMark, RelayFails
  <2>4. CASE StockStep
    BY <2>4 DEF StockStep, Stock!Next
  <2>5. ASSUME NEW o \in Orders, PutWithCommand(o) \/ RequestCancellation(o)
        PROVE  UNCHANGED stockVars
    BY <2>5 DEF PutWithCommand, RequestCancellation
  <2>6. ASSUME NEW o \in Orders, NEW t \in Stages, SetFulfilment(o, t)
        PROVE  UNCHANGED stockVars
    BY <2>6 DEF SetFulfilment
  <2>7. ASSUME NEW m \in Messages, FanOut(m) \/ Redrive(m)
        PROVE  UNCHANGED stockVars
    BY <2>7 DEF FanOut, Redrive
  <2>8. ASSUME NEW c \in Consumers, Apply(c) \/ Ignore(c) \/ Interrupt(c) \/ Acknowledge(c)
        PROVE  UNCHANGED stockVars
    BY <2>8 DEF Apply, Ignore, Interrupt, Acknowledge
  <2>9. ASSUME NEW c \in Consumers, NEW m \in Messages, Receive(c, m)
        PROVE  UNCHANGED stockVars
    BY <2>9 DEF Receive
  <2>10. CASE UNCHANGED vars
    BY <2>10 DEF vars
  <2>11. QED
    BY <2>1, <2>2, <2>3, <2>4, <2>5, <2>6, <2>7, <2>8, <2>9, <2>10
    DEF Next, RelayStep, ConsumerStep
<1>3. QED
  BY <1>1, <1>2, OrdersInvariant, PTL DEF Spec, ReservationUsed, Stock!Spec, Stock!vars
=============================================================================
