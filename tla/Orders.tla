------------------------------- MODULE Orders -------------------------------
(* The Order Service of SmartRetailX around the saga: the orders table and  *)
(* its transactional outbox (DynamoDB), the stream Lambda that delivers     *)
(* outbox rows, the SNS topic and the order-events queue, and the           *)
(* compensation consumers that apply the outcomes.  The Inventory Service   *)
(* is its promise, Reservation.                                             *)
(*                                                                          *)
(* set_fulfilment and request_cancellation read the order before their      *)
(* transaction, but only for the reply and for fields of the outbox row     *)
(* that never change; the transaction's own conditions decide, so each is   *)
(* one step here.                                                           *)
EXTENDS Naturals, FiniteSets

CONSTANTS
  Orders,
  Consumers,   \* compensation threads of all order-service tasks
  Copies,      \* how often SNS and SQS may deliver one announcement
  MaxReceive,  \* maxReceiveCount of the order-events queue
  Shards,      \* records the stream mapping processes at a time
  MaxRetries,  \* maximum_retry_attempts of the stream mapping
  MaxFaults,   \* bound: infrastructure faults in a behaviour
  None

VARIABLES
  status, fulfilment,            \* the orders table ("NONE": no such order)
  rows,                          \* the order outbox table
  relay, tries,                  \* the stream Lambda, per outbox row
  notified,                      \* rows EventBridge accepted
  asked, verdict, held, said,    \* the Inventory Service's promise
  mail, receives,                \* the order-events queue and its DLQ
  pc, msg,                       \* the compensation consumers
  faults

Stock == INSTANCE Reservation
Life == INSTANCE OrderLifecycle

tableVars == <<status, fulfilment, rows>>
relayVars == <<relay, tries, notified>>
stockVars == <<asked, verdict, held, said>>
queueVars == <<mail, receives>>
consumerVars == <<pc, msg>>
vars == <<tableVars, relayVars, stockVars, queueVars, consumerVars, faults>>

Previous == [PACKING |-> "NOT_STARTED", DISPATCHED |-> "PACKING",
             OUT_FOR_DELIVERY |-> "DISPATCHED", DELIVERED |-> "OUT_FOR_DELIVERY"]
Stages == DOMAIN Previous
FulfilmentStatus == {"NOT_STARTED"} \cup Stages
OrderStatus == {"PENDING", "CONFIRMED", "REJECTED", "CANCEL_PENDING", "CANCELLED"}

\* Outbox rows by what they say of which order: the commands have SQS as their
\* destination, the fulfilment changes EventBridge.
Commands == Stock!Requests
Rows == Commands \cup (Stages \X Orders)
Created(o) == <<"order-created", o>>
CancelRequested(o) == <<"order-cancel-requested", o>>

Messages == Stock!Announcements \X (1..Copies)
EventType(m) == IF m[1][1] = "cancelled" THEN "order-cancelled" ELSE verdict[m[1][2]]
OrderOf(m) == m[1][2]

ASSUME OrdersAssumption ==
  /\ Copies \in Nat /\ MaxReceive \in Nat \ {0}
  /\ Shards \in Nat /\ MaxRetries \in Nat /\ MaxFaults \in Nat
  /\ None \notin Messages

TypeOK ==
  /\ status \in [Orders -> OrderStatus \cup {"NONE"}]
  /\ fulfilment \in [Orders -> FulfilmentStatus]
  /\ rows \in [Rows -> {"NONE", "PENDING", "DELIVERED"}]
  /\ relay \in [Rows -> {"waiting", "read", "sent", "done", "dlq"}]
  /\ tries \in [Rows -> 0..MaxRetries]
  /\ notified \subseteq Rows
  /\ asked \subseteq Commands
  /\ verdict \in [Orders -> {"NONE", "order-confirmed", "order-rejected"}]
  /\ held \in [Orders -> {"none", "reserved", "released"}]
  /\ said \subseteq Stock!Announcements
  /\ mail \in [Messages -> {"unsent", "queued", "deleted", "dlq"}]
  /\ receives \in [Messages -> 0..MaxReceive]
  /\ pc \in [Consumers -> {"idle", "apply", "ack"}]
  /\ msg \in [Consumers -> Messages \cup {None}]
  /\ faults \in 0..MaxFaults

Init ==
  /\ status = [o \in Orders |-> "NONE"]
  /\ fulfilment = [o \in Orders |-> "NOT_STARTED"]
  /\ rows = [e \in Rows |-> "NONE"]
  /\ relay = [e \in Rows |-> "waiting"]
  /\ tries = [e \in Rows |-> 0]
  /\ notified = {}
  /\ Stock!Init
  /\ mail = [m \in Messages |-> "unsent"]
  /\ receives = [m \in Messages |-> 0]
  /\ pc = [c \in Consumers |-> "idle"]
  /\ msg = [c \in Consumers |-> None]
  /\ faults = 0

Fault == faults < MaxFaults /\ faults' = faults + 1

----------------------------------------------------------------------------
(* The API: each accepted request is one DynamoDB transaction.             *)

\* An outbox row is put under attribute_not_exists(eventId).
PutRow(e) == rows[e] = "NONE" /\ rows' = [rows EXCEPT ![e] = "PENDING"]

\* put_with_command
PutWithCommand(o) ==
  /\ status[o] = "NONE"
  /\ status' = [status EXCEPT ![o] = "PENDING"]
  /\ PutRow(Created(o))
  /\ UNCHANGED <<fulfilment, relayVars, stockVars, queueVars, consumerVars, faults>>

\* Seeded mistake: the condition on the order's status is missing.
SetFulfilmentAnyStatus(o, t) ==
  /\ fulfilment[o] = Previous[t]
  /\ fulfilment' = [fulfilment EXCEPT ![o] = t]
  /\ PutRow(<<t, o>>)
  /\ UNCHANGED <<status, relayVars, stockVars, queueVars, consumerVars, faults>>

\* update_fulfilment and set_fulfilment; any other request for a target is
\* refused with 404, 409 or 422 and changes nothing.
SetFulfilment(o, t) ==
  /\ status[o] = "CONFIRMED" /\ fulfilment[o] = Previous[t]
  /\ fulfilment' = [fulfilment EXCEPT ![o] = t]
  /\ PutRow(<<t, o>>)
  /\ UNCHANGED <<status, relayVars, stockVars, queueVars, consumerVars, faults>>

\* Seeded mistake: the condition on the fulfilment stage is missing.
RequestCancellationAnyStage(o) ==
  /\ status[o] = "CONFIRMED"
  /\ status' = [status EXCEPT ![o] = "CANCEL_PENDING"]
  /\ PutRow(CancelRequested(o))
  /\ UNCHANGED <<fulfilment, relayVars, stockVars, queueVars, consumerVars, faults>>

\* Seeded mistake: an order that is still undecided can be cancelled too.
RequestCancellationUndecided(o) ==
  /\ status[o] \in {"PENDING", "CONFIRMED"}
  /\ fulfilment[o] \in {"NOT_STARTED", "PACKING"}
  /\ status' = [status EXCEPT ![o] = "CANCEL_PENDING"]
  /\ PutRow(CancelRequested(o))
  /\ UNCHANGED <<fulfilment, relayVars, stockVars, queueVars, consumerVars, faults>>

\* request_cancellation by the order's owner
RequestCancellation(o) ==
  /\ status[o] = "CONFIRMED" /\ fulfilment[o] \in {"NOT_STARTED", "PACKING"}
  /\ status' = [status EXCEPT ![o] = "CANCEL_PENDING"]
  /\ PutRow(CancelRequested(o))
  /\ UNCHANGED <<fulfilment, relayVars, stockVars, queueVars, consumerVars, faults>>

----------------------------------------------------------------------------
(* The stream Lambda: _process_record on the INSERT record of a row.       *)

\* Seeded mistake: the record's image is trusted, the row is not read again.
RelayReadStale(e) ==
  /\ rows[e] # "NONE" /\ relay[e] = "waiting"
  /\ Cardinality({f \in Rows : relay[f] \in {"read", "sent"}}) < Shards
  /\ relay' = [relay EXCEPT ![e] = "read"]
  /\ UNCHANGED <<tableVars, tries, notified, stockVars, queueVars, consumerVars, faults>>

\* The consistent read: a row that is DELIVERED is not sent again.
RelayRead(e) ==
  /\ rows[e] # "NONE" /\ relay[e] = "waiting"
  /\ Cardinality({f \in Rows : relay[f] \in {"read", "sent"}}) < Shards
  /\ relay' = [relay EXCEPT ![e] = IF rows[e] = "PENDING" THEN "read" ELSE "done"]
  /\ UNCHANGED <<tableVars, tries, notified, stockVars, queueVars, consumerVars, faults>>

\* send_message to the orders queue, or put_events on the event bus
RelaySend(e) ==
  /\ relay[e] = "read"
  /\ relay' = [relay EXCEPT ![e] = "sent"]
  /\ IF e \in Commands
     THEN asked' = asked \cup {e} /\ UNCHANGED notified
     ELSE notified' = notified \cup {e} /\ UNCHANGED asked
  /\ UNCHANGED <<tableVars, tries, verdict, held, said, queueVars, consumerVars, faults>>

\* The conditional update PENDING -> DELIVERED.
RelayMark(e) ==
  /\ relay[e] = "sent" /\ rows[e] = "PENDING"
  /\ rows' = [rows EXCEPT ![e] = "DELIVERED"]
  /\ relay' = [relay EXCEPT ![e] = "done"]
  /\ UNCHANGED <<status, fulfilment, tries, notified, stockVars, queueVars,
                 consumerVars, faults>>

\* Seeded mistake: the exception is logged and not reported as a batch failure.
RelayFailsUnreported(e) ==
  /\ relay[e] \in {"read", "sent", "done"} /\ Fault
  /\ relay' = [relay EXCEPT ![e] = "done"]
  /\ UNCHANGED <<tableVars, tries, notified, stockVars, queueVars, consumerVars>>

\* The attempt ends in an exception or a timeout, before or after its effect, or
\* an earlier record of its batch fails: the record is retried, in the end it
\* goes to the publisher's DLQ.
RelayFails(e) ==
  /\ relay[e] \in {"read", "sent", "done"} /\ Fault
  /\ IF tries[e] < MaxRetries
     THEN /\ tries' = [tries EXCEPT ![e] = @ + 1]
          /\ relay' = [relay EXCEPT ![e] = "waiting"]
     ELSE relay' = [relay EXCEPT ![e] = "dlq"] /\ UNCHANGED tries
  /\ UNCHANGED <<tableVars, notified, stockVars, queueVars, consumerVars>>

RelayStep(e) == RelayRead(e) \/ RelaySend(e) \/ RelayMark(e)

----------------------------------------------------------------------------
(* The Inventory Service decides, releases and announces; SNS fans out to   *)
(* the order-events queue, at least once and in any order.                  *)

StockStep ==
  /\ \/ \E o \in Orders : Stock!Decision(o) \/ Stock!Release(o)
     \/ \E e \in Stock!Announcements : Stock!Announce(e)
  /\ UNCHANGED <<tableVars, relayVars, queueVars, consumerVars, faults>>

FanOut(m) ==
  /\ m[1] \in said /\ mail[m] = "unsent"
  /\ mail' = [mail EXCEPT ![m] = "queued"]
  /\ UNCHANGED <<tableVars, relayVars, stockVars, receives, consumerVars, faults>>

FirstFanOut(e) ==
  /\ \A i \in 1..Copies : mail[<<e, i>>] = "unsent"
  /\ \E i \in 1..Copies : FanOut(<<e, i>>)

\* The redrive policy of the order-events queue.
Redrive(m) ==
  /\ mail[m] = "queued" /\ receives[m] = MaxReceive
  /\ mail' = [mail EXCEPT ![m] = "dlq"]
  /\ UNCHANGED <<tableVars, relayVars, stockVars, receives, consumerVars, faults>>

----------------------------------------------------------------------------
(* The compensation consumer.                                              *)

Goto(c, label) == pc' = [pc EXCEPT ![c] = label]
Return(c) == Goto(c, "idle") /\ msg' = [msg EXCEPT ![c] = None]

\* poll_once; another consumer may hold the message too (visibility timeout).
Receive(c, m) ==
  /\ pc[c] = "idle" /\ mail[m] = "queued" /\ receives[m] < MaxReceive
  /\ receives' = [receives EXCEPT ![m] = @ + 1]
  /\ Goto(c, "apply") /\ msg' = [msg EXCEPT ![c] = m]
  /\ UNCHANGED <<tableVars, relayVars, stockVars, mail, faults>>

\* The status an event applies to, and the one it leads to.
StatusForEvent == [type \in {"order-confirmed", "order-rejected", "order-cancelled"} |->
  CASE type = "order-confirmed" -> "CONFIRMED"
    [] type = "order-rejected"  -> "REJECTED"
    [] type = "order-cancelled" -> "CANCELLED"]

ExpectedStatus(m) == IF EventType(m) = "order-cancelled" THEN "CANCEL_PENDING" ELSE "PENDING"

\* Seeded mistake: set_status without its condition on the present status.
ApplyAlways(c) ==
  /\ pc[c] = "apply"
  /\ LET m == msg[c] IN
     status' = [status EXCEPT ![OrderOf(m)] = StatusForEvent[EventType(m)]]
  /\ Goto(c, "ack") /\ UNCHANGED msg
  /\ UNCHANGED <<fulfilment, rows, relayVars, stockVars, queueVars, faults>>

\* set_status: the conditional update holds.
Apply(c) ==
  /\ pc[c] = "apply"
  /\ LET m == msg[c] IN
     /\ status[OrderOf(m)] = ExpectedStatus(m)
     /\ status' = [status EXCEPT ![OrderOf(m)] = StatusForEvent[EventType(m)]]
  /\ Goto(c, "ack") /\ UNCHANGED msg
  /\ UNCHANGED <<fulfilment, rows, relayVars, stockVars, queueVars, faults>>

\* The condition fails and the order is there: OrderNotPending, a duplicate or
\* late delivery, acknowledged.
Ignore(c) ==
  /\ pc[c] = "apply"
  /\ status[OrderOf(msg[c])] \notin {"NONE", ExpectedStatus(msg[c])}
  /\ Goto(c, "ack") /\ UNCHANGED msg
  /\ UNCHANGED <<tableVars, relayVars, stockVars, queueVars, faults>>

\* A call raises (or the order is not found by the eventually consistent read),
\* or the task dies, before or after the update: the message is not deleted.
Interrupt(c) ==
  /\ pc[c] \in {"apply", "ack"} /\ Fault
  /\ Return(c)
  /\ UNCHANGED <<tableVars, relayVars, stockVars, queueVars>>

\* delete_message
Acknowledge(c) ==
  /\ pc[c] = "ack"
  /\ mail' = [mail EXCEPT ![msg[c]] = IF @ = "queued" THEN "deleted" ELSE @]
  /\ Return(c)
  /\ UNCHANGED <<tableVars, relayVars, stockVars, receives, faults>>

ConsumerStep(c) ==
  \/ \E m \in Messages : Receive(c, m)
  \/ Apply(c) \/ Ignore(c) \/ Acknowledge(c)

Next ==
  \/ \E o \in Orders : \/ PutWithCommand(o) \/ RequestCancellation(o)
                       \/ \E t \in Stages : SetFulfilment(o, t)
  \/ \E e \in Rows : RelayStep(e) \/ RelayFails(e)
  \/ StockStep
  \/ \E m \in Messages : FanOut(m) \/ Redrive(m)
  \/ \E c \in Consumers : ConsumerStep(c) \/ Interrupt(c)

Spec == Init /\ [][Next]_vars

\* The stream is read, the queue delivers, the consumers poll.  Nothing makes a
\* customer, an operator or the Inventory Service act.
Fairness ==
  /\ \A e \in Rows : WF_vars(RelayStep(e))
  /\ \A e \in Stock!Announcements : WF_vars(FirstFanOut(e))
  /\ \A c \in Consumers : WF_vars(ConsumerStep(c))
  /\ WF_vars(\E m \in Messages : Redrive(m))

FairSpec == Spec /\ Fairness

----------------------------------------------------------------------------
\* Stock of an order that left the warehouse stays reserved for it: no race of
\* an operator's dispatch, the owner's cancellation and a late saga event gives
\* it back to the shelf or takes the order out of CONFIRMED.
ShippedStockHeld ==
  \A o \in Orders : fulfilment[o] \in {"DISPATCHED", "OUT_FOR_DELIVERY", "DELIVERED"}
    => status[o] = "CONFIRMED" /\ held[o] = "reserved"

\* What the customer reads is what the Inventory Service decided, whatever is
\* duplicated, late or reordered; an order in CANCELLED has its stock given back
\* and a REJECTED one never held any.
StatusTruthful ==
  \A o \in Orders :
    /\ status[o] \in {"CONFIRMED", "CANCEL_PENDING", "CANCELLED"} =>
         verdict[o] = "order-confirmed"
    /\ status[o] = "REJECTED" => verdict[o] = "order-rejected" /\ held[o] = "none"
    /\ status[o] = "CANCELLED" => held[o] = "released"
    /\ held[o] = "released" => status[o] \in {"CANCEL_PENDING", "CANCELLED"}

\* The order of the delivery stages.
Rank == [NOT_STARTED |-> 0, PACKING |-> 1, DISPATCHED |-> 2,
         OUT_FOR_DELIVERY |-> 3, DELIVERED |-> 4]

\* The outbox rows of an order are those of what it went through.
RowsMatch(o) ==
  /\ rows[Created(o)] # "NONE" <=> status[o] # "NONE"
  /\ rows[CancelRequested(o)] # "NONE" <=> status[o] \in {"CANCEL_PENDING", "CANCELLED"}
  /\ \A t \in Stages : rows[<<t, o>>] # "NONE" <=> Rank[t] <= Rank[fulfilment[o]]

\* An accepted state is never missing its outbox row, and no row is ever written
\* without it ("an accepted delivery state can never be missing its
\* notification record").
RowsMatchOrders == \A o \in Orders : RowsMatch(o)

\* A row is DELIVERED only when its destination has it, and destinations get
\* committed rows only.
DeliveredIsSent ==
  \A e \in Rows : /\ rows[e] = "DELIVERED" => e \in asked \cup notified
                  /\ e \in asked \cup notified => rows[e] # "NONE"

\* The order shows what the announcement says.
Applied(m) == IF m[1][1] = "cancelled" THEN status[OrderOf(m)] = "CANCELLED"
                                       ELSE status[OrderOf(m)] \notin {"NONE", "PENDING"}

\* A saga event is deleted from the queue only when the order shows it.
AckedIsApplied == \A m \in Messages : mail[m] = "deleted" => Applied(m)

\* What the composition knows about the Inventory Service.
StockInv ==
  \A o \in Orders :
    /\ verdict[o] # "NONE" => Created(o) \in asked
    /\ held[o] = "none" <=> verdict[o] # "order-confirmed"
    /\ held[o] = "released" => CancelRequested(o) \in asked
    /\ <<"outcome", o>> \in said => verdict[o] # "NONE"
    /\ <<"cancelled", o>> \in said => held[o] = "released"

\* An order leaves PENDING only by an announced outcome, and delivery starts
\* only after that.
OutcomeInv ==
  \A o \in Orders :
    /\ status[o] \notin {"NONE", "PENDING"} => <<"outcome", o>> \in said
    /\ status[o] \notin {"CONFIRMED", "CANCEL_PENDING", "CANCELLED"} =>
         fulfilment[o] = "NOT_STARTED"

\* Only committed, undelivered rows are in the stream Lambda's hands.
RelayInv ==
  \A e \in Rows :
    /\ relay[e] \in {"read", "sent"} => rows[e] = "PENDING"
    /\ relay[e] = "sent" => e \in asked \cup notified

\* Deliveries are of announcements, and "ack" is reached by applied ones.
DeliveryInv ==
  /\ \A m \in Messages : mail[m] # "unsent" => m[1] \in said
  /\ \A c \in Consumers : pc[c] # "idle" =>
       /\ msg[c] \in Messages /\ mail[msg[c]] # "unsent"
       /\ pc[c] = "ack" => Applied(msg[c])

\* The inductive invariant: what customers, operators and the queues see is
\* backed by what the Inventory Service committed.
OrdersInv ==
  /\ TypeOK /\ StockInv /\ OutcomeInv /\ RelayInv /\ DeliveryInv
  /\ ShippedStockHeld /\ StatusTruthful /\ RowsMatchOrders
  /\ DeliveredIsSent /\ AckedIsApplied

\* Status, fulfilment and stock of every order move as OrderLifecycle says.
LifecycleKept == Life!Spec

\* The Order Service uses the Inventory Service as its promise demands: each
\* command once as far as it can tell, and no cancellation before a confirmation.
ReservationUsed == Stock!Spec

\* An outcome that was announced reaches the order, or is in the DLQ.
OutcomeApplied ==
  \A o \in Orders :
    <<"outcome", o>> \in said ~>
      \/ status[o] # "PENDING"
      \/ \E i \in 1..Copies : mail[<<<<"outcome", o>>, i>>] = "dlq"

\* A release that was announced completes the cancellation, or is in the DLQ.
CancellationApplied ==
  \A o \in Orders :
    <<"cancelled", o>> \in said ~>
      \/ status[o] = "CANCELLED"
      \/ \E i \in 1..Copies : mail[<<<<"cancelled", o>>, i>>] = "dlq"

\* What the Inventory Service announces reaches the order, or waits in the DLQ: the
\* compensation consumer deletes no event it has not applied, whatever interrupts it.
EventsApplied == OutcomeApplied /\ CancellationApplied

\* Every outbox row is delivered, or its record is in the publisher's DLQ.
RowDelivered ==
  \A e \in Rows : rows[e] = "PENDING" ~> rows[e] = "DELIVERED" \/ relay[e] = "dlq"

\* Nothing is stranded between the two services: what either has committed and
\* announced takes effect in the other, or lies in a dead-letter queue.
NothingStranded == EventsApplied /\ RowDelivered
=============================================================================
