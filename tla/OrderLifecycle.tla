--------------------------- MODULE OrderLifecycle ---------------------------
(* What customers and operators may rely on about an order: its status, its *)
(* fulfilment and the stock it holds move together.  Orders implements it.  *)
CONSTANT Orders

VARIABLES
  status,      \* "NONE" before the order is placed, then its OrderStatus
  fulfilment,  \* FulfilmentStatus
  held         \* stock of the order: "none", "reserved" or "released"

vars == <<status, fulfilment, held>>

\* The delivery stages, each with the one before it.
Previous == [PACKING |-> "NOT_STARTED", DISPATCHED |-> "PACKING",
             OUT_FOR_DELIVERY |-> "DISPATCHED", DELIVERED |-> "OUT_FOR_DELIVERY"]
Stages == DOMAIN Previous
Cancellable == {"NOT_STARTED", "PACKING"}

Init ==
  /\ status = [o \in Orders |-> "NONE"]
  /\ fulfilment = [o \in Orders |-> "NOT_STARTED"]
  /\ held = [o \in Orders |-> "none"]

Become(o, from, to) == status[o] = from /\ status' = [status EXCEPT ![o] = to]

Place(o) == Become(o, "NONE", "PENDING") /\ UNCHANGED <<fulfilment, held>>

\* Stock is reserved for an undecided order only ...
Reserve(o) ==
  /\ status[o] = "PENDING" /\ held[o] = "none"
  /\ held' = [held EXCEPT ![o] = "reserved"]
  /\ UNCHANGED <<status, fulfilment>>

\* ... confirmed orders have it, rejected ones do not.
Confirm(o) ==
  /\ held[o] = "reserved"
  /\ Become(o, "PENDING", "CONFIRMED") /\ UNCHANGED <<fulfilment, held>>

Reject(o) ==
  /\ held[o] = "none"
  /\ Become(o, "PENDING", "REJECTED") /\ UNCHANGED <<fulfilment, held>>

\* Delivery goes through its stages one by one, for confirmed orders.
Advance(o, t) ==
  /\ status[o] = "CONFIRMED" /\ fulfilment[o] = Previous[t]
  /\ fulfilment' = [fulfilment EXCEPT ![o] = t]
  /\ UNCHANGED <<status, held>>

RequestCancel(o) ==
  /\ fulfilment[o] \in Cancellable
  /\ Become(o, "CONFIRMED", "CANCEL_PENDING") /\ UNCHANGED <<fulfilment, held>>

\* Stock goes back only for an order that is being cancelled, and the order is
\* cancelled only once it has.
GiveBack(o) ==
  /\ status[o] = "CANCEL_PENDING" /\ held[o] = "reserved"
  /\ held' = [held EXCEPT ![o] = "released"]
  /\ UNCHANGED <<status, fulfilment>>

Cancel(o) ==
  /\ held[o] = "released"
  /\ Become(o, "CANCEL_PENDING", "CANCELLED") /\ UNCHANGED <<fulfilment, held>>

Next == \E o \in Orders :
  \/ Place(o) \/ Reserve(o) \/ Confirm(o) \/ Reject(o)
  \/ \E t \in Stages : Advance(o, t)
  \/ RequestCancel(o) \/ GiveBack(o) \/ Cancel(o)

Spec == Init /\ [][Next]_vars
=============================================================================
