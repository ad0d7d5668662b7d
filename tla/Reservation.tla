---------------------------- MODULE Reservation ----------------------------
(* What the Inventory Service promises the rest of the system about an     *)
(* order: one verdict, stock held exactly for confirmed orders until a     *)
(* requested cancellation gives it back once, and announcements that are   *)
(* true.  Inventory implements it; Orders is composed with it.             *)
CONSTANT Orders

VARIABLES
  asked,     \* commands the Inventory Service was sent
  verdict,   \* per order: "NONE", "order-confirmed" or "order-rejected"
  held,      \* per order: "none", "reserved" or "released"
  said       \* announcements SNS accepted

vars == <<asked, verdict, held, said>>

Requests == {"order-created", "order-cancel-requested"} \X Orders
Announcements == {"outcome", "cancelled"} \X Orders

Init ==
  /\ asked = {}
  /\ verdict = [o \in Orders |-> "NONE"]
  /\ held = [o \in Orders |-> "none"]
  /\ said = {}

\* A command arrives; cancellations are only requested for orders that were
\* announced as confirmed.
Ask(r) ==
  /\ r \notin asked
  /\ r[1] = "order-cancel-requested" =>
       verdict[r[2]] = "order-confirmed" /\ <<"outcome", r[2]>> \in said
  /\ asked' = asked \cup {r}
  /\ UNCHANGED <<verdict, held, said>>

\* process_order commits: the verdict is final, and stock is held iff it is
\* a confirmation.
Decide(o, v) ==
  /\ <<"order-created", o>> \in asked /\ verdict[o] = "NONE"
  /\ verdict' = [verdict EXCEPT ![o] = v]
  /\ held' = IF v = "order-confirmed" THEN [held EXCEPT ![o] = "reserved"] ELSE held
  /\ UNCHANGED <<asked, said>>

\* release_reservation commits.
Release(o) ==
  /\ <<"order-cancel-requested", o>> \in asked /\ held[o] = "reserved"
  /\ held' = [held EXCEPT ![o] = "released"]
  /\ UNCHANGED <<asked, verdict, said>>

\* SNS accepts an announcement of what is already committed.
Announce(e) ==
  /\ e \notin said
  /\ IF e[1] = "outcome" THEN verdict[e[2]] # "NONE" ELSE held[e[2]] = "released"
  /\ said' = said \cup {e}
  /\ UNCHANGED <<asked, verdict, held>>

Decision(o) == \E v \in {"order-confirmed", "order-rejected"} : Decide(o, v)

Next ==
  \/ \E r \in Requests : Ask(r)
  \/ \E o \in Orders : Decision(o) \/ Release(o)
  \/ \E e \in Announcements : Announce(e)

Spec == Init /\ [][Next]_vars
=============================================================================
