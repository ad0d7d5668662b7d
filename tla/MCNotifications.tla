--------------------------- MODULE MCNotifications ---------------------------
(* A task's consumer and relay; the first announcement is delivered twice.  *)
EXTENDS Notifications
CONSTANTS c1, r1
MCCopies == [m \in Messages |-> IF m = 1 THEN 2 ELSE 1]
=============================================================================
