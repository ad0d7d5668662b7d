---------------------------- MODULE MCPromotions ----------------------------
(* Small instances of Promotions: two windows that meet, so that an update   *)
(* can bring a promotion forward, extend it or end it.                       *)
EXTENDS Promotions

CONSTANTS p1, p2, a1, a2, t1, t2

MCWindows == {[starts |-> 0, ends |-> 1], [starts |-> 1, ends |-> 2], [starts |-> 0, ends |-> 2]}
=============================================================================
