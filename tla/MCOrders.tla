------------------------------ MODULE MCOrders ------------------------------
(* Small instances of Orders.                                               *)
EXTENDS Orders, TLC

CONSTANTS o1, o2, c1, c2

Symmetry == Permutations({c1, c2}) \cup Permutations({o1, o2})
=============================================================================
