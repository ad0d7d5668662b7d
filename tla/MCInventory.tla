---------------------------- MODULE MCInventory ----------------------------
(* Small instances of Inventory: two orders that want the same two products *)
(* in opposite order, so that their transactions can wait for each other.   *)
EXTENDS Inventory

CONSTANTS o1, o2, pa, pb, c1, c2, r1, h1, h2, a1

MCLines == [o \in Orders |-> IF o = o1 THEN <<pa, pb>> ELSE <<pb, pa>>]
MCLinesSingle == [o \in Orders |-> <<pa>>]
MCQuantity == [o \in Orders |-> [x \in Products |-> IF o = o2 /\ x = pb THEN 2 ELSE 1]]
MCQuantityUneven == [o \in Orders |-> [x \in Products |-> IF o = o1 THEN 1 ELSE 2]]
MCStockTwo == [x \in Products |-> 2]
MCStock == [x \in Products |-> IF x = pa THEN 1 ELSE 3]
MCHost == [x \in Threads |-> IF x \in {c1, r1} THEN h1 ELSE h2]
=============================================================================
