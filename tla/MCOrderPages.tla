---------------------------- MODULE MCOrderPages ----------------------------
(* An order page with two orders; on the desk only the first is pushed.     *)
EXTENDS OrderPages, TLC
CONSTANTS o1, o2
const_Orders == {o1, o2}
const_MaxCalls == [detail |-> 3, list |-> 4, desk |-> 3]
const_MaxFaults == [detail |-> 1, list |-> 1, desk |-> 1]
const_MaxChanges == [detail |-> 2, list |-> 1, desk |-> 1]
const_Mine == {o1}
const_Start ==
  (o1 :> {[status |-> "PENDING", fulfilment |-> "NOT_STARTED"],
          [status |-> "CONFIRMED", fulfilment |-> "OUT_FOR_DELIVERY"]})
  @@ (o2 :> {[status |-> "CONFIRMED", fulfilment |-> "PACKING"]})
=============================================================================
