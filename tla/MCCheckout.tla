----------------------------- MODULE MCCheckout -----------------------------
(* Two tabs, two products, two checkouts.                                   *)
EXTENDS Checkout
CONSTANTS t1, t2, pa, pb
=============================================================================
