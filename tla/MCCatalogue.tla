---------------------------- MODULE MCCatalogue ----------------------------
(* One product, two tasks.                                                  *)
EXTENDS Catalogue, TLC
CONSTANTS pa, pb, t1, t2, h1, h2, h3
Twins == Permutations(Tasks)
=============================================================================
