---------------------------- MODULE MCOrderKeys ----------------------------
(* Small instances of OrderKeys: three requests with one body and one that  *)
(* reuses the key with another.                                             *)
EXTENDS OrderKeys

CONSTANTS r1, r2, r3, r4, x, y

Mixed == [r \in {r1, r2, r3, r4} |-> IF r = r2 THEN y ELSE x]
Same  == [r \in {r1, r2, r3, r4} |-> x]
=============================================================================
