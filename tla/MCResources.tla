----------------------------- MODULE MCResources -----------------------------
(* Values of Resources' constants for TLC.  The processes are symmetric.     *)
EXTENDS Resources
CONSTANTS r1, r2

MCMax == [r \in Resource |-> IF r = r1 THEN 1 ELSE 2]
MCOne == [r \in Resource |-> 1]
Symmetry == Permutations(Process)
=============================================================================
