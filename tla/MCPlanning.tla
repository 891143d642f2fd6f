----------------------------- MODULE MCPlanning -----------------------------
(* Values of Planning's constants for TLC.                                   *)
EXTENDS Planning
CONSTANTS p1, p2

MCPriority == [p \in Process |-> IF p = p1 THEN 2 ELSE 1]
=============================================================================
