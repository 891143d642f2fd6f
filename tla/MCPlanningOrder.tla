--------------------------- MODULE MCPlanningOrder ---------------------------
(* Three processes, the first the least urgent: two more urgent ones may      *)
(* become ready while it runs.                                                *)
EXTENDS Planning
CONSTANTS p1, p2, p3

MCPriority == [p \in Process |-> CASE p = p1 -> 3 [] p = p2 -> 1 [] OTHER -> 2]
=============================================================================
