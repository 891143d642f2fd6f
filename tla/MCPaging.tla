------------------------------- MODULE MCPaging -------------------------------
(* One process of two pages and one of one page, over one or two frames.       *)
EXTENDS Paging
CONSTANTS p1, p2
MCDireccion == [p \in Process |-> IF p = p1 THEN {0, 3} ELSE {0}]
MCPageCount == [p \in Process |-> IF p = p1 THEN 2 ELSE 1]
=============================================================================
