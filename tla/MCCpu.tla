-------------------------------- MODULE MCCpu --------------------------------
(* Two small programs for Cpu.  Between them they hold every kind of           *)
(* instruction, a jump, registers that live across a call, a fault and an      *)
(* eviction, and a word of all ones (3), read where the registers that the     *)
(* failed read loses were saved before.                                        *)
EXTENDS Cpu
CONSTANTS p1, p2

Set(r, v) == [op |-> "SET", to |-> r, value |-> v]
Op(name, to, from) == [op |-> name, to |-> to, from |-> from]
Jnz(r, pc) == [op |-> "JNZ", from |-> r, target |-> pc]
In(r, a) == [op |-> "MOV_IN", to |-> r, page |-> a]
Out(a, r) == [op |-> "MOV_OUT", page |-> a, from |-> r]
Sys(name) == [op |-> name]

\* What is read in freed registers.
MCLeftover == {[r \in Register |-> 2]}

MCTimers == [p \in Process |-> IF p = p2 THEN 1 ELSE 0]
MCKills == [p \in Process |-> IF p = p1 THEN 1 ELSE 0]
MCPriority == [p \in Process |-> IF p = p1 THEN 2 ELSE 1]
MCProgram == [p \in Process |->
  IF p = p1
  THEN << Set("A", 3), Out(0, "A"), Sys("F_WRITE"), In("A", 0), Sys("EXIT") >>
  ELSE << Set("A", 1), Op("SUB", "B", "A"), Op("SUM", "A", "A"), Jnz("A", 5),
          Sys("EXIT"), Sys("WAIT"), Sys("EXIT") >>]

\* A program that runs for ever, with a call in its loop.
MCSpin == [p \in Process |-> << Set("A", 1), Sys("SIGNAL"), Jnz("A", 1), Sys("EXIT") >>]
=============================================================================
