------------------------------- MODULE FileStore -------------------------------
(***************************************************************************)
(* What the filesystem promises: a file is a sequence of blocks of its     *)
(* own.  It is created empty, it grows and shrinks at the end, and a write *)
(* changes one block of one file.  A file that grows may find anything in  *)
(* its new blocks.                                                         *)
(***************************************************************************)
EXTENDS Naturals, Sequences

CONSTANTS File, Data, MaxLen, NoFile

VARIABLE data     \* of each file, NoFile until it is created

Init == data = [f \in File |-> NoFile]

Create(f) ==
  /\ data[f] = NoFile
  /\ data' = [data EXCEPT ![f] = <<>>]

Resize(f) ==
  /\ data[f] # NoFile /\ data'[f] # NoFile
  /\ \E n \in 0 .. MaxLen : data'[f] \in [1 .. n -> Data]
  /\ \A i \in DOMAIN data[f] \cap DOMAIN data'[f] : data'[f][i] = data[f][i]
  /\ data' = [data EXCEPT ![f] = data'[f]]

Write(f) ==
  /\ data[f] # NoFile
  /\ \E i \in DOMAIN data[f], d \in Data : data' = [data EXCEPT ![f][i] = d]

Next == \E f \in File : Create(f) \/ Resize(f) \/ Write(f)
Spec == Init /\ [][Next]_data
=============================================================================
