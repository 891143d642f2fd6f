-------------------------------- MODULE MCFiles --------------------------------
(* Two workloads: three processes that open one file, and one process that     *)
(* resizes and writes two.                                                     *)
EXTENDS Files
CONSTANTS p1, p2, p3, f1, f2

MCCargas ==
  {[procesos |-> {p1, p2, p3}, archivos |-> {f}, modos |-> {"R", "W"}, abiertos |-> 2,
    tamanios |-> {}, punteros |-> {}, datos |-> FALSE, terminan |-> TRUE] : f \in File}
  \cup
  {[procesos |-> {p1}, archivos |-> File, modos |-> {"W"}, abiertos |-> 1,
    tamanios |-> {0, 2, 3}, punteros |-> {0, 3, 4}, datos |-> TRUE, terminan |-> FALSE]}

\* No action tells one file from another.
MCSimetria == Permutations(File)
=============================================================================
