------------------------------ MODULE Admission ------------------------------
(***************************************************************************)
(* What the degree of multiprogramming promises (abstract specification):  *)
(* processes are admitted in the order they were created, never more at a  *)
(* time than the limit, and the limit only shrinks by capacity nobody is   *)
(* using.  Planning implements it as long as no process is killed.         *)
(***************************************************************************)
EXTENDS Integers, FiniteSets, Sequences, SequencesExt

CONSTANT Process

VARIABLES
  arrived,    \* created processes, oldest first
  admitted,   \* processes using a unit of the limit
  limit       \* the degree of multiprogramming

admissionVars == <<arrived, admitted, limit>>

Arrive(p) ==
  /\ arrived' = Append(arrived, p)
  /\ UNCHANGED <<admitted, limit>>

Admit ==
  /\ arrived # <<>> /\ Cardinality(admitted) < limit
  /\ arrived' = Tail(arrived)
  /\ admitted' = admitted \cup {Head(arrived)}
  /\ UNCHANGED limit

Leave(p) ==
  /\ admitted' = admitted \ {p}
  /\ UNCHANGED <<arrived, limit>>

RaiseLimit ==
  /\ limit' = limit + 1
  /\ UNCHANGED <<arrived, admitted>>

LowerLimit ==
  /\ Cardinality(admitted) < limit
  /\ limit' = limit - 1
  /\ UNCHANGED <<arrived, admitted>>

AdmissionInit == arrived = <<>> /\ admitted = {} /\ limit \in Nat \ {0}

AdmissionNext ==
  \/ \E p \in Process : Arrive(p) \/ Leave(p)
  \/ Admit \/ RaiseLimit \/ LowerLimit

AdmissionSpec == AdmissionInit /\ [][AdmissionNext]_admissionVars
=============================================================================
