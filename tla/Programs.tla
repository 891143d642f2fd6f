------------------------------ MODULE Programs ------------------------------
(***************************************************************************)
(* What a user program may expect of the system that runs it, until it     *)
(* ends: one instruction at a time, in order, on registers and memory of   *)
(* its own, whatever else runs in between, and every call to the kernel    *)
(* served before the next instruction.  It may end at any time: by EXIT,   *)
(* killed, or for a call the kernel refuses.  Nothing is promised of a     *)
(* process that has ended, which may run on, except that it disturbs no    *)
(* other.  Cpu implements this.                                            *)
(***************************************************************************)
EXTENDS Integers, Sequences

CONSTANTS
  Process,
  Program,   \* the instructions of each process
  Register, Page,
  Word       \* registers hold 0 .. Word - 1

VARIABLES
  at,        \* program counter of each process, from 0
  regs,      \* its registers
  mem,       \* its memory
  asking,    \* the call it waits for the kernel to serve, or "none"
  served,    \* the instruction of the last call served
  alive

Calls == {"SLEEP", "WAIT", "SIGNAL", "F_OPEN", "F_CLOSE", "F_SEEK",
          "F_TRUNCATE", "F_READ", "F_WRITE"}

Init ==
  /\ at = [p \in Process |-> 0]
  /\ regs = [p \in Process |-> [r \in Register |-> 0]]
  /\ mem = [p \in Process |-> [a \in Page |-> 0]]
  /\ asking = [p \in Process |-> "none"]
  /\ served = [p \in Process |-> -1]
  /\ alive = [p \in Process |-> TRUE]

Put(p, r, v) == regs' = [regs EXCEPT ![p][r] = v]

\* The effect of one instruction of p on its registers, memory and counter.
Effect(p, i) ==
  LET value == regs[p] IN
  /\ CASE i.op = "SET"    -> Put(p, i.to, i.value)
       [] i.op = "SUM"    -> Put(p, i.to, (value[i.to] + value[i.from]) % Word)
       [] i.op = "SUB"    -> Put(p, i.to, (value[i.to] - value[i.from]) % Word)
       [] i.op = "MOV_IN" -> Put(p, i.to, mem[p][i.page])
       [] OTHER           -> UNCHANGED regs
  /\ mem' = IF i.op = "MOV_OUT" THEN [mem EXCEPT ![p][i.page] = value[i.from]] ELSE mem
  /\ at' = [at EXCEPT ![p] = IF i.op = "JNZ" /\ value[i.from] # 0 THEN i.target ELSE @ + 1]
  /\ asking' = IF i.op \in Calls THEN [asking EXCEPT ![p] = i.op] ELSE asking

Step(p) ==
  /\ alive[p] /\ asking[p] = "none"
  /\ LET i == Program[p][at[p] + 1] IN i.op # "EXIT" /\ Effect(p, i)
  /\ UNCHANGED <<served, alive>>

Serve(p) ==
  /\ alive[p] /\ asking[p] # "none"
  /\ asking' = [asking EXCEPT ![p] = "none"]
  /\ served' = [served EXCEPT ![p] = at[p] - 1]
  /\ UNCHANGED <<at, regs, mem, alive>>

\* Killed, perhaps with a call the kernel has not served.
End(p) ==
  /\ alive[p]
  /\ alive' = [alive EXCEPT ![p] = FALSE]
  /\ asking' = [asking EXCEPT ![p] = "none"]
  /\ UNCHANGED <<at, regs, mem, served>>

\* The kernel serves a call by ending the process.
Refuse(p) ==
  /\ alive[p] /\ asking[p] # "none"
  /\ alive' = [alive EXCEPT ![p] = FALSE]
  /\ asking' = [asking EXCEPT ![p] = "none"]
  /\ served' = [served EXCEPT ![p] = at[p] - 1]
  /\ UNCHANGED <<at, regs, mem>>

\* Whatever happens to a process that has ended is its own affair.
Gone(p) ==
  /\ ~alive[p]
  /\ at' = [at EXCEPT ![p] = at'[p]]
  /\ regs' = [regs EXCEPT ![p] = regs'[p]]
  /\ mem' = [mem EXCEPT ![p] = mem'[p]]
  /\ asking' = [asking EXCEPT ![p] = asking'[p]]
  /\ served' = [served EXCEPT ![p] = served'[p]]
  /\ UNCHANGED alive

Next == \E p \in Process : Step(p) \/ Serve(p) \/ End(p) \/ Refuse(p) \/ Gone(p)
vars == <<at, regs, mem, asking, served, alive>>
Spec == Init /\ [][Next]_vars
=============================================================================
