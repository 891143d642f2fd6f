------------------------------ MODULE CpuProofs ------------------------------
(***************************************************************************)
(* What the CPU guarantees, for every program, every set of processes and  *)
(* every number of timers, kills and queued interruptions: the interrupt   *)
(* slot serves the process it was filled for, once; no context leaves its  *)
(* program; and Cpu implements Programs, step by step, for every process   *)
(* that has not ended.  A process that was killed and made ready again is  *)
(* followed as well: it keeps its memory and its pid to itself.            *)
(***************************************************************************)
EXTENDS Cpu, TLAPS

USE DEF None, pcbVars, stpVars, consoleVars

\* The steps of the planner's thread other than the handling of a reply.
PlannerMoves == Send \/ Leave \/ Requeue \/ WriteStatus \/ Free
                \/ (\E p \in Process : Pick(p))

LEMMA PlannerSplit == Planner <=> PlannerMoves \/ Handle
  BY DEF Planner, PlannerMoves

\* Whatever the reply says, it is taken, and the handler goes on.
LEMMA HandleReceives ==
  Handle => \E next \in {"enqueue", "block", "free"} : Receive(next)
<1> SUFFICES ASSUME Handle PROVE \E next \in {"enqueue", "block", "free"} : Receive(next)
  OBVIOUS
<1>1. CASE Evicted
  BY <1>1 DEF Evicted
<1>2. CASE CallBlocks
  BY <1>2 DEF CallBlocks
<1>3. CASE CallDone
  BY <1>3 DEF CallDone
<1>4. CASE Exited \/ PageFaulted \/ CallContinues \/ CallRefused \/ WriteInvalid \/ UnknownReason
  BY <1>4 DEF Exited, PageFaulted, CallContinues, CallRefused, WriteInvalid, UnknownReason
<1> QED BY <1>1, <1>2, <1>3, <1>4 DEF Handle

\* The kernel touches neither the cycle of the CPU nor its slot.
LEMMA CycleAlone ==
  ASSUME Planner \/ Console \/ World PROVE UNCHANGED <<cycleVars, slotVars>>
<1>1. CASE PlannerMoves
  BY <1>1 DEF PlannerMoves, Send, Leave, Requeue, WriteStatus, Free, Pick
<1>2. CASE Handle
  BY <1>2, HandleReceives DEF Receive
<1>3. CASE Console
  BY <1>3 DEF Console, KillJudge, KillQueued, KillRemoves, KillExits
<1>4. CASE World
  BY <1>4 DEF World, Quantum, KillFind, Unblock, WriteReady
<1> QED BY <1>1, <1>2, <1>3, <1>4, PlannerSplit

------------------------------------------------------------------------------
(* EvictedOnce: a slot that ended a burst is emptied before the next.       *)

SpentInv == (spent => cpu = "reset") /\ ~reused

LEMMA SpentStep == SpentInv /\ [Next]_vars => SpentInv'
<1> SUFFICES ASSUME SpentInv, [Next]_vars PROVE SpentInv'
  OBVIOUS
<1>1. CASE UNCHANGED <<cpu, spent, reused>>
  BY <1>1 DEF SpentInv
<1>2. CASE Planner \/ Console \/ World
  <2>1. UNCHANGED <<cpu, spent, reused>>
    BY <1>2, CycleAlone DEF cycleVars, slotVars
  <2> QED BY <2>1, <1>1
<1>4. CASE Start
  BY <1>4 DEF SpentInv, Start, slotVars
<1>5. CASE Execute
  <2>1. cpu = "run" /\ UNCHANGED <<spent, reused>>
    BY <1>5 DEF Execute, Compute, Jump, Call, Fault, MovIn, MovOut, FileCall,
       Exit, Executing, slotVars
  <2> QED BY <2>1 DEF SpentInv
<1>6. CASE CheckInterrupt
  \* An interruption of its own ends the burst even when the reason the
  \* instruction gave is the one that is sent.
  <2>1. ~spent
    BY <1>6 DEF SpentInv, CheckInterrupt
  <2>2. CASE interrupcion.pid = ctx.pid
    <3>1. cpu' = "reset"
      BY <1>6, <2>2 DEF CheckInterrupt, EndCycle
    <3>2. ~reused'
      BY <1>6, <2>1 DEF CheckInterrupt, SpentInv
    <3> QED BY <3>1, <3>2 DEF SpentInv
  <2>3. CASE interrupcion.pid # ctx.pid
    BY <1>6, <2>1, <2>3 DEF CheckInterrupt, SpentInv
  <2> QED BY <2>2, <2>3
<1>7. CASE Reset
  BY <1>7 DEF SpentInv, Reset
<1>8. CASE Deliver
  BY <1>8 DEF SpentInv, Deliver
<1>9. CASE UNCHANGED vars
  BY <1>9, <1>1 DEF vars, cycleVars, slotVars
<1> QED
  BY <1>2, <1>4, <1>5, <1>6, <1>7, <1>8, <1>9 DEF Next, Cpu

\* No interruption ends two bursts of a process (reiniciar_flag_interrupcion).
THEOREM NoSecondEviction == Spec => []EvictedOnce
<1>1. Init => SpentInv
  BY DEF Init, SpentInv
<1>2. SpentInv => EvictedOnce
  BY DEF SpentInv, EvictedOnce
<1> QED BY <1>1, <1>2, SpentStep, PTL DEF Spec

------------------------------------------------------------------------------
(* OnlyOwnInterruption.  An interruption was asked for when it was queued,  *)
(* and stays so in the socket, in the slot and in the context it ends.      *)

AskedOK == asked \in [Process -> SUBSET Interrupts]

\* i is an interruption that was queued.
WasAsked(i) ==
  /\ i \in [pid : Process, motivo : Interrupts]
  /\ i.motivo \in asked[i.pid]

QueueOK ==
  /\ interruptions \in Seq([pid : Process, motivo : Interrupts])
  /\ \A n \in 1 .. Len(interruptions) : WasAsked(interruptions[n])
SlotOK == interrupcion = NoInterrupt \/ WasAsked(interrupcion)

\* The planner sends, the CPU runs and the console kills a process that exists.
PlannerOK ==
  /\ actual \in Process \cup {NoProcess} /\ killing \in Process \cup {NoProcess}
  /\ stp \in {"ready", "loop", "cpu", "enqueue", "write", "block", "free"}
  /\ stp # "ready" => actual \in Process
  /\ console \in {"idle", "found", "interrupt", "remove", "exit"}
  /\ console # "idle" => killing \in Process
DispatchOK ==
  dispatch # NoContext => "pid" \in DOMAIN dispatch /\ dispatch.pid \in Process

\* Until the slot is looked at, no burst ends with the reason of an interruption.
CycleOK ==
  cpu \in {"run", "check"} =>
    "pid" \in DOMAIN ctx /\ ctx.pid \in Process /\ exit_code \notin Interrupts
ReplyOK ==
  reply.reason \in Interrupts =>
    reply.ctx.pid \in Process /\ reply.reason \in asked[reply.ctx.pid]

OwnInv == /\ AskedOK /\ QueueOK /\ SlotOK /\ PlannerOK /\ DispatchOK
          /\ CycleOK /\ ReplyOK

\* What is queued was asked for, and nothing asked for is forgotten.
LEMMA QueuedWasAsked ==
  ASSUME AskedOK, QueueOK, NEW p \in Process, NEW r \in Interrupts,
         interruptions' = Append(interruptions, [pid |-> p, motivo |-> r]),
         asked' = [asked EXCEPT ![p] = @ \cup {r}]
  PROVE  /\ AskedOK' /\ QueueOK'
         /\ \A q \in Process : asked[q] \subseteq asked'[q]
<1>1. AskedOK' /\ \A q \in Process : asked[q] \subseteq asked'[q]
  BY DEF AskedOK
<1>2. r \in asked'[p]
  BY DEF AskedOK
<1>3. interruptions' \in Seq([pid : Process, motivo : Interrupts])
  BY DEF QueueOK
<1>4. ASSUME NEW n \in 1 .. Len(interruptions') PROVE WasAsked(interruptions[n])'
  <2>1. CASE n \in 1 .. Len(interruptions)
    <3>1. interruptions'[n] = interruptions[n] /\ WasAsked(interruptions[n])
      BY <2>1 DEF QueueOK
    <3> QED BY <3>1, <1>1 DEF WasAsked
  <2>2. CASE n = Len(interruptions) + 1
    <3>1. interruptions'[n] = [pid |-> p, motivo |-> r]
      BY <2>2 DEF QueueOK
    <3> QED BY <3>1, <1>2 DEF WasAsked
  <2> QED BY <1>4, <2>1, <2>2 DEF QueueOK
<1> QED BY <1>1, <1>3, <1>4 DEF QueueOK

Kept == /\ AskedOK' /\ QueueOK'
        /\ \A q \in Process : asked[q] \subseteq asked'[q]

LEMMA UnqueuedKept ==
  ASSUME AskedOK, QueueOK, UNCHANGED queueVars PROVE Kept
  BY DEF Kept, AskedOK, QueueOK, WasAsked, queueVars

LEMMA InterruptKept ==
  ASSUME AskedOK, QueueOK, NEW p \in Process, NEW r \in Interrupts, Interrupt(p, r)
  PROVE  Kept
  BY QueuedWasAsked, UnqueuedKept DEF Interrupt, Kept

LEMMA EnqueueKept ==
  ASSUME AskedOK, QueueOK, PlannerOK, NEW p \in Process, Enqueue(p)
  PROVE  Kept
<1>1. CASE UNCHANGED queueVars
  BY <1>1, UnqueuedKept
<1>2. CASE actual # NoProcess /\ Interrupt(actual, "PROC_EXIT_PRIORITY")
  <2>1. actual \in Process /\ "PROC_EXIT_PRIORITY" \in Interrupts
    BY <1>2 DEF PlannerOK, Interrupts, Evictions
  <2> QED BY <1>2, <2>1, InterruptKept
<1> QED BY <1>1, <1>2 DEF Enqueue

\* The slot and the reply stay good while nothing touches them.
LEMMA SlotKept ==
  ASSUME AskedOK, SlotOK, Kept, UNCHANGED interrupcion PROVE SlotOK'
  BY DEF SlotOK, WasAsked, Kept

LEMMA ReplyKept ==
  ASSUME ReplyOK, Kept, UNCHANGED reply PROVE ReplyOK'
  BY DEF ReplyOK, Kept

\* A step of the kernel: it may queue interruptions, takes the reply away and
\* leaves the slot and the cycle of the CPU alone.
LEMMA KernelSide ==
  ASSUME OwnInv, Kept, PlannerOK', DispatchOK', UNCHANGED <<cycleVars, slotVars>>,
         reply' = reply \/ reply' = NoReply
  PROVE  OwnInv'
<1>1. SlotOK'
  BY SlotKept DEF OwnInv, slotVars
<1>2. CycleOK'
  BY DEF OwnInv, CycleOK, cycleVars
<1>3. ReplyOK'
  <2>1. CASE reply' = reply
    BY <2>1, ReplyKept DEF OwnInv
  <2>2. CASE reply' = NoReply
    BY <2>2 DEF ReplyOK, NoReply, Interrupts, Evictions
  <2> QED BY <2>1, <2>2
<1> QED BY <1>1, <1>2, <1>3 DEF OwnInv, Kept

LEMMA WorldStep == OwnInv /\ World => OwnInv'
<1> SUFFICES ASSUME OwnInv, NEW p \in Process,
                    Quantum(p) \/ KillFind(p) \/ Unblock(p) \/ WriteReady(p)
             PROVE  OwnInv'
  BY DEF World
<1>1. UNCHANGED <<wireVars, cycleVars, slotVars>>
  BY DEF Quantum, KillFind, Unblock, WriteReady
<1>2. PlannerOK'
  BY DEF OwnInv, PlannerOK, Quantum, KillFind, Unblock, WriteReady
<1>3. DispatchOK'
  BY <1>1 DEF OwnInv, DispatchOK, wireVars
<1>4. Kept
  <2>1. CASE Quantum(p)
    <3>1. "PROC_EXIT_QUANTUM" \in Interrupts
      BY DEF Interrupts, Evictions
    <3> QED BY <2>1, <3>1, InterruptKept DEF Quantum, OwnInv
  <2>2. CASE KillFind(p) \/ WriteReady(p)
    BY <2>2, UnqueuedKept DEF KillFind, WriteReady, OwnInv
  <2>3. CASE Unblock(p)
    BY <2>3, EnqueueKept DEF Unblock, OwnInv
  <2> QED BY <2>1, <2>2, <2>3
<1> QED BY <1>1, <1>2, <1>3, <1>4, KernelSide DEF wireVars

LEMMA ConsoleStep == OwnInv /\ Console => OwnInv'
<1> SUFFICES ASSUME OwnInv, Console PROVE OwnInv'
  OBVIOUS
<1>1. UNCHANGED <<wireVars, cycleVars, slotVars>>
  BY DEF Console, KillJudge, KillQueued, KillRemoves, KillExits
<1>2. PlannerOK'
  BY DEF OwnInv, PlannerOK, Console, KillJudge, KillQueued, KillRemoves, KillExits
<1>3. DispatchOK'
  BY <1>1 DEF OwnInv, DispatchOK, wireVars
<1>4. Kept
  <2>1. CASE KillQueued
    <3>1. killing \in Process /\ "PROC_EXIT_FORCE" \in Interrupts
      BY <2>1 DEF KillQueued, OwnInv, PlannerOK, Interrupts
    <3> QED BY <2>1, <3>1, QueuedWasAsked DEF KillQueued, OwnInv, Kept
  <2>2. CASE UNCHANGED queueVars
    BY <2>2, UnqueuedKept DEF OwnInv
  <2> QED BY <2>1, <2>2 DEF Console, KillJudge, KillRemoves, KillExits
<1> QED BY <1>1, <1>2, <1>3, <1>4, KernelSide DEF wireVars

LEMMA MovesStep == OwnInv /\ PlannerMoves => OwnInv'
<1> SUFFICES ASSUME OwnInv, PlannerMoves PROVE OwnInv'
  OBVIOUS
<1>1. UNCHANGED <<reply, cycleVars, slotVars>>
  BY DEF PlannerMoves, Send, Leave, Requeue, WriteStatus, Free, Pick, wireVars
<1>2. PlannerOK'
  BY DEF OwnInv, PlannerOK, PlannerMoves, Send, Leave, Requeue, WriteStatus, Free, Pick
<1>3. DispatchOK'
  <2>1. CASE Send
    BY <2>1 DEF Send, OwnInv, PlannerOK, DispatchOK
  <2>2. CASE UNCHANGED dispatch
    BY <2>2 DEF OwnInv, DispatchOK
  <2> QED BY <2>1, <2>2 DEF PlannerMoves, Leave, Requeue, WriteStatus, Free, Pick, wireVars
<1>4. Kept
  <2>1. CASE Requeue
    <3>1. actual \in Process /\ Enqueue(actual)
      BY <2>1 DEF Requeue, OwnInv, PlannerOK
    <3> QED BY <3>1, EnqueueKept DEF OwnInv
  <2>2. CASE UNCHANGED queueVars
    BY <2>2, UnqueuedKept DEF OwnInv
  <2> QED BY <2>1, <2>2 DEF PlannerMoves, Send, Leave, WriteStatus, Free, Pick
<1> QED BY <1>1, <1>2, <1>3, <1>4, KernelSide

LEMMA HandleStep == OwnInv /\ Handle => OwnInv'
<1> SUFFICES ASSUME OwnInv, Handle PROVE OwnInv'
  OBVIOUS
<1>1. PICK next \in {"enqueue", "block", "free"} : Receive(next)
  BY HandleReceives
<1>2. UNCHANGED <<cycleVars, slotVars>> /\ reply' = NoReply
  BY <1>1 DEF Receive
<1>3. actual \in Process /\ PlannerOK'
  BY <1>1 DEF Receive, OwnInv, PlannerOK
<1>4. DispatchOK'
  BY <1>1 DEF Receive, OwnInv, DispatchOK
<1>5. Kept
  <2>1. CASE WriteInvalid
    <3>1. Interrupt(actual, "PROC_EXIT_INVALID_WRITE")
      BY <2>1 DEF WriteInvalid
    <3> QED BY <1>3, <3>1, InterruptKept DEF OwnInv, Interrupts
  <2>2. CASE UNCHANGED queueVars
    BY <2>2, UnqueuedKept DEF OwnInv
  <2> QED BY <2>1, <2>2 DEF Handle, Evicted, Exited, PageFaulted, CallDone,
         CallContinues, CallBlocks, CallRefused, UnknownReason
<1> QED BY <1>2, <1>3, <1>4, <1>5, KernelSide

\* An instruction keeps the pid of the context and gives no reason of an
\* interruption.
LEMMA ExecuteStep == OwnInv /\ Execute => OwnInv'
<1> SUFFICES ASSUME OwnInv, Execute PROVE OwnInv'
  OBVIOUS
<1>1. /\ cpu = "run" /\ cpu' = "check"
      /\ UNCHANGED <<kernelVars, queueVars, wireVars, slotVars>>
  BY DEF Execute, Compute, Jump, Call, Fault, MovIn, MovOut, FileCall, Exit, Executing
<1>2. "pid" \in DOMAIN ctx /\ ctx.pid \in Process /\ exit_code \notin Interrupts
  BY <1>1 DEF OwnInv, CycleOK
<1>3. /\ "pid" \in DOMAIN ctx' /\ ctx'.pid = ctx.pid
      /\ exit_code' = exit_code \/ exit_code' \in Calls \cup {"PAGE_FAULT", "PROC_EXIT_SUCCESS"}
  <2>1. CASE Compute
    BY <1>2, <2>1 DEF Compute, Advanced, GoOn
  <2>2. CASE Jump
    BY <1>2, <2>2 DEF Jump, GoOn
  <2>3. CASE Call
    BY <1>2, <2>3 DEF Call, Executing, Advanced, WithRegisters, Stop, Calls
  <2>4. CASE Fault
    BY <1>2, <2>4 DEF Fault, WithRegisters, Stop
  <2>5. CASE MovIn
    BY <1>2, <2>5 DEF MovIn, Advanced, GoOn
  <2>6. CASE MovOut
    BY <1>2, <2>6 DEF MovOut, Advanced, GoOn
  <2>7. CASE FileCall
    BY <1>2, <2>7 DEF FileCall, Executing, Advanced, WithRegisters, Stop, Calls
  <2>8. CASE Exit
    BY <1>2, <2>8 DEF Exit, WithRegisters, Stop
  <2> QED BY <2>1, <2>2, <2>3, <2>4, <2>5, <2>6, <2>7, <2>8 DEF Execute
<1>4. CycleOK'
  BY <1>2, <1>3 DEF CycleOK, Calls, Plain, FileIO, Interrupts, Evictions
<1>5. Kept
  BY <1>1, UnqueuedKept DEF OwnInv
<1>6. SlotOK' /\ ReplyOK'
  BY <1>1, <1>5, SlotKept, ReplyKept DEF OwnInv, slotVars, wireVars
<1>7. PlannerOK' /\ DispatchOK'
  BY <1>1 DEF OwnInv, PlannerOK, DispatchOK, kernelVars, wireVars
<1> QED BY <1>4, <1>5, <1>6, <1>7 DEF OwnInv, Kept

\* Only an interruption for the pid of the context ends the burst, and NoInterrupt
\* is for none.
LEMMA CheckStep == OwnInv /\ CheckInterrupt => OwnInv'
<1> SUFFICES ASSUME OwnInv, CheckInterrupt PROVE OwnInv'
  OBVIOUS
<1>1. cpu = "check" /\ UNCHANGED <<kernelVars, queueVars, dispatch, interrupcion>>
  BY DEF CheckInterrupt
<1>2. "pid" \in DOMAIN ctx /\ ctx.pid \in Process /\ exit_code \notin Interrupts
  BY <1>1 DEF OwnInv, CycleOK
<1>3. Kept
  BY <1>1, UnqueuedKept DEF OwnInv
<1>4. SlotOK'
  BY <1>1, <1>3, SlotKept DEF OwnInv
<1>5. PlannerOK' /\ DispatchOK'
  BY <1>1 DEF OwnInv, PlannerOK, DispatchOK, kernelVars
<1>6. CycleOK' /\ ReplyOK'
  <2>1. CASE interrupcion.pid = ctx.pid /\ EndCycle(TRUE, interrupcion.motivo, WithRegisters(ctx))
    <3>1. WasAsked(interrupcion)
      BY <2>1, <1>2, CpuAssumption DEF OwnInv, SlotOK, NoInterrupt
    <3>2. cpu' = "reset" /\ reply' = [ctx |-> WithRegisters(ctx), reason |-> interrupcion.motivo]
      BY <2>1 DEF EndCycle
    <3>3. WithRegisters(ctx).pid = ctx.pid
      BY <1>2 DEF WithRegisters
    <3>4. reply'.reason \in asked[ctx.pid] /\ reply'.ctx.pid = ctx.pid
      BY <2>1, <3>1, <3>2, <3>3 DEF WasAsked
    <3> QED BY <1>1, <1>2, <3>2, <3>4 DEF CycleOK, ReplyOK, queueVars
  <2>2. CASE EndCycle(flag_exit, exit_code, ctx)
    <3>1. CASE reply' = reply
      BY <1>2, <1>3, <2>2, <3>1, ReplyKept DEF EndCycle, CycleOK, OwnInv
    <3>2. CASE reply' = [ctx |-> ctx, reason |-> exit_code]
      BY <1>2, <2>2, <3>2 DEF EndCycle, CycleOK, ReplyOK
    <3> QED BY <2>2, <3>1, <3>2 DEF EndCycle
  <2> QED BY <2>1, <2>2 DEF CheckInterrupt
<1> QED BY <1>3, <1>4, <1>5, <1>6 DEF OwnInv, Kept

LEMMA StartResetStep == OwnInv /\ (Start \/ Reset) => OwnInv'
<1> SUFFICES ASSUME OwnInv, Start \/ Reset PROVE OwnInv'
  OBVIOUS
<1>1. UNCHANGED <<kernelVars, queueVars, reply>>
  BY DEF Start, Reset, wireVars
<1>2. Kept
  BY <1>1, UnqueuedKept DEF OwnInv
<1>3. PlannerOK' /\ ReplyOK'
  BY <1>1, <1>2, ReplyKept DEF OwnInv, PlannerOK, kernelVars
<1>4. CASE Start
  <2>1. CycleOK'
    BY <1>4 DEF Start, OwnInv, DispatchOK, CycleOK, Interrupts, Evictions
  <2>2. SlotOK' /\ DispatchOK'
    BY <1>2, <1>4, SlotKept DEF Start, OwnInv, DispatchOK, slotVars
  <2> QED BY <1>2, <1>3, <2>1, <2>2 DEF OwnInv, Kept
<1>5. CASE Reset
  <2>1. CycleOK'
    BY <1>5 DEF Reset, CycleOK
  <2>2. SlotOK' /\ DispatchOK'
    BY <1>5 DEF Reset, OwnInv, SlotOK, DispatchOK, wireVars
  <2> QED BY <1>2, <1>3, <2>1, <2>2 DEF OwnInv, Kept
<1> QED BY <1>4, <1>5

LEMMA DeliverStep == OwnInv /\ Deliver => OwnInv'
<1> SUFFICES ASSUME OwnInv, Deliver PROVE OwnInv'
  OBVIOUS
<1>1. UNCHANGED <<kernelVars, asked, wireVars, cycleVars>>
  BY DEF Deliver
<1>2. interruptions # <<>> /\ interrupcion' = Head(interruptions)
      /\ interruptions' = Tail(interruptions)
  BY DEF Deliver
<1>3. SlotOK'
  <2>1. WasAsked(interruptions[1]) /\ interrupcion' = interruptions[1]
    BY <1>2 DEF OwnInv, QueueOK
  <2> QED BY <1>1, <2>1 DEF SlotOK, WasAsked
<1>4. QueueOK'
  <2>1. interruptions' \in Seq([pid : Process, motivo : Interrupts])
    BY <1>2 DEF OwnInv, QueueOK
  <2>2. ASSUME NEW n \in 1 .. Len(interruptions') PROVE WasAsked(interruptions[n])'
    <3>1. n + 1 \in 1 .. Len(interruptions) /\ interruptions'[n] = interruptions[n + 1]
      BY <1>2, <2>2 DEF OwnInv, QueueOK
    <3>2. WasAsked(interruptions[n + 1])
      BY <3>1 DEF OwnInv, QueueOK
    <3> QED BY <1>1, <3>1, <3>2 DEF WasAsked
  <2> QED BY <2>1, <2>2 DEF QueueOK
<1>5. AskedOK' /\ PlannerOK' /\ DispatchOK' /\ CycleOK' /\ ReplyOK'
  BY <1>1 DEF OwnInv, AskedOK, PlannerOK, DispatchOK, CycleOK, ReplyOK,
     kernelVars, wireVars, cycleVars
<1> QED BY <1>3, <1>4, <1>5 DEF OwnInv

LEMMA OwnStep == OwnInv /\ [Next]_vars => OwnInv'
<1> SUFFICES ASSUME OwnInv, [Next]_vars PROVE OwnInv'
  OBVIOUS
<1>1. CASE UNCHANGED vars
  BY <1>1, UnqueuedKept DEF vars, kernelVars, queueVars, wireVars, cycleVars, slotVars,
     OwnInv, AskedOK, QueueOK, SlotOK, WasAsked, PlannerOK, DispatchOK, CycleOK, ReplyOK
<1>2. CASE Planner
  BY <1>2, MovesStep, HandleStep, PlannerSplit
<1>3. CASE Console \/ World
  BY <1>3, ConsoleStep, WorldStep
<1>4. CASE Cpu
  BY <1>4, StartResetStep, ExecuteStep, CheckStep, DeliverStep DEF Cpu
<1> QED BY <1>1, <1>2, <1>3, <1>4 DEF Next

LEMMA OwnInit == Init => OwnInv
<1> SUFFICES ASSUME Init PROVE OwnInv
  OBVIOUS
<1>1. AskedOK /\ QueueOK
  BY DEF Init, AskedOK, QueueOK
<1>2. SlotOK /\ PlannerOK /\ DispatchOK /\ CycleOK
  BY DEF Init, SlotOK, PlannerOK, DispatchOK, CycleOK
<1>3. ReplyOK
  BY DEF Init, ReplyOK, NoReply, Interrupts, Evictions
<1> QED BY <1>1, <1>2, <1>3 DEF OwnInv

\* A burst ends only for an interruption queued for its own process
\* (check_interrupt compares the pid of the slot with that of the context).
THEOREM NoForeignInterruption == Spec => []OnlyOwnInterruption
<1>1. OwnInv => OnlyOwnInterruption
  BY DEF OwnInv, ReplyOK, OnlyOwnInterruption
<1> QED BY <1>1, OwnInit, OwnStep, PTL DEF Spec

------------------------------------------------------------------------------
(* TypeOK.  A program counter stays inside its program only if the context  *)
(* that comes back is that of the process it is stored for: the context of  *)
(* the process that runs is in one place, on its way or in the CPU.         *)

Regs == [Register -> 0 .. Word - 1]
Contexts == [pid : Process \cup {NoProcess}, pc : Nat, regs : Regs]
Codes == Calls \cup Fatal \cup Interrupts \cup {"PAGE_FAULT", None}

InProgram(p, pc) == pc \in 0 .. Len(Program[p]) - 1

PcbsTyped ==
  /\ status \in [Process -> {"READY", "EXEC", "BLOCK", "EXIT"}]
  /\ queued \subseteq Process /\ waiting \subseteq Process /\ late \subseteq Process
  /\ ended \subseteq Process /\ freed \subseteq ended

CountsTyped ==
  /\ planner \in Planners
  /\ timers \in [Process -> Nat] /\ kills \in [Process -> Nat]
  /\ \A p \in Process : timers[p] <= MaxTimers[p] /\ kills[p] <= MaxKills[p]

SavedTyped ==
  /\ served \in [Process -> Int]
  /\ saved \in [Process -> [pc : Nat, regs : Regs]]
  /\ \A p \in Process : InProgram(p, saved[p].pc)

KernelTyped == PcbsTyped /\ CountsTyped /\ SavedTyped

WiresTyped ==
  /\ dispatch \in Contexts /\ reply \in [ctx : Contexts, reason : Codes]
  /\ dispatch # NoContext => InProgram(actual, dispatch.pc)
  /\ reply # NoReply => InProgram(actual, reply.ctx.pc)

CycleTyped ==
  /\ cpu \in {"idle", "run", "check", "reset"}
  /\ ctx \in Contexts /\ registers \in Regs
  /\ flag_exit \in BOOLEAN /\ exit_code \in Codes
  /\ mem \in [Process -> [Page -> 0 .. Word - 1]]
  /\ spent \in BOOLEAN /\ reused \in BOOLEAN
  /\ cpu \in {"run", "check"} => InProgram(actual, ctx.pc)

\* The short-term planner waits for the context it sent, and for no other.
Trip ==
  /\ dispatch # NoContext =>
       stp = "cpu" /\ dispatch.pid = actual /\ cpu \notin {"run", "check"} /\ reply = NoReply
  /\ cpu \in {"run", "check"} => stp = "cpu" /\ ctx.pid = actual /\ reply = NoReply
  /\ reply # NoReply => stp = "cpu" /\ reply.ctx.pid = actual

CpuInv == OwnInv /\ KernelTyped /\ WiresTyped /\ CycleTyped /\ Trip

LEMMA RegsZero == NoContext.regs \in Regs /\ NoContext \in Contexts
  BY CpuAssumption DEF NoContext, Regs, Contexts

LEMMA WordValues ==
  ASSUME NEW a \in 0 .. Word - 1, NEW b \in 0 .. Word - 1
  PROVE  (a + b) % Word \in 0 .. Word - 1 /\ (a - b) % Word \in 0 .. Word - 1
  BY CpuAssumption

\* What the CPU fetches is an instruction, and it leads to another one.
LEMMA FetchedIsInstruction ==
  ASSUME NEW p \in Process, NEW pc, InProgram(p, pc)
  PROVE  /\ pc \in Nat /\ Program[p][pc + 1] \in Instruction
         /\ Program[p][pc + 1].op # "EXIT" => InProgram(p, pc + 1)
         /\ Program[p][pc + 1].op = "JNZ" => InProgram(p, Program[p][pc + 1].target)
<1>1. /\ Program[p] \in Seq(Instruction)
      /\ Program[p][Len(Program[p])].op = "EXIT"
      /\ \A n \in 1 .. Len(Program[p]) :
           Program[p][n].op = "JNZ" => Program[p][n].target < Len(Program[p])
  BY ProgramAssumption
<1>2. PICK m \in Nat : m = Len(Program[p])
  BY <1>1
<1>3. pc \in Nat /\ pc + 1 \in 1 .. m /\ pc \in 0 .. m - 1
  BY <1>2 DEF InProgram
<1>4. Program[p][pc + 1] \in Instruction
  BY <1>1, <1>2, <1>3
<1>5. ASSUME Program[p][pc + 1].op # "EXIT" PROVE InProgram(p, pc + 1)
  <2>1. pc + 1 # m
    BY <1>1, <1>2, <1>5
  <2> QED BY <2>1, <1>2, <1>3 DEF InProgram
<1>6. ASSUME Program[p][pc + 1].op = "JNZ" PROVE InProgram(p, Program[p][pc + 1].target)
  <2>1. Program[p][pc + 1].target < m
    BY <1>1, <1>2, <1>3, <1>6
  <2>2. Program[p][pc + 1].target \in Nat
    BY <1>4, <1>6 DEF Instruction, Calls, Plain, FileIO
  <2> QED BY <2>1, <2>2, <1>2 DEF InProgram
<1> QED BY <1>3, <1>4, <1>5, <1>6

\* The operands of an instruction.
LEMMA Operands ==
  ASSUME NEW i \in Instruction
  PROVE  /\ i.op \in {"SET", "SUM", "SUB", "JNZ", "MOV_IN", "MOV_OUT", "EXIT"} \cup Calls
         /\ i.op \in {"SET", "SUM", "SUB", "MOV_IN"} => i.to \in Register
         /\ i.op \in {"SUM", "SUB", "JNZ", "MOV_OUT"} => i.from \in Register
         /\ i.op \in {"MOV_IN", "MOV_OUT"} => i.page \in Page
         /\ i.op = "SET" => i.value \in 0 .. Word - 1
         /\ i.op = "JNZ" => i.target \in Nat
  BY DEF Instruction, Calls, Plain, FileIO

\* Where the context of the process that runs is just now.
LEMMA Running ==
  ASSUME OwnInv, Trip, stp # "ready"
  PROVE  actual \in Process
  BY DEF OwnInv, PlannerOK

LEMMA CpuInvInit == Init => CpuInv
<1> SUFFICES ASSUME Init PROVE CpuInv
  OBVIOUS
<1>1. OwnInv
  BY OwnInit
<1>2. ASSUME NEW p \in Process PROVE InProgram(p, 0)
  <2>1. Len(Program[p]) \in Nat /\ Len(Program[p]) # 0
    BY ProgramAssumption
  <2> QED BY <2>1 DEF InProgram
<1>3. KernelTyped
  BY <1>2, RegsZero, CpuAssumption DEF Init, KernelTyped, PcbsTyped, CountsTyped, SavedTyped
<1>4. WiresTyped
  BY RegsZero DEF Init, WiresTyped, NoReply, Codes
<1>5. CycleTyped
  <2>1. mem \in [Process -> [Page -> 0 .. Word - 1]]
    <3>1. [a \in Page |-> 0] \in [Page -> 0 .. Word - 1]
      BY CpuAssumption
    <3> QED BY <3>1 DEF Init
  <2>2. exit_code \in Codes
    BY DEF Init, Codes
  <2> QED BY <2>1, <2>2, RegsZero DEF Init, CycleTyped
<1>6. Trip
  BY DEF Init, Trip
<1> QED BY <1>1, <1>3, <1>4, <1>5, <1>6 DEF CpuInv

------------------------------------------------------------------------------
(* The kernel's steps.                                                      *)

\* The CPU's side is untouched and the context of the planner's process too.
LEMMA CycleKept ==
  ASSUME CycleTyped, UNCHANGED <<cycleVars, spent, reused>>,
         cpu \in {"run", "check"} => actual' = actual
  PROVE  CycleTyped'
  BY DEF CycleTyped, cycleVars, InProgram

LEMMA WiresKept ==
  ASSUME WiresTyped, UNCHANGED wireVars,
         dispatch # NoContext \/ reply # NoReply => actual' = actual
  PROVE  WiresTyped'
  BY DEF WiresTyped, wireVars, InProgram

\* Threads beside the planner change no context.
LEMMA BesidePlanner ==
  ASSUME CpuInv, UNCHANGED <<actual, stp, wireVars, cycleVars, slotVars>>
  PROVE  WiresTyped' /\ CycleTyped' /\ Trip'
<1>1. WiresTyped' /\ CycleTyped'
  BY WiresKept, CycleKept DEF CpuInv, slotVars
<1>2. Trip'
  BY DEF CpuInv, Trip, wireVars, cycleVars
<1> QED BY <1>1, <1>2

LEMMA SavedKept ==
  ASSUME SavedTyped, UNCHANGED <<served, saved>> PROVE SavedTyped'
  BY DEF SavedTyped, InProgram

LEMMA CountsKept ==
  ASSUME CountsTyped, UNCHANGED <<planner, timers, kills>> PROVE CountsTyped'
  BY DEF CountsTyped

LEMMA WorldTyped == CpuInv /\ World => CpuInv'
<1> SUFFICES ASSUME CpuInv, NEW p \in Process,
                    Quantum(p) \/ KillFind(p) \/ Unblock(p) \/ WriteReady(p)
             PROVE  CpuInv'
  BY DEF World
<1>1. OwnInv'
  BY WorldStep DEF CpuInv, World
<1>2. UNCHANGED <<actual, stp, planner, saved, served, wireVars, cycleVars, slotVars>>
  BY DEF Quantum, KillFind, Unblock, WriteReady
<1>3. PcbsTyped'
  BY DEF CpuInv, KernelTyped, PcbsTyped, Quantum, KillFind, Unblock, WriteReady, Enqueue
<1>4. CountsTyped'
  <2>1. CASE Quantum(p)
    <3>1. timers[p] \in Nat /\ timers[p] > 0 /\ timers[p] <= MaxTimers[p] /\ MaxTimers[p] \in Nat
      BY <2>1, CpuAssumption DEF CpuInv, KernelTyped, CountsTyped, Quantum
    <3>2. timers[p] - 1 \in Nat /\ timers[p] - 1 <= MaxTimers[p]
      BY <3>1
    <3>3. timers' = [timers EXCEPT ![p] = timers[p] - 1] /\ UNCHANGED <<planner, kills>>
      BY <2>1 DEF Quantum
    <3> QED BY <3>2, <3>3 DEF CpuInv, KernelTyped, CountsTyped
  <2>2. CASE KillFind(p)
    <3>1. kills[p] \in Nat /\ kills[p] < MaxKills[p] /\ MaxKills[p] \in Nat
      BY <2>2, CpuAssumption DEF CpuInv, KernelTyped, CountsTyped, KillFind
    <3>2. kills[p] + 1 \in Nat /\ kills[p] + 1 <= MaxKills[p]
      BY <3>1
    <3>3. kills' = [kills EXCEPT ![p] = kills[p] + 1] /\ UNCHANGED <<planner, timers>>
      BY <2>2 DEF KillFind
    <3> QED BY <3>2, <3>3 DEF CpuInv, KernelTyped, CountsTyped
  <2>3. CASE Unblock(p) \/ WriteReady(p)
    BY <2>3, CountsKept DEF CpuInv, KernelTyped, Unblock, WriteReady
  <2> QED BY <2>1, <2>2, <2>3
<1>5. SavedTyped'
  BY <1>2, SavedKept DEF CpuInv, KernelTyped
<1>6. WiresTyped' /\ CycleTyped' /\ Trip'
  BY <1>2, BesidePlanner
<1> QED BY <1>1, <1>3, <1>4, <1>5, <1>6 DEF CpuInv, KernelTyped

LEMMA ConsoleTyped == CpuInv /\ Console => CpuInv'
<1> SUFFICES ASSUME CpuInv, Console PROVE CpuInv'
  OBVIOUS
<1>1. OwnInv'
  BY ConsoleStep DEF CpuInv
<1>2. UNCHANGED <<actual, stp, planner, timers, kills, saved, served, wireVars, cycleVars, slotVars>>
  BY DEF Console, KillJudge, KillQueued, KillRemoves, KillExits
<1>3. PcbsTyped'
  <2>1. CASE KillExits
    <3>1. killing \in Process
      BY <2>1 DEF KillExits, CpuInv, OwnInv, PlannerOK
    <3> QED BY <2>1, <3>1 DEF CpuInv, KernelTyped, PcbsTyped, KillExits
  <2>2. CASE KillJudge \/ KillQueued \/ KillRemoves
    BY <2>2 DEF CpuInv, KernelTyped, PcbsTyped, KillJudge, KillQueued, KillRemoves
  <2> QED BY <2>1, <2>2 DEF Console
<1>4. CountsTyped' /\ SavedTyped'
  BY <1>2, CountsKept, SavedKept DEF CpuInv, KernelTyped
<1>5. WiresTyped' /\ CycleTyped' /\ Trip'
  BY <1>2, BesidePlanner
<1> QED BY <1>1, <1>3, <1>4, <1>5 DEF CpuInv, KernelTyped

\* Between a reply and the next context there is nothing on the wires.
LEMMA PlannerTyped ==
  ASSUME CpuInv, PlannerMoves
  PROVE  CpuInv'
<1>1. OwnInv'
  BY MovesStep DEF CpuInv
<1>2. UNCHANGED <<planner, saved, served, kills, reply, cycleVars, slotVars>>
  BY DEF PlannerMoves, Send, Leave, Requeue, WriteStatus, Free, Pick, wireVars
<1>3. SavedTyped'
  BY <1>2, SavedKept DEF CpuInv, KernelTyped
<1>4. dispatch = NoContext /\ reply = NoReply /\ cpu \notin {"run", "check"}
  BY DEF PlannerMoves, Send, Leave, Requeue, WriteStatus, Free, Pick, CpuInv, Trip
<1>5. PcbsTyped'
  <2>1. CASE Requeue \/ WriteStatus \/ Free
    <3>1. actual \in Process
      BY <2>1, Running DEF CpuInv, Requeue, WriteStatus, Free
    <3> QED BY <2>1, <3>1 DEF CpuInv, KernelTyped, PcbsTyped, Requeue, WriteStatus, Free,
         Enqueue, Becomes
  <2>2. CASE Send \/ Leave \/ (\E p \in Process : Pick(p))
    BY <2>2 DEF CpuInv, KernelTyped, PcbsTyped, Send, Leave, Pick
  <2> QED BY <2>1, <2>2 DEF PlannerMoves
<1>6. CASE ~Send
  <2>1. UNCHANGED <<timers, wireVars>> /\ stp # "cpu" /\ stp' # "cpu"
    BY <1>6 DEF PlannerMoves, Leave, Requeue, WriteStatus, Free, Pick
  <2>2. CountsTyped'
    BY <1>2, <2>1, CountsKept DEF CpuInv, KernelTyped
  <2>3. WiresTyped' /\ CycleTyped'
    BY <1>2, <1>4, <2>1, WiresKept, CycleKept DEF CpuInv, slotVars
  <2>4. Trip'
    BY <1>2, <1>4, <2>1 DEF Trip, wireVars, cycleVars
  <2> QED BY <1>1, <1>3, <1>5, <2>2, <2>3, <2>4 DEF CpuInv, KernelTyped
<1>7. CASE Send
  <2>1. stp = "loop" /\ stp' = "cpu" /\ UNCHANGED actual
    BY <1>7 DEF Send
  <2>2. actual \in Process
    BY <2>1, Running DEF CpuInv
  <2>3. saved[actual] \in [pc : Nat, regs : Regs] /\ InProgram(actual, saved[actual].pc)
    BY <2>2 DEF CpuInv, KernelTyped, SavedTyped
  <2>4. PICK regs \in Regs : dispatch' = [pid |-> actual, pc |-> saved[actual].pc, regs |-> regs]
    <3>1. saved[actual].regs \in Regs /\ Leftover \subseteq Regs
      BY <2>3, CpuAssumption DEF Regs
    <3> QED BY <1>7, <3>1 DEF Send
  <2>5. CountsTyped'
    <3>1. CASE timers' = timers
      BY <1>2, <3>1, CountsKept DEF CpuInv, KernelTyped
    <3>2. CASE timers[actual] < MaxTimers[actual] /\ timers' = [timers EXCEPT ![actual] = @ + 1]
      <4>1. timers[actual] \in Nat /\ MaxTimers[actual] \in Nat
        BY <2>2, CpuAssumption DEF CpuInv, KernelTyped, CountsTyped
      <4>2. timers[actual] + 1 \in Nat /\ timers[actual] + 1 <= MaxTimers[actual]
        BY <3>2, <4>1
      <4> QED BY <1>2, <2>2, <3>2, <4>2 DEF CpuInv, KernelTyped, CountsTyped
    <3> QED BY <1>7, <3>1, <3>2 DEF Send
  <2>6. WiresTyped'
    BY <1>2, <1>4, <2>1, <2>2, <2>3, <2>4 DEF CpuInv, WiresTyped, Contexts, InProgram
  <2>7. CycleTyped'
    BY <1>2, <2>1, CycleKept DEF CpuInv, slotVars
  <2>8. Trip'
    BY <1>2, <1>4, <2>1, <2>4 DEF Trip, cycleVars
  <2> QED BY <1>1, <1>3, <1>5, <2>5, <2>6, <2>7, <2>8 DEF CpuInv, KernelTyped
<1> QED BY <1>6, <1>7

\* The context that comes back is stored for the process it was sent for.
LEMMA HandleTyped == CpuInv /\ Handle => CpuInv'
<1> SUFFICES ASSUME CpuInv, Handle PROVE CpuInv'
  OBVIOUS
<1>1. OwnInv'
  BY HandleStep DEF CpuInv
<1>2. PICK next \in {"enqueue", "block", "free"} : Receive(next)
  BY HandleReceives
<1>3. /\ stp = "cpu" /\ reply # NoReply
      /\ saved' = [saved EXCEPT ![actual] = [pc |-> reply.ctx.pc, regs |-> reply.ctx.regs]]
      /\ reply' = NoReply /\ stp' = next
      /\ UNCHANGED <<planner, actual, timers, kills, dispatch, cycleVars, slotVars>>
      /\ UNCHANGED <<late, freed>>
  BY <1>2 DEF Receive
<1>4. /\ actual \in Process /\ dispatch = NoContext /\ cpu \notin {"run", "check"}
      /\ reply.ctx \in Contexts /\ InProgram(actual, reply.ctx.pc)
  BY <1>3, Running DEF CpuInv, Trip, WiresTyped
<1>5. saved' \in [Process -> [pc : Nat, regs : Regs]]
      /\ \A p \in Process : InProgram(p, saved'[p].pc)
  <2>1. [pc |-> reply.ctx.pc, regs |-> reply.ctx.regs] \in [pc : Nat, regs : Regs]
    BY <1>4 DEF Contexts
  <2>2. \A p \in Process : saved'[p] =
          IF p = actual THEN [pc |-> reply.ctx.pc, regs |-> reply.ctx.regs] ELSE saved[p]
    BY <1>3 DEF CpuInv, KernelTyped, SavedTyped
  <2> QED BY <1>3, <1>4, <2>1, <2>2 DEF CpuInv, KernelTyped, SavedTyped
<1>6. PcbsTyped'
  <2>1. /\ queued' = queued \/ queued' = queued \ {actual}
        /\ waiting' = waiting \/ waiting' = waiting \cup {actual}
        /\ ended' = ended \/ ended' = ended \cup {actual}
    BY DEF Handle, Evicted, Exited, PageFaulted, CallDone, CallContinues, CallBlocks,
       CallRefused, WriteInvalid, UnknownReason, Waits, Finishes
  <2>2. status' = status \/ Becomes("BLOCK") \/ Becomes("EXIT")
    BY DEF Handle, Evicted, Exited, PageFaulted, CallDone, CallContinues, CallBlocks,
       CallRefused, WriteInvalid, UnknownReason, Finishes
  <2>3. status' \in [Process -> {"READY", "EXEC", "BLOCK", "EXIT"}]
    BY <1>4, <2>2 DEF CpuInv, KernelTyped, PcbsTyped, Becomes
  <2> QED BY <1>3, <1>4, <2>1, <2>3 DEF CpuInv, KernelTyped, PcbsTyped
<1>7. served' \in [Process -> Int]
  <2>1. CASE served' = served
    BY <2>1 DEF CpuInv, KernelTyped, SavedTyped
  <2>2. CASE Served
    <3>1. reply.ctx.pc - 1 \in Int
      BY <1>4 DEF Contexts
    <3> QED BY <2>2, <3>1 DEF CpuInv, KernelTyped, SavedTyped, Served
  <2> QED BY <2>1, <2>2 DEF Handle, Evicted, Exited, PageFaulted, CallDone,
       CallContinues, CallBlocks, CallRefused, WriteInvalid, UnknownReason
<1>8. KernelTyped'
  <2>1. CountsTyped'
    BY <1>3, CountsKept DEF CpuInv, KernelTyped
  <2>2. SavedTyped'
    BY <1>5, <1>7 DEF SavedTyped, InProgram
  <2> QED BY <1>6, <2>1, <2>2 DEF KernelTyped
<1>9. WiresTyped'
  <2>1. NoReply \in [ctx : Contexts, reason : Codes]
    BY RegsZero DEF NoReply, Codes
  <2> QED BY <1>3, <1>4, <2>1 DEF CpuInv, WiresTyped
<1>10. CycleTyped'
  BY <1>3, CycleKept DEF CpuInv, slotVars
<1>11. Trip'
  BY <1>3, <1>4 DEF Trip, cycleVars
<1> QED BY <1>1, <1>8, <1>9, <1>10, <1>11 DEF CpuInv

------------------------------------------------------------------------------
(* The CPU's steps.                                                         *)

LEMMA KernelKept ==
  ASSUME KernelTyped, UNCHANGED kernelVars PROVE KernelTyped'
  BY SavedKept, CountsKept DEF KernelTyped, PcbsTyped, kernelVars

\* What the CPU executes: the process, its instruction and its registers.
LEMMA Executed ==
  ASSUME CpuInv, cpu = "run"
  PROVE  /\ ctx.pid = actual /\ actual \in Process /\ stp = "cpu"
         /\ dispatch = NoContext /\ reply = NoReply
         /\ ctx \in Contexts /\ registers \in Regs
         /\ InProgram(actual, ctx.pc) /\ Fetched \in Instruction
         /\ Fetched.op # "EXIT" => InProgram(actual, ctx.pc + 1)
         /\ Fetched.op = "JNZ" => InProgram(actual, Fetched.target)
<1>1. /\ ctx.pid = actual /\ stp = "cpu" /\ dispatch = NoContext /\ reply = NoReply
      /\ ctx \in Contexts /\ registers \in Regs /\ InProgram(actual, ctx.pc)
  BY DEF CpuInv, Trip, CycleTyped
<1>2. actual \in Process
  BY <1>1, Running DEF CpuInv
<1>3. Fetched = Program[actual][ctx.pc + 1]
  BY <1>1 DEF Fetched
<1> QED BY <1>1, <1>2, <1>3, FetchedIsInstruction

\* What an instruction leaves.
ExecutedTyped ==
  /\ ctx' \in Contexts /\ ctx'.pid = ctx.pid /\ InProgram(actual, ctx'.pc)
  /\ registers' \in Regs
  /\ flag_exit' \in BOOLEAN /\ exit_code' \in Codes
  /\ mem' \in [Process -> [Page -> 0 .. Word - 1]]

LEMMA PcChanged ==
  ASSUME NEW c \in Contexts, NEW pc \in Nat
  PROVE  /\ [c EXCEPT !.pc = pc] \in Contexts /\ [c EXCEPT !.pc = pc].pid = c.pid
         /\ [c EXCEPT !.pc = pc].pc = pc /\ [c EXCEPT !.pc = pc].regs = c.regs
  BY DEF Contexts

LEMMA RegistersChanged ==
  ASSUME NEW c \in Contexts, NEW r \in Regs
  PROVE  /\ [c EXCEPT !.regs = r] \in Contexts /\ [c EXCEPT !.regs = r].pid = c.pid
         /\ [c EXCEPT !.regs = r].pc = c.pc /\ [c EXCEPT !.regs = r].regs = r
  BY DEF Contexts

\* The four contexts an instruction can leave.
LEMMA Contexts4 ==
  ASSUME CpuInv, cpu = "run"
  PROVE  /\ WithRegisters(ctx) \in Contexts /\ WithRegisters(ctx).pid = ctx.pid
         /\ WithRegisters(ctx).pc = ctx.pc /\ WithRegisters(ctx).regs = registers
         /\ Advanced \in Contexts /\ Advanced.pid = ctx.pid
         /\ Advanced.pc = ctx.pc + 1 /\ Advanced.regs = ctx.regs
         /\ WithRegisters(Advanced) \in Contexts /\ WithRegisters(Advanced).pid = ctx.pid
         /\ WithRegisters(Advanced).pc = ctx.pc + 1
         /\ WithRegisters(Advanced).regs = registers
         /\ ctx.pc \in Nat
<1>1. ctx \in Contexts /\ registers \in Regs
  BY Executed
<1>2. ctx.pc \in Nat /\ ctx.pc + 1 \in Nat
  BY <1>1 DEF Contexts
<1>3. Advanced \in Contexts /\ Advanced.pid = ctx.pid /\ Advanced.pc = ctx.pc + 1
      /\ Advanced.regs = ctx.regs
  BY <1>1, <1>2, PcChanged DEF Advanced
<1>4. WithRegisters(ctx) \in Contexts /\ WithRegisters(ctx).pid = ctx.pid
      /\ WithRegisters(ctx).pc = ctx.pc /\ WithRegisters(ctx).regs = registers
  BY <1>1, RegistersChanged DEF WithRegisters
<1>5. WithRegisters(Advanced) \in Contexts /\ WithRegisters(Advanced).pid = Advanced.pid
      /\ WithRegisters(Advanced).pc = Advanced.pc /\ WithRegisters(Advanced).regs = registers
  BY <1>1, <1>3, RegistersChanged DEF WithRegisters
<1> QED BY <1>2, <1>3, <1>4, <1>5

LEMMA ExecuteLeaves ==
  ASSUME CpuInv, Execute PROVE ExecutedTyped
<1>1. cpu = "run"
  BY DEF Execute, Compute, Jump, Call, Fault, MovIn, MovOut, FileCall, Exit, Executing
<1>2. /\ actual \in Process /\ ctx.pid = actual /\ ctx \in Contexts /\ registers \in Regs
      /\ Fetched \in Instruction /\ InProgram(actual, ctx.pc)
      /\ Fetched.op # "EXIT" => InProgram(actual, ctx.pc + 1)
      /\ Fetched.op = "JNZ" => InProgram(actual, Fetched.target)
  BY <1>1, Executed
<1>3. /\ WithRegisters(ctx) \in Contexts /\ WithRegisters(ctx).pid = ctx.pid
      /\ WithRegisters(ctx).pc = ctx.pc
      /\ Advanced \in Contexts /\ Advanced.pid = ctx.pid /\ Advanced.pc = ctx.pc + 1
      /\ WithRegisters(Advanced) \in Contexts /\ WithRegisters(Advanced).pid = ctx.pid
      /\ WithRegisters(Advanced).pc = ctx.pc + 1 /\ ctx.pc \in Nat
  BY <1>1, Contexts4
<1>4. /\ Fetched.op \in {"SET", "SUM", "SUB", "MOV_IN"} => Fetched.to \in Register
      /\ Fetched.op \in {"SUM", "SUB", "JNZ", "MOV_OUT"} => Fetched.from \in Register
      /\ Fetched.op \in {"MOV_IN", "MOV_OUT"} => Fetched.page \in Page
      /\ Fetched.op = "SET" => Fetched.value \in 0 .. Word - 1
      /\ Fetched.op = "JNZ" => Fetched.target \in Nat
  BY <1>2, Operands
<1>5. /\ flag_exit \in BOOLEAN /\ exit_code \in Codes
      /\ mem \in [Process -> [Page -> 0 .. Word - 1]]
  BY DEF CpuInv, CycleTyped
<1>6. CASE Compute
  <2> DEFINE v == CASE Fetched.op = "SET" -> Fetched.value
                    [] Fetched.op = "SUM" -> (registers[Fetched.from] + registers[Fetched.to]) % Word
                    [] Fetched.op = "SUB" -> (registers[Fetched.to] - registers[Fetched.from]) % Word
  <2>1. /\ Fetched.op \in {"SET", "SUM", "SUB"} /\ ctx' = Advanced
        /\ registers' = [registers EXCEPT ![Fetched.to] = v]
        /\ UNCHANGED <<flag_exit, exit_code, mem>>
    BY <1>6 DEF Compute, Executing, GoOn
  <2>2. v \in 0 .. Word - 1
    <3>1. registers[Fetched.to] \in 0 .. Word - 1
      BY <1>2, <1>4, <2>1 DEF Regs
    <3>2. CASE Fetched.op = "SET"
      BY <3>2, <1>4
    <3>3. CASE Fetched.op = "SUM"
      <4>1. registers[Fetched.from] \in 0 .. Word - 1
        BY <1>2, <1>4, <3>3 DEF Regs
      <4> QED BY <3>1, <3>3, <4>1, WordValues
    <3>4. CASE Fetched.op = "SUB"
      <4>1. registers[Fetched.from] \in 0 .. Word - 1
        BY <1>2, <1>4, <3>4 DEF Regs
      <4> QED BY <3>1, <3>4, <4>1, WordValues
    <3> QED BY <2>1, <3>2, <3>3, <3>4
  <2> HIDE DEF v
  <2>3. registers' \in Regs
    BY <1>2, <2>1, <2>2 DEF Regs
  <2>4. ctx' \in Contexts /\ ctx'.pid = ctx.pid /\ InProgram(actual, ctx'.pc)
    BY <1>2, <1>3, <2>1
  <2> QED BY <1>5, <2>1, <2>3, <2>4 DEF ExecutedTyped
<1>7. CASE Jump
  <2>1. Fetched.op = "JNZ" /\ UNCHANGED <<flag_exit, exit_code, registers, mem>>
    BY <1>7 DEF Jump, Executing, GoOn
  <2>2. ctx' = [ctx EXCEPT !.pc = ctx.pc + 1] \/ ctx' = [ctx EXCEPT !.pc = Fetched.target]
    BY <1>7, <1>4, <2>1 DEF Jump
  <2>3. ctx.pc + 1 \in Nat /\ Fetched.target \in Nat
    BY <1>3, <1>4, <2>1
  <2>4. ctx' \in Contexts /\ ctx'.pid = ctx.pid /\ InProgram(actual, ctx'.pc)
    <3>1. CASE ctx' = [ctx EXCEPT !.pc = ctx.pc + 1]
      BY <1>2, <2>1, <2>3, <3>1, PcChanged
    <3>2. CASE ctx' = [ctx EXCEPT !.pc = Fetched.target]
      BY <1>2, <2>1, <2>3, <3>2, PcChanged
    <3> QED BY <2>2, <3>1, <3>2
  <2> QED BY <1>2, <1>5, <2>1, <2>4 DEF ExecutedTyped
<1>8. CASE Call \/ FileCall
  <2>1. /\ Fetched.op \in Calls /\ ctx' = WithRegisters(Advanced)
        /\ flag_exit' = TRUE /\ exit_code' = Fetched.op /\ UNCHANGED <<registers, mem>>
    BY <1>8 DEF Call, FileCall, Executing, Stop, Calls
  <2>2. Fetched.op # "EXIT" /\ Fetched.op \in Codes
    BY <2>1 DEF Codes, Calls, Plain, FileIO
  <2> QED BY <1>2, <1>3, <1>5, <2>1, <2>2 DEF ExecutedTyped
<1>9. CASE Fault \/ Exit
  <2>1. /\ ctx' = WithRegisters(ctx) /\ flag_exit' = TRUE
        /\ exit_code' \in {"PAGE_FAULT", "PROC_EXIT_SUCCESS"} /\ UNCHANGED <<registers, mem>>
    BY <1>9 DEF Fault, Exit, Stop
  <2>2. exit_code' \in Codes
    BY <2>1 DEF Codes, Fatal
  <2> QED BY <1>2, <1>3, <1>5, <2>1, <2>2 DEF ExecutedTyped
<1>10. CASE MovIn
  <2>1. Fetched.op = "MOV_IN" /\ ctx' = Advanced /\ UNCHANGED <<mem, exit_code>>
    BY <1>10 DEF MovIn, Executing, GoOn
  <2>2. mem[ctx.pid][Fetched.page] \in 0 .. Word - 1
    BY <1>2, <1>4, <1>5, <2>1
  <2>3. registers' \in Regs /\ flag_exit' \in BOOLEAN
    BY <1>2, <1>5, <1>10, <2>2 DEF MovIn, GoOn, Regs
  <2> QED BY <1>2, <1>3, <1>5, <2>1, <2>3 DEF ExecutedTyped
<1>11. CASE MovOut
  <2>1. /\ Fetched.op = "MOV_OUT" /\ ctx' = Advanced
        /\ UNCHANGED <<flag_exit, exit_code, registers>>
        /\ mem' = [mem EXCEPT ![ctx.pid][Fetched.page] = registers[Fetched.from]]
    BY <1>11 DEF MovOut, Executing, GoOn
  <2>2. registers[Fetched.from] \in 0 .. Word - 1 /\ mem[actual] \in [Page -> 0 .. Word - 1]
    BY <1>2, <1>4, <1>5, <2>1 DEF Regs
  <2>3. mem' = [mem EXCEPT ![actual] = [mem[actual] EXCEPT ![Fetched.page] = registers[Fetched.from]]]
    BY <1>2, <2>1
  <2>4. [mem[actual] EXCEPT ![Fetched.page] = registers[Fetched.from]] \in [Page -> 0 .. Word - 1]
    BY <2>2
  <2>5. mem' \in [Process -> [Page -> 0 .. Word - 1]]
    BY <1>5, <2>3, <2>4
  <2> QED BY <1>2, <1>3, <1>5, <2>1, <2>5 DEF ExecutedTyped
<1> QED BY <1>6, <1>7, <1>8, <1>9, <1>10, <1>11 DEF Execute

LEMMA ExecuteTyped == CpuInv /\ Execute => CpuInv'
<1> SUFFICES ASSUME CpuInv, Execute PROVE CpuInv'
  OBVIOUS
<1>1. OwnInv'
  BY ExecuteStep DEF CpuInv
<1>2. /\ cpu = "run" /\ cpu' = "check"
      /\ UNCHANGED <<kernelVars, wireVars, slotVars>>
  BY DEF Execute, Compute, Jump, Call, Fault, MovIn, MovOut, FileCall, Exit, Executing
<1>3. ExecutedTyped
  BY ExecuteLeaves
<1>4. KernelTyped'
  BY <1>2, KernelKept DEF CpuInv
<1>5. WiresTyped'
  BY <1>2, WiresKept DEF CpuInv, kernelVars
<1>6. CycleTyped'
  BY <1>2, <1>3 DEF CpuInv, CycleTyped, ExecutedTyped, kernelVars, slotVars, InProgram
<1>7. Trip'
  BY <1>2, <1>3 DEF CpuInv, Trip, ExecutedTyped, kernelVars, wireVars
<1> QED BY <1>1, <1>4, <1>5, <1>6, <1>7 DEF CpuInv

LEMMA StartResetTyped == CpuInv /\ (Start \/ Reset) => CpuInv'
<1> SUFFICES ASSUME CpuInv, Start \/ Reset PROVE CpuInv'
  OBVIOUS
<1>1. OwnInv'
  BY StartResetStep DEF CpuInv
<1>2. UNCHANGED kernelVars /\ UNCHANGED <<reply, mem, reused>>
  BY DEF Start, Reset, wireVars, slotVars
<1>3. KernelTyped'
  BY <1>2, KernelKept DEF CpuInv
<1>4. CASE Start
  <2>1. /\ dispatch # NoContext /\ ctx' = dispatch /\ registers' = dispatch.regs
        /\ flag_exit' = FALSE /\ exit_code' = None /\ cpu' = "run"
        /\ dispatch' = NoContext /\ UNCHANGED spent
    BY <1>4 DEF Start, slotVars
  <2>2. dispatch \in Contexts /\ dispatch.regs \in Regs /\ InProgram(actual, dispatch.pc)
        /\ stp = "cpu" /\ dispatch.pid = actual /\ reply = NoReply
    BY <2>1 DEF CpuInv, WiresTyped, Trip, Contexts
  <2>3. exit_code' \in Codes
    BY <2>1 DEF Codes
  <2>4. CycleTyped'
    BY <1>2, <2>1, <2>2, <2>3 DEF CpuInv, CycleTyped, kernelVars, InProgram
  <2>5. WiresTyped'
    BY <1>2, <2>1, <2>2, RegsZero DEF CpuInv, WiresTyped, kernelVars, InProgram
  <2>6. Trip'
    BY <1>2, <2>1, <2>2 DEF CpuInv, Trip, kernelVars
  <2> QED BY <1>1, <1>3, <2>4, <2>5, <2>6 DEF CpuInv
<1>5. CASE Reset
  <2>1. /\ cpu = "reset" /\ cpu' = "idle" /\ ctx' = NoContext /\ spent' = FALSE
        /\ UNCHANGED <<wireVars, registers, flag_exit, exit_code>>
    BY <1>5 DEF Reset
  <2>2. CycleTyped'
    BY <1>2, <2>1, RegsZero DEF CpuInv, CycleTyped
  <2>3. WiresTyped'
    BY <1>2, <2>1, WiresKept DEF CpuInv, kernelVars
  <2>4. Trip'
    BY <1>2, <2>1 DEF CpuInv, Trip, kernelVars, wireVars
  <2> QED BY <1>1, <1>3, <2>2, <2>3, <2>4 DEF CpuInv
<1> QED BY <1>4, <1>5

LEMMA CheckTyped == CpuInv /\ CheckInterrupt => CpuInv'
<1> SUFFICES ASSUME CpuInv, CheckInterrupt PROVE CpuInv'
  OBVIOUS
<1>1. OwnInv'
  BY CheckStep DEF CpuInv
<1>2. /\ cpu = "check" /\ UNCHANGED <<kernelVars, dispatch, registers, mem>>
      /\ spent' = (spent \/ interrupcion.pid = ctx.pid)
      /\ reused' = (reused \/ (interrupcion.pid = ctx.pid /\ spent))
  BY DEF CheckInterrupt
<1>3. /\ ctx \in Contexts /\ registers \in Regs /\ InProgram(actual, ctx.pc) /\ ctx.pid = actual
      /\ actual \in Process /\ stp = "cpu" /\ dispatch = NoContext /\ reply = NoReply
      /\ flag_exit \in BOOLEAN /\ exit_code \in Codes
  BY <1>2, Running DEF CpuInv, CycleTyped, Trip
<1>4. PICK stop \in BOOLEAN, code \in Codes, c \in {ctx, WithRegisters(ctx)} :
        EndCycle(stop, code, c)
  <2>1. CASE interrupcion.pid = ctx.pid /\ EndCycle(TRUE, interrupcion.motivo, WithRegisters(ctx))
    <3>1. WasAsked(interrupcion)
      BY <2>1, <1>3, CpuAssumption DEF CpuInv, OwnInv, SlotOK, NoInterrupt
    <3>2. interrupcion.motivo \in Codes
      BY <3>1 DEF WasAsked, Codes
    <3> QED BY <2>1, <3>2
  <2>2. CASE EndCycle(flag_exit, exit_code, ctx)
    BY <2>2, <1>3
  <2> QED BY <2>1, <2>2 DEF CheckInterrupt
<1>5. c \in Contexts /\ c.pid = actual /\ InProgram(actual, c.pc)
  <2>1. CASE c = ctx
    BY <1>3, <2>1
  <2>2. CASE c = WithRegisters(ctx)
    BY <1>3, <2>2, RegistersChanged DEF WithRegisters
  <2> QED BY <2>1, <2>2
<1>6. /\ flag_exit' = stop /\ exit_code' = code /\ ctx' = c
      /\ cpu' = IF stop THEN "reset" ELSE "run"
      /\ reply' = IF stop THEN [ctx |-> c, reason |-> code] ELSE reply
  BY <1>4 DEF EndCycle
<1>7. KernelTyped'
  BY <1>2, KernelKept DEF CpuInv
<1>8. WiresTyped'
  <2>1. reply' \in [ctx : Contexts, reason : Codes]
    BY <1>5, <1>6 DEF CpuInv, WiresTyped
  <2>2. reply' # NoReply => InProgram(actual, reply'.ctx.pc)
    BY <1>3, <1>5, <1>6
  <2> QED BY <1>2, <1>3, <2>1, <2>2 DEF CpuInv, WiresTyped, kernelVars, InProgram
<1>9. spent' \in BOOLEAN /\ reused' \in BOOLEAN
  BY <1>2
<1>10. CycleTyped'
  BY <1>2, <1>5, <1>6, <1>9 DEF CpuInv, CycleTyped, kernelVars, InProgram
<1>11. Trip'
  BY <1>2, <1>3, <1>5, <1>6 DEF CpuInv, Trip, kernelVars
<1> QED BY <1>1, <1>7, <1>8, <1>10, <1>11 DEF CpuInv

LEMMA CpuInvStep == CpuInv /\ [Next]_vars => CpuInv'
<1> SUFFICES ASSUME CpuInv, [Next]_vars PROVE CpuInv'
  OBVIOUS
<1>1. CASE UNCHANGED vars \/ Deliver
  <2>1. UNCHANGED <<kernelVars, wireVars, cycleVars, reused>> /\ spent' \in BOOLEAN
    BY <1>1 DEF vars, Deliver, slotVars, CpuInv, CycleTyped
  <2>2. OwnInv'
    BY OwnStep DEF CpuInv
  <2>3. KernelTyped' /\ WiresTyped'
    BY <2>1, KernelKept, WiresKept DEF CpuInv, kernelVars
  <2>4. CycleTyped'
    BY <2>1 DEF CpuInv, CycleTyped, cycleVars, kernelVars, InProgram
  <2>5. Trip'
    BY <2>1 DEF CpuInv, Trip, kernelVars, wireVars, cycleVars
  <2> QED BY <2>2, <2>3, <2>4, <2>5 DEF CpuInv
<1>2. CASE Planner
  BY <1>2, PlannerTyped, HandleTyped, PlannerSplit
<1>3. CASE Console \/ World
  BY <1>3, ConsoleTyped, WorldTyped
<1>4. CASE Cpu
  BY <1>1, <1>4, StartResetTyped, ExecuteTyped, CheckTyped DEF Cpu
<1> QED BY <1>1, <1>2, <1>3, <1>4 DEF Next

\* Every variable keeps its type; in particular no program counter leaves its
\* program, so that memory is never asked for an instruction it does not have.
THEOREM CpuTypeCorrect == Spec => []TypeOK
<1>1. CpuInv => TypeOK
  <2> SUFFICES ASSUME CpuInv PROVE TypeOK
    OBVIOUS
  <2>1. interrupcion \in [pid : Process, motivo : Interrupts] \cup {NoInterrupt}
    BY DEF CpuInv, OwnInv, SlotOK, WasAsked
  <2>2. /\ interruptions \in Seq([pid : Process, motivo : Interrupts])
        /\ asked \in [Process -> SUBSET Interrupts]
        /\ actual \in Process \cup {NoProcess} /\ killing \in Process \cup {NoProcess}
        /\ stp \in {"ready", "loop", "cpu", "enqueue", "write", "block", "free"}
        /\ console \in {"idle", "found", "interrupt", "remove", "exit"}
    BY DEF CpuInv, OwnInv, AskedOK, QueueOK, PlannerOK
  <2> QED BY <2>1, <2>2 DEF TypeOK, CpuInv, KernelTyped, PcbsTyped, CountsTyped, SavedTyped,
       WiresTyped, CycleTyped, Regs, Contexts, Codes
<1> QED BY <1>1, CpuInvInit, CpuInvStep, PTL DEF Spec

------------------------------------------------------------------------------
(* RunsPrograms.  The registers of a process are those in the CPU while it  *)
(* executes, and those of its context otherwise: a burst must leave with    *)
(* the registers.                                                           *)

\* A process that has not ended reads a word of all ones only where the failed
\* read loses nothing: the register has that value and the context the registers.
HarmlessRead ==
  cpu = "run" /\ ctx.pid \notin ended
  /\ Fetched.op = "MOV_IN" /\ mem[ctx.pid][Fetched.page] = Word - 1
    => registers[Fetched.to] = Word - 1 /\ ctx.regs = registers

\* Nothing is decided before the instruction is executed, and a burst that goes
\* on gave no reason.
Decided ==
  /\ cpu = "run" => ~flag_exit /\ exit_code = None
  /\ cpu = "check" /\ ~flag_exit => exit_code = None

\* A burst that ends leaves with the registers.
Left == cpu = "check" /\ flag_exit /\ ctx.pid \notin ended => ctx.regs = registers

RunInv == CpuInv /\ Decided /\ Left

\* What each instruction leaves in a burst, told apart by whether it ends it.
LEMMA ExecuteEnds ==
  ASSUME RunInv, Execute, HarmlessRead
  PROVE  /\ flag_exit' = FALSE => exit_code' = None
         /\ flag_exit' = TRUE /\ ctx'.pid \notin ended => ctx'.regs = registers'
         /\ flag_exit' \in BOOLEAN
<1>1. cpu = "run" /\ ~flag_exit /\ exit_code = None /\ flag_exit = FALSE
  <2>1. cpu = "run"
    BY DEF Execute, Compute, Jump, Call, Fault, MovIn, MovOut, FileCall, Exit, Executing
  <2> QED BY <2>1 DEF RunInv, Decided, CpuInv, CycleTyped
<1>2. /\ WithRegisters(ctx).regs = registers /\ WithRegisters(Advanced).regs = registers
      /\ Advanced.regs = ctx.regs
  BY <1>1, Contexts4 DEF RunInv
<1>3. CASE Compute \/ Jump \/ MovOut
  <2>1. flag_exit' = flag_exit /\ exit_code' = exit_code
    BY <1>3 DEF Compute, Jump, MovOut, GoOn
  <2> QED BY <1>1, <2>1
<1>4. CASE Call \/ FileCall \/ Fault \/ Exit
  <2>1. /\ flag_exit' = TRUE /\ registers' = registers
        /\ ctx' = WithRegisters(ctx) \/ ctx' = WithRegisters(Advanced)
    BY <1>4 DEF Call, FileCall, Fault, Exit, Stop
  <2> QED BY <1>2, <2>1
<1>5. CASE MovIn
  <2>1. ctx' = Advanced /\ Fetched.op = "MOV_IN"
    BY <1>5 DEF MovIn, Executing
  <2>2. CASE mem[ctx.pid][Fetched.page] = Word - 1
    <3>1. flag_exit' = TRUE /\ registers' = registers
      BY <1>5, <2>2 DEF MovIn
    <3>2. ctx'.pid = ctx.pid
      BY <1>1, <2>1, Contexts4 DEF RunInv
    <3>3. ctx.pid \notin ended => ctx.regs = registers
      BY <1>1, <2>1, <2>2 DEF HarmlessRead
    <3> QED BY <1>2, <2>1, <3>1, <3>2, <3>3
  <2>3. CASE mem[ctx.pid][Fetched.page] # Word - 1
    <3>1. flag_exit' = flag_exit /\ exit_code' = exit_code
      BY <1>5, <2>3 DEF MovIn, GoOn
    <3> QED BY <1>1, <3>1
  <2> QED BY <2>2, <2>3
<1> QED BY <1>3, <1>4, <1>5 DEF Execute

LEMMA EndedGrows ==
  ASSUME Planner \/ Console \/ World PROVE ended \subseteq ended'
<1>1. CASE PlannerMoves
  BY <1>1 DEF PlannerMoves, Send, Leave, Requeue, WriteStatus, Free, Pick
<1>2. CASE Handle
  BY <1>2 DEF Handle, Evicted, Exited, PageFaulted, CallDone, CallContinues, CallBlocks,
     CallRefused, WriteInvalid, UnknownReason, Finishes
<1>3. CASE Console
  BY <1>3 DEF Console, KillJudge, KillQueued, KillRemoves, KillExits
<1>4. CASE World
  BY <1>4 DEF World, Quantum, KillFind, Unblock, WriteReady
<1> QED BY <1>1, <1>2, <1>3, <1>4, PlannerSplit

LEMMA RunInvStep == RunInv /\ HarmlessRead /\ [Next]_vars => RunInv'
<1> SUFFICES ASSUME RunInv, HarmlessRead, [Next]_vars PROVE RunInv'
  OBVIOUS
<1>1. CpuInv'
  BY CpuInvStep DEF RunInv
<1>2. CASE UNCHANGED <<cpu, ctx, registers, flag_exit, exit_code>> /\ ended \subseteq ended'
  BY <1>1, <1>2 DEF RunInv, Decided, Left
<1>3. CASE Start
  BY <1>1, <1>3 DEF RunInv, Decided, Left, Start
<1>4. CASE Execute
  <2>1. cpu' = "check" /\ ended' = ended
    BY <1>4 DEF kernelVars, Execute, Compute, Jump, Call, Fault, MovIn, MovOut, FileCall, Exit, Executing
  <2> QED BY <1>1, <1>4, <2>1, ExecuteEnds DEF RunInv, Decided, Left
<1>5. CASE CheckInterrupt
  <2>1. cpu = "check" /\ flag_exit \in BOOLEAN
    BY <1>5 DEF CheckInterrupt, RunInv, CpuInv, CycleTyped
  <2>2. cpu' = "reset" \/ (cpu' = "run" /\ flag_exit = FALSE /\ flag_exit' = FALSE /\ exit_code' = exit_code)
    BY <1>5, <2>1 DEF CheckInterrupt, EndCycle
  <2> QED BY <1>1, <2>1, <2>2 DEF RunInv, Decided, Left
<1>6. CASE Reset
  BY <1>1, <1>6 DEF RunInv, Decided, Left, Reset
<1>7. CASE Planner \/ Console \/ World
  <2>1. UNCHANGED cycleVars
    BY <1>7, CycleAlone
  <2>2. ended \subseteq ended'
    BY <1>7, EndedGrows
  <2> QED BY <2>1, <2>2, <1>2 DEF cycleVars
<1>8. CASE Deliver \/ UNCHANGED vars
  BY <1>8, <1>2 DEF Deliver, vars, cycleVars, kernelVars
<1> QED BY <1>3, <1>4, <1>5, <1>6, <1>7, <1>8 DEF Next, Cpu

------------------------------------------------------------------------------
(* What Programs sees of a process.                                         *)

Asking(p) == IF p \notin ended /\ Reason(p) \in Calls THEN Reason(p) ELSE None
Alive(p) == p \notin ended /\ Reason(p) \notin Fatal

\* In the PCB.
AtHome(p) ==
  p # actual \/ (dispatch = NoContext /\ cpu \notin {"run", "check"} /\ reply = NoReply)

\* The context of the process that runs is in one place, those of the others
\* are in their PCBs.
Placed ==
  /\ \A p \in Process : AtHome(p) => At(p) = saved[p] /\ Reason(p) = None
  /\ dispatch # NoContext => At(actual) = dispatch /\ Reason(actual) = None
  /\ cpu \in {"run", "check"} =>
       /\ At(actual) = [pc |-> ctx.pc, regs |-> registers]
       /\ Reason(actual) = IF cpu = "check" THEN exit_code ELSE None
  /\ reply # NoReply => At(actual) = reply.ctx /\ Reason(actual) = reply.reason

LEMMA Places == CpuInv => Placed
<1> SUFFICES ASSUME CpuInv PROVE Placed
  OBVIOUS
<1>1. NoContext.pid \notin Process /\ NoReply.ctx.pid \notin Process
  BY CpuAssumption DEF NoContext, NoReply
<1>2. ASSUME NEW p \in Process, AtHome(p)
      PROVE  At(p) = saved[p] /\ Reason(p) = None
  <2>1. dispatch.pid # p /\ ~(cpu \in {"run", "check"} /\ ctx.pid = p) /\ reply.ctx.pid # p
    BY <1>1, <1>2 DEF CpuInv, Trip, AtHome
  <2> QED BY <2>1 DEF At, Reason
<1>3. ASSUME dispatch # NoContext PROVE At(actual) = dispatch /\ Reason(actual) = None
  <2>1. /\ dispatch.pid = actual /\ actual \in Process /\ reply = NoReply
        /\ cpu \notin {"run", "check"}
    BY <1>3, Running DEF CpuInv, Trip
  <2>2. reply.ctx.pid # actual
    BY <1>1, <2>1
  <2> QED BY <2>1, <2>2 DEF At, Reason
<1>4. ASSUME cpu \in {"run", "check"}
      PROVE  /\ At(actual) = [pc |-> ctx.pc, regs |-> registers]
             /\ Reason(actual) = IF cpu = "check" THEN exit_code ELSE None
  <2>1. ctx.pid = actual /\ actual \in Process /\ reply = NoReply /\ dispatch = NoContext
    BY <1>4, Running DEF CpuInv, Trip
  <2>2. reply.ctx.pid # actual /\ dispatch.pid # actual
    BY <1>1, <2>1
  <2> QED BY <1>4, <2>1, <2>2 DEF At, Reason
<1>5. ASSUME reply # NoReply PROVE At(actual) = reply.ctx /\ Reason(actual) = reply.reason
  <2>1. /\ reply.ctx.pid = actual /\ actual \in Process /\ dispatch = NoContext
        /\ cpu \notin {"run", "check"}
    BY <1>5, Running DEF CpuInv, Trip
  <2>2. dispatch.pid # actual
    BY <1>1, <2>1
  <2> QED BY <2>1, <2>2 DEF At, Reason
<1> QED BY <1>2, <1>3, <1>4, <1>5 DEF Placed

LEMMA PlacesNext == CpuInv' => Placed'
  BY Places, PTL

\* p looks to Programs as it did.
SameFor(p) == /\ At(p).pc' = At(p).pc /\ At(p).regs' = At(p).regs
              /\ Asking(p)' = Asking(p) /\ Alive(p)' = Alive(p)

\* The variables of Programs.
UserAt == [p \in Process |-> At(p).pc]
UserRegs == [p \in Process |-> At(p).regs]
UserAsking == [p \in Process |-> Asking(p)]
UserAlive == [p \in Process |-> Alive(p)]

LEMMA Stutter ==
  ASSUME UNCHANGED <<mem, served>>, \A p \in Process : SameFor(p)
  PROVE  UNCHANGED User!vars
  BY DEF SameFor, User!vars, Asking, Alive

LEMMA OneChanges ==
  ASSUME NEW p \in Process, \A q \in Process \ {p} : SameFor(q)
  PROVE  /\ UserAt' = [UserAt EXCEPT ![p] = At(p).pc']
         /\ UserRegs' = [UserRegs EXCEPT ![p] = At(p).regs']
         /\ UserAsking' = [UserAsking EXCEPT ![p] = Asking(p)']
         /\ UserAlive' = [UserAlive EXCEPT ![p] = Alive(p)']
<1>1. \A q \in Process \ {p} :
        /\ At(q).pc' = At(q).pc /\ At(q).regs' = At(q).regs
        /\ Asking(q)' = Asking(q) /\ Alive(q)' = Alive(q)
  BY DEF SameFor
<1>2. UserAt' = [UserAt EXCEPT ![p] = At(p).pc']
  BY <1>1 DEF UserAt
<1>3. UserRegs' = [UserRegs EXCEPT ![p] = At(p).regs']
  BY <1>1 DEF UserRegs
<1>4. UserAsking' = [UserAsking EXCEPT ![p] = Asking(p)']
  BY <1>1 DEF UserAsking
<1>5. UserAlive' = [UserAlive EXCEPT ![p] = Alive(p)']
  BY <1>1 DEF UserAlive
<1> QED BY <1>2, <1>3, <1>4, <1>5

LEMMA SameCalls == User!Calls = Calls
  BY DEF User!Calls, Calls, Plain, FileIO

\* A call served, a call refused, an end, an instruction executed.
LEMMA UserServe ==
  ASSUME NEW p \in Process, \A q \in Process \ {p} : SameFor(q),
         Alive(p), Alive(p)', Asking(p) # None, Asking(p)' = None,
         At(p).pc' = At(p).pc, At(p).regs' = At(p).regs,
         served' = [served EXCEPT ![p] = At(p).pc - 1], mem' = mem
  PROVE  User!Serve(p)
<1>1. /\ UserAt' = UserAt /\ UserRegs' = UserRegs /\ UserAlive' = UserAlive
      /\ UserAsking' = [UserAsking EXCEPT ![p] = None]
      /\ UserAlive[p] /\ UserAsking[p] # None /\ UserAt[p] = At(p).pc
  <2>1. /\ UserAt' = [UserAt EXCEPT ![p] = At(p).pc']
        /\ UserRegs' = [UserRegs EXCEPT ![p] = At(p).regs']
        /\ UserAsking' = [UserAsking EXCEPT ![p] = Asking(p)']
        /\ UserAlive' = [UserAlive EXCEPT ![p] = Alive(p)']
    BY OneChanges
  <2>2. /\ UserAt[p] = At(p).pc /\ UserRegs[p] = At(p).regs /\ UserAlive[p] = Alive(p)
        /\ UserAsking[p] = Asking(p)
    BY DEF UserAt, UserRegs, UserAlive, UserAsking
  <2>3. UserAt' = UserAt
    BY <2>1, <2>2 DEF UserAt
  <2>4. UserRegs' = UserRegs
    BY <2>1, <2>2 DEF UserRegs
  <2>5. Alive(p)' = Alive(p)
    BY DEF Alive
  <2>6. UserAlive' = UserAlive
    BY <2>1, <2>2, <2>5 DEF UserAlive
  <2> QED BY <2>1, <2>2, <2>3, <2>4, <2>6
<1> QED BY <1>1 DEF User!Serve, UserAt, UserRegs, UserAsking, UserAlive, Asking, Alive

LEMMA UserEnd ==
  ASSUME NEW p \in Process, \A q \in Process \ {p} : SameFor(q),
         Alive(p), ~Alive(p)', Asking(p)' = None,
         At(p).pc' = At(p).pc, At(p).regs' = At(p).regs, mem' = mem,
         \/ served' = served
         \/ Asking(p) # None /\ served' = [served EXCEPT ![p] = At(p).pc - 1]
  PROVE  User!End(p) \/ User!Refuse(p)
<1>1. /\ UserAt' = [UserAt EXCEPT ![p] = At(p).pc']
      /\ UserRegs' = [UserRegs EXCEPT ![p] = At(p).regs']
      /\ UserAsking' = [UserAsking EXCEPT ![p] = Asking(p)']
      /\ UserAlive' = [UserAlive EXCEPT ![p] = Alive(p)']
  BY OneChanges
<1>2. /\ UserAt[p] = At(p).pc /\ UserRegs[p] = At(p).regs /\ UserAlive[p] = Alive(p)
      /\ UserAsking[p] = Asking(p)
  BY DEF UserAt, UserRegs, UserAlive, UserAsking
<1>3. UserAt' = UserAt
  BY <1>1, <1>2 DEF UserAt
<1>4. UserRegs' = UserRegs
  BY <1>1, <1>2 DEF UserRegs
<1>5. Alive(p)' = FALSE
  BY DEF Alive
<1>6. /\ UserAlive' = [UserAlive EXCEPT ![p] = FALSE]
      /\ UserAsking' = [UserAsking EXCEPT ![p] = None] /\ UserAlive[p]
      /\ served' = served \/ (UserAsking[p] # None /\ served' = [served EXCEPT ![p] = UserAt[p] - 1])
  BY <1>1, <1>2, <1>5
<1> QED BY <1>3, <1>4, <1>6
        DEF User!End, User!Refuse, UserAt, UserRegs, UserAsking, UserAlive, Asking, Alive

\* A process that has ended runs on, and only its own memory and counters move.
LEMMA UserGone ==
  ASSUME NEW p \in Process, \A q \in Process \ {p} : SameFor(q),
         ~Alive(p), ~Alive(p)', NEW m, NEW v,
         mem' = [mem EXCEPT ![p] = m], mem'[p] = m,
         served' = [served EXCEPT ![p] = v], served'[p] = v
  PROVE  User!Gone(p)
<1>1. /\ UserAt' = [UserAt EXCEPT ![p] = At(p).pc']
      /\ UserRegs' = [UserRegs EXCEPT ![p] = At(p).regs']
      /\ UserAsking' = [UserAsking EXCEPT ![p] = Asking(p)']
      /\ UserAlive' = [UserAlive EXCEPT ![p] = Alive(p)']
  BY OneChanges
<1>2. /\ UserAlive[p] = Alive(p) /\ UserAt'[p] = At(p).pc' /\ UserRegs'[p] = At(p).regs'
      /\ UserAsking'[p] = Asking(p)'
  BY DEF UserAt, UserRegs, UserAlive, UserAsking
<1>3. UserAlive' = UserAlive /\ ~UserAlive[p]
  <2>1. Alive(p)' = Alive(p)
    BY DEF Alive
  <2> QED BY <1>1, <1>2, <2>1 DEF UserAlive
<1>4. /\ UserAt' = [UserAt EXCEPT ![p] = UserAt'[p]]
      /\ UserRegs' = [UserRegs EXCEPT ![p] = UserRegs'[p]]
      /\ UserAsking' = [UserAsking EXCEPT ![p] = UserAsking'[p]]
  BY <1>1, <1>2
<1>5. mem' = [mem EXCEPT ![p] = mem'[p]] /\ served' = [served EXCEPT ![p] = served'[p]]
  OBVIOUS
<1> QED BY <1>3, <1>4, <1>5 DEF User!Gone, UserAt, UserRegs, UserAsking, UserAlive, Asking, Alive

\* What instruction i of p does to the registers r, the memory m and the counter.
NewRegisters(i, r, m) ==
  CASE i.op = "SET"    -> [r EXCEPT ![i.to] = i.value]
    [] i.op = "SUM"    -> [r EXCEPT ![i.to] = (r[i.to] + r[i.from]) % Word]
    [] i.op = "SUB"    -> [r EXCEPT ![i.to] = (r[i.to] - r[i.from]) % Word]
    [] i.op = "MOV_IN" -> [r EXCEPT ![i.to] = m[i.page]]
    [] OTHER           -> r

LEMMA UserExecute ==
  ASSUME NEW p \in Process, \A q \in Process \ {p} : SameFor(q), served' = served,
         Alive(p), Alive(p)', Asking(p) = None,
         NEW i, i = Program[p][At(p).pc + 1], i.op # "EXIT",
         At(p).regs' = NewRegisters(i, At(p).regs, mem[p]),
         mem' = IF i.op = "MOV_OUT" THEN [mem EXCEPT ![p][i.page] = At(p).regs[i.from]] ELSE mem,
         At(p).pc' = IF i.op = "JNZ" /\ At(p).regs[i.from] # 0 THEN i.target ELSE At(p).pc + 1,
         Asking(p)' = IF i.op \in Calls THEN i.op ELSE None
  PROVE  User!Step(p)
<1>1. /\ UserAt' = [UserAt EXCEPT ![p] = At(p).pc']
      /\ UserRegs' = [UserRegs EXCEPT ![p] = At(p).regs']
      /\ UserAsking' = [UserAsking EXCEPT ![p] = Asking(p)']
      /\ UserAlive' = [UserAlive EXCEPT ![p] = Alive(p)']
  BY OneChanges
<1>2. /\ UserAt[p] = At(p).pc /\ UserRegs[p] = At(p).regs /\ UserAlive[p] = Alive(p)
      /\ UserAsking[p] = Asking(p)
  BY DEF UserAt, UserRegs, UserAlive, UserAsking
<1>3. UserAlive' = UserAlive
  <2>1. Alive(p)' = Alive(p)
    BY DEF Alive
  <2> QED BY <1>1, <1>2, <2>1 DEF UserAlive
<1>4. UserAlive[p] /\ UserAsking[p] = None /\ i = Program[p][UserAt[p] + 1]
  BY <1>2
<1>5. mem' = IF i.op = "MOV_OUT" THEN [mem EXCEPT ![p][i.page] = UserRegs[p][i.from]] ELSE mem
  BY <1>2
<1>6. UserAt' = [UserAt EXCEPT ![p] =
        IF i.op = "JNZ" /\ UserRegs[p][i.from] # 0 THEN i.target ELSE @ + 1]
  BY <1>1, <1>2
<1>7. UserAsking' = IF i.op \in User!Calls THEN [UserAsking EXCEPT ![p] = i.op] ELSE UserAsking
  <2>1. CASE i.op \in Calls
    BY <1>1, <2>1, SameCalls
  <2>2. CASE i.op \notin Calls
    BY <1>1, <1>2, <2>2, SameCalls DEF UserAsking
  <2> QED BY <2>1, <2>2
<1>8. CASE i.op \in {"SET", "SUM", "SUB", "MOV_IN"}
  <2>1. PICK v : /\ UserRegs' = [UserRegs EXCEPT ![p] = [UserRegs[p] EXCEPT ![i.to] = v]]
                 /\ v = CASE i.op = "SET" -> i.value
                          [] i.op = "SUM" -> (UserRegs[p][i.to] + UserRegs[p][i.from]) % Word
                          [] i.op = "SUB" -> (UserRegs[p][i.to] - UserRegs[p][i.from]) % Word
                          [] i.op = "MOV_IN" -> mem[p][i.page]
    BY <1>1, <1>2, <1>8 DEF NewRegisters
  <2>2. UserRegs' = [UserRegs EXCEPT ![p][i.to] = v]
    BY <2>1
  <2>3. CASE i.op = "SET"
    BY <1>3, <1>4, <1>5, <1>6, <1>7, <2>1, <2>2, <2>3 DEF User!Step, User!Effect, User!Put,
       UserAt, UserRegs, UserAsking, UserAlive, Asking, Alive
  <2>4. CASE i.op = "SUM"
    BY <1>3, <1>4, <1>5, <1>6, <1>7, <2>1, <2>2, <2>4 DEF User!Step, User!Effect, User!Put,
       UserAt, UserRegs, UserAsking, UserAlive, Asking, Alive
  <2>5. CASE i.op = "SUB"
    BY <1>3, <1>4, <1>5, <1>6, <1>7, <2>1, <2>2, <2>5 DEF User!Step, User!Effect, User!Put,
       UserAt, UserRegs, UserAsking, UserAlive, Asking, Alive
  <2>6. CASE i.op = "MOV_IN"
    BY <1>3, <1>4, <1>5, <1>6, <1>7, <2>1, <2>2, <2>6 DEF User!Step, User!Effect, User!Put,
       UserAt, UserRegs, UserAsking, UserAlive, Asking, Alive
  <2> QED BY <1>8, <2>3, <2>4, <2>5, <2>6
<1>9. CASE i.op \notin {"SET", "SUM", "SUB", "MOV_IN"}
  <2>1. At(p).regs' = At(p).regs
    BY <1>9 DEF NewRegisters
  <2>2. UserRegs' = UserRegs
    BY <1>1, <1>2, <2>1 DEF UserRegs
  <2> QED BY <1>3, <1>4, <1>5, <1>6, <1>7, <1>9, <2>2 DEF User!Step, User!Effect, User!Put,
       UserAt, UserRegs, UserAsking, UserAlive, Asking, Alive
<1> QED BY <1>8, <1>9

------------------------------------------------------------------------------
(* Every step is one of Programs.                                           *)

UserSteps == (\E p \in Process : User!Step(p) \/ User!Serve(p) \/ User!End(p) \/ User!Refuse(p) \/ User!Gone(p))
             \/ UNCHANGED User!vars

LEMMA HomeSame ==
  ASSUME CpuInv, CpuInv', NEW p \in Process, AtHome(p), AtHome(p)',
         saved'[p] = saved[p], p \in ended' <=> p \in ended
  PROVE  SameFor(p)
<1>1. At(p) = saved[p] /\ Reason(p) = None
  BY Places DEF Placed
<1>2. At(p)' = saved'[p] /\ Reason(p)' = None
  BY PlacesNext DEF Placed
<1>3. Asking(p)' = Asking(p)
  BY <1>1, <1>2 DEF Asking
<1>4. Alive(p)' = Alive(p)
  BY <1>1, <1>2 DEF Alive
<1> QED BY <1>1, <1>2, <1>3, <1>4 DEF SameFor

\* The others while p runs: nothing happens to them.
LEMMA OthersSame ==
  ASSUME CpuInv, CpuInv', UNCHANGED actual,
         \A q \in Process \ {actual} :
            saved'[q] = saved[q] /\ (q \in ended' <=> q \in ended)
  PROVE  \A q \in Process \ {actual} : SameFor(q)
  BY HomeSame DEF AtHome

\* One step of a process that has ended.
LEMMA Ghost ==
  ASSUME CpuInv, CpuInv', NEW p \in Process, \A q \in Process \ {p} : SameFor(q),
         p \in ended, p \in ended', UNCHANGED mem \/ mem' = [mem EXCEPT ![p] = mem'[p]],
         UNCHANGED served \/ served' = [served EXCEPT ![p] = served'[p]]
  PROVE  UserSteps
<1>1. ~Alive(p) /\ ~Alive(p)'
  BY DEF Alive
<1>2. mem' = [mem EXCEPT ![p] = mem'[p]] /\ served' = [served EXCEPT ![p] = served'[p]]
  <2>1. mem = [mem EXCEPT ![p] = mem[p]] /\ served = [served EXCEPT ![p] = served[p]]
    BY DEF CpuInv, CycleTyped, KernelTyped, SavedTyped
  <2> QED BY <2>1
<1>3. User!Gone(p)
  BY <1>1, <1>2, UserGone
<1> QED BY <1>3 DEF UserSteps

\* A step of the kernel that moves no context and finishes nobody.
LEMMA KernelStutters ==
  ASSUME UNCHANGED <<saved, served, wireVars, cycleVars, ended>>
  PROVE  UserSteps
<1>1. ASSUME NEW q \in Process PROVE SameFor(q)
  <2>1. At(q)' = At(q)
    BY DEF At, wireVars, cycleVars
  <2>2. Reason(q)' = Reason(q)
    BY DEF Reason, wireVars, cycleVars
  <2>3. Asking(q)' = Asking(q) /\ Alive(q)' = Alive(q)
    BY <2>2 DEF Asking, Alive
  <2> QED BY <2>1, <2>3 DEF SameFor
<1> QED BY <1>1, Stutter DEF UserSteps, cycleVars

LEMMA WorldSteps ==
  ASSUME World PROVE UserSteps
<1>1. UNCHANGED <<saved, served, wireVars, cycleVars, ended>>
  BY DEF World, Quantum, KillFind, Unblock, WriteReady
<1> QED BY <1>1, KernelStutters

\* A kill ends a process wherever it is, on the CPU perhaps, and its call with it.
LEMMA ConsoleSteps ==
  ASSUME RunInv, CpuInv', Console PROVE UserSteps
<1>1. UNCHANGED <<actual, saved, served, wireVars, cycleVars>> /\ mem' = mem
  BY DEF Console, KillJudge, KillQueued, KillRemoves, KillExits, cycleVars
<1>2. CASE UNCHANGED ended
  BY <1>1, <1>2, KernelStutters
<1>3. CASE KillExits
  <2>1. PICK p \in Process : p = killing
    BY <1>3 DEF RunInv, CpuInv, OwnInv, PlannerOK, KillExits
  <2>2. ended' = ended \cup {p}
    BY <1>3, <2>1 DEF KillExits
  <2>3. \A q \in Process : At(q)' = At(q) /\ Reason(q)' = Reason(q)
    BY <1>1 DEF At, Reason, wireVars, cycleVars
  <2>4. ASSUME NEW q \in Process \ {p} PROVE SameFor(q)
    <3>1. q \in ended' <=> q \in ended
      BY <2>2
    <3>2. Asking(q)' = Asking(q) /\ Alive(q)' = Alive(q)
      BY <2>3, <3>1 DEF Asking, Alive
    <3> QED BY <2>3, <3>2 DEF SameFor
  <2>5. Asking(p)' = None /\ ~Alive(p)' /\ At(p).pc' = At(p).pc /\ At(p).regs' = At(p).regs
    BY <2>2, <2>3 DEF Asking, Alive
  <2>6. CASE Alive(p)
    <3>1. User!End(p) \/ User!Refuse(p)
      BY <1>1, <2>4, <2>5, <2>6, UserEnd
    <3> QED BY <3>1 DEF UserSteps
  <2>7. CASE ~Alive(p)
    <3>1. Asking(p) = None
      BY <2>7 DEF Alive, Asking, Fatal, Calls, Plain, FileIO
    <3>2. Alive(p)' = Alive(p)
      BY <2>5, <2>7 DEF Alive
    <3>3. SameFor(p)
      BY <2>5, <3>1, <3>2 DEF SameFor
    <3> QED BY <1>1, <2>4, <3>3, Stutter DEF UserSteps
  <2> QED BY <2>6, <2>7
<1> QED BY <1>2, <1>3 DEF Console, KillJudge, KillQueued, KillRemoves

LEMMA PlannerSteps ==
  ASSUME RunInv, CpuInv', PlannerMoves
  PROVE  UserSteps
<1>1. CpuInv /\ UNCHANGED <<saved, served, ended, reply, cycleVars>> /\ mem' = mem
  BY DEF RunInv, PlannerMoves, Send, Leave, Requeue, WriteStatus, Free, Pick, wireVars, cycleVars
<1>2. CASE Send
  <2>1. /\ stp = "loop" /\ actual' = actual /\ actual \in Process
    BY <1>1, <1>2, Running DEF Send, CpuInv
  <2>2. PICK p \in Process : p = actual /\ p = actual'
    BY <2>1
  <2>3. \A q \in Process \ {p} : SameFor(q)
    BY <1>1, <2>1, <2>2, OthersSame
  <2>4. CASE p \in ended
    BY <1>1, <2>3, <2>4, Ghost
  <2>5. CASE p \notin ended
    <3>1. dispatch' = [pid |-> p, pc |-> saved[p].pc, regs |-> saved[p].regs]
      BY <1>2, <2>2, <2>5 DEF Send
    <3>2. AtHome(p)
      BY <1>1, <2>1, <2>2 DEF AtHome, CpuInv, Trip
    <3>3. At(p) = saved[p] /\ Reason(p) = None
      BY <1>1, <3>2, Places DEF Placed
    <3>4. dispatch' # NoContext
      BY <3>1, CpuAssumption DEF NoContext
    <3>5. At(p)' = dispatch' /\ Reason(p)' = None
      BY <2>2, <3>4, PlacesNext DEF Placed
    <3>6. Asking(p)' = Asking(p) /\ Alive(p)' = Alive(p)
      BY <1>1, <3>3, <3>5 DEF Asking, Alive
    <3>7. SameFor(p)
      BY <3>1, <3>3, <3>5, <3>6 DEF SameFor
    <3> QED BY <1>1, <2>3, <3>7, Stutter DEF UserSteps
  <2> QED BY <2>4, <2>5
<1>3. CASE UNCHANGED dispatch
  BY <1>1, <1>3, KernelStutters DEF wireVars
<1> QED BY <1>2, <1>3 DEF PlannerMoves, Leave, Requeue, WriteStatus, Free, Pick, wireVars

LEMMA HandleSteps ==
  ASSUME RunInv, CpuInv', Handle PROVE UserSteps
<1>1. CpuInv
  BY DEF RunInv
<1>2. PICK next \in {"enqueue", "block", "free"} : Receive(next)
  BY HandleReceives
<1>3. /\ stp = "cpu" /\ reply # NoReply
      /\ saved' = [saved EXCEPT ![actual] = [pc |-> reply.ctx.pc, regs |-> reply.ctx.regs]]
      /\ reply' = NoReply /\ UNCHANGED <<actual, dispatch, cycleVars>> /\ mem' = mem
  BY <1>2 DEF Receive, cycleVars
<1>4. /\ actual \in Process /\ dispatch = NoContext /\ cpu \notin {"run", "check"}
  BY <1>1, <1>3, Running DEF CpuInv, Trip
<1>5. PICK p \in Process : p = actual /\ p = actual'
  BY <1>3, <1>4
<1>6. /\ At(p) = reply.ctx /\ Reason(p) = reply.reason
      /\ At(p)' = [pc |-> reply.ctx.pc, regs |-> reply.ctx.regs] /\ Reason(p)' = None
  <2>1. AtHome(p)'
    BY <1>3, <1>4, <1>5 DEF AtHome, cycleVars
  <2>2. At(p)' = saved'[p] /\ Reason(p)' = None
    BY <1>3, <1>4, <1>5, <2>1, PlacesNext DEF Placed
  <2>3. saved'[p] = [pc |-> reply.ctx.pc, regs |-> reply.ctx.regs]
    BY <1>1, <1>3, <1>4, <1>5 DEF CpuInv, KernelTyped, SavedTyped
  <2> QED BY <1>1, <1>3, <1>5, <2>2, <2>3, Places DEF Placed
<1>7. /\ At(p).pc' = At(p).pc /\ At(p).regs' = At(p).regs
      /\ Asking(p)' = None /\ (Alive(p)' <=> p \notin ended')
  BY <1>3, <1>5, <1>6 DEF Asking, Alive, Calls, Plain, FileIO, Fatal
<1>8. ended' = ended \/ ended' = ended \cup {p}
  BY <1>5 DEF Handle, Evicted, Exited, PageFaulted, CallDone, CallContinues, CallBlocks,
     CallRefused, WriteInvalid, UnknownReason, Finishes
<1>9. \A q \in Process \ {p} : SameFor(q)
  <2>1. \A q \in Process \ {p} : saved'[q] = saved[q]
    BY <1>1, <1>3, <1>5 DEF CpuInv, KernelTyped, SavedTyped
  <2> QED BY <1>1, <1>3, <1>5, <1>8, <2>1, OthersSame
<1>10. served' = served \/ (Served /\ reply.reason \in Calls)
  BY DEF Handle, Evicted, Exited, PageFaulted, CallDone, CallContinues, CallBlocks,
     CallRefused, WriteInvalid, UnknownReason, Calls, Plain, FileIO
<1>11. CASE p \in ended
  <2>1. Served => served' = [served EXCEPT ![p] = served'[p]]
    BY <1>1, <1>5 DEF Served, CpuInv, KernelTyped, SavedTyped
  <2> QED BY <1>1, <1>3, <1>8, <1>9, <1>10, <1>11, <2>1, Ghost
<1>12. CASE p \notin ended /\ (Evicted \/ PageFaulted \/ UnknownReason \/ Exited)
  <2>1. /\ served' = served /\ reply.reason \in Evictions \cup {"PAGE_FAULT", None} \cup Fatal
        /\ p \in ended' <=> reply.reason \in Fatal
    BY <1>5, <1>12 DEF Evicted, PageFaulted, UnknownReason, Exited, Finishes, Evictions, Fatal
  <2>2. Asking(p)' = Asking(p)
    BY <1>6, <1>7, <2>1 DEF Asking, Calls, Plain, FileIO, Evictions, Fatal
  <2>3. Alive(p)' = Alive(p)
    <3>1. Alive(p) <=> reply.reason \notin Fatal
      BY <1>6, <1>12 DEF Alive
    <3>2. Alive(p)' <=> reply.reason \notin Fatal
      BY <1>7, <2>1
    <3> QED BY <3>1, <3>2 DEF Alive
  <2>4. SameFor(p)
    BY <1>7, <2>2, <2>3 DEF SameFor
  <2> QED BY <1>3, <1>9, <2>1, <2>4, Stutter DEF UserSteps
<1>13. ASSUME p \notin ended, Served, reply.reason \in Calls PROVE UserSteps
  <2>1. Asking(p) # None /\ Alive(p)
    BY <1>6, <1>13 DEF Asking, Alive, Calls, Plain, FileIO, Fatal
  <2>2. served' = [served EXCEPT ![p] = At(p).pc - 1]
    BY <1>5, <1>6, <1>13 DEF Served
  <2>3. CASE p \in ended'
    <3>1. ~Alive(p)'
      BY <1>7, <2>3
    <3>2. User!End(p) \/ User!Refuse(p)
      BY <1>3, <1>7, <1>9, <2>1, <2>2, <3>1, UserEnd
    <3> QED BY <3>2 DEF UserSteps
  <2>4. CASE p \notin ended'
    <3>1. Alive(p)'
      BY <1>7, <2>4
    <3>2. User!Serve(p)
      BY <1>3, <1>7, <1>9, <2>1, <2>2, <3>1, UserServe
    <3> QED BY <3>2 DEF UserSteps
  <2> QED BY <2>3, <2>4
<1>14. CASE p \notin ended /\ (CallDone \/ CallContinues \/ CallBlocks \/ CallRefused \/ WriteInvalid)
  <2>1. Served /\ reply.reason \in Calls
    BY <1>14 DEF CallDone, CallContinues, CallBlocks, CallRefused, WriteInvalid,
       Calls, Plain, FileIO
  <2> QED BY <1>13, <1>14, <2>1
<1> QED BY <1>11, <1>12, <1>14 DEF Handle

\* The start of a burst, its end and the interruptions move contexts and reasons.
LEMMA StartResetSteps ==
  ASSUME RunInv, CpuInv', Start \/ Reset \/ Deliver \/ UNCHANGED vars PROVE UserSteps
<1>1. CpuInv /\ UNCHANGED <<kernelVars, reply, mem, actual, saved, ended, served>>
  BY DEF RunInv, Start, Reset, Deliver, vars, wireVars, cycleVars, kernelVars
<1>2. CASE Start
  <2>1. /\ dispatch # NoContext /\ ctx' = dispatch /\ registers' = dispatch.regs
        /\ cpu' = "run"
    BY <1>2 DEF Start
  <2>2. PICK p \in Process : p = actual /\ p = actual'
    BY <1>1, <2>1, Running DEF CpuInv, Trip
  <2>3. At(p) = dispatch /\ Reason(p) = None
    BY <1>1, <2>1, <2>2, Places DEF Placed
  <2>4. At(p)' = [pc |-> dispatch.pc, regs |-> dispatch.regs] /\ Reason(p)' = None
    BY <2>1, <2>2, PlacesNext DEF Placed
  <2>5. Asking(p)' = Asking(p) /\ Alive(p)' = Alive(p)
    BY <1>1, <2>3, <2>4 DEF Asking, Alive
  <2>6. SameFor(p)
    BY <2>3, <2>4, <2>5 DEF SameFor
  <2>7. \A q \in Process \ {p} : SameFor(q)
    BY <1>1, <2>2, OthersSame
  <2> QED BY <1>1, <2>6, <2>7, Stutter DEF UserSteps
<1>3. CASE ~Start
  <2>1. /\ UNCHANGED dispatch
        /\ \/ cpu' = cpu /\ ctx' = ctx /\ registers' = registers /\ exit_code' = exit_code
           \/ cpu = "reset" /\ cpu' = "idle"
    BY <1>3 DEF Reset, Deliver, vars, wireVars, cycleVars
  <2>2. ASSUME NEW q \in Process PROVE SameFor(q)
    <3>1. At(q)' = At(q)
      BY <1>1, <2>1 DEF At
    <3>2. Reason(q)' = Reason(q)
      BY <1>1, <2>1 DEF Reason
    <3>3. Asking(q)' = Asking(q) /\ Alive(q)' = Alive(q)
      BY <1>1, <3>2 DEF Asking, Alive
    <3> QED BY <3>1, <3>3 DEF SameFor
  <2> QED BY <1>1, <2>2, Stutter DEF UserSteps
<1> QED BY <1>2, <1>3

LEMMA CheckSteps ==
  ASSUME RunInv, CpuInv', CheckInterrupt PROVE UserSteps
<1>1. /\ CpuInv /\ cpu = "check"
      /\ UNCHANGED <<kernelVars, registers, mem, actual, saved, ended, served>>
  BY DEF RunInv, CheckInterrupt, kernelVars
<1>2. /\ ctx \in Contexts /\ registers \in Regs /\ ctx.pid = actual
      /\ flag_exit \in BOOLEAN /\ exit_code \in Codes
  BY <1>1 DEF CpuInv, CycleTyped, Trip
<1>3. PICK p \in Process : p = actual /\ p = actual'
  BY <1>1, Running DEF CpuInv, Trip
<1>4. At(p) = [pc |-> ctx.pc, regs |-> registers] /\ Reason(p) = exit_code
  BY <1>1, <1>3, Places DEF Placed
<1>5. \A q \in Process \ {p} : SameFor(q)
  BY <1>1, <1>3, OthersSame
<1>6. CASE p \in ended
  BY <1>1, <1>5, <1>6, Ghost
<1>7. CASE p \notin ended /\ ctx.pid = interrupcion.pid
           /\ ~(flag_exit /\ exit_code # None /\ interrupcion.motivo \in Evictions)
  <2>1. EndCycle(TRUE, interrupcion.motivo, WithRegisters(ctx))
    BY <1>7 DEF CheckInterrupt
  <2>2. interrupcion.motivo \in Interrupts
    BY <1>1, <1>2, <1>3, <1>7, CpuAssumption
       DEF CpuInv, OwnInv, SlotOK, WasAsked, NoInterrupt
  <2>3. /\ WithRegisters(ctx).pc = ctx.pc /\ WithRegisters(ctx).regs = registers
        /\ WithRegisters(ctx).pid = p
    BY <1>2, <1>3, RegistersChanged DEF WithRegisters
  <2>4. reply' = [ctx |-> WithRegisters(ctx), reason |-> interrupcion.motivo]
    BY <2>1 DEF EndCycle
  <2>5. reply' # NoReply
    BY <2>3, <2>4, CpuAssumption DEF NoReply, NoContext
  <2>6. At(p)' = WithRegisters(ctx) /\ Reason(p)' = interrupcion.motivo
    BY <1>3, <2>4, <2>5, PlacesNext DEF Placed
  <2>7. /\ At(p).pc' = At(p).pc /\ At(p).regs' = At(p).regs
        /\ Asking(p)' = None
    BY <1>4, <2>2, <2>3, <2>6
       DEF Asking, Calls, Plain, FileIO, Interrupts, Evictions
  <2>8. CASE interrupcion.motivo \in Evictions
    <3>1. exit_code = None
      BY <1>1, <1>2, <1>7, <2>8 DEF RunInv, Decided
    <3>2. Asking(p)' = Asking(p)
      BY <1>4, <2>7, <3>1 DEF Asking
    <3>3. Alive(p) /\ Alive(p)'
      BY <1>1, <1>7, <1>4, <2>6, <2>8, <3>1 DEF Alive, Fatal, Evictions
    <3>4. SameFor(p)
      <4>1. Alive(p)' = Alive(p)
        BY <3>3 DEF Alive
      <4> QED BY <2>7, <3>2, <4>1 DEF SameFor
    <3> QED BY <1>1, <1>5, <3>4, Stutter DEF UserSteps
  <2>9. CASE interrupcion.motivo \notin Evictions
    <3>1. interrupcion.motivo \in Fatal
      BY <2>2, <2>9 DEF Interrupts, Fatal
    <3>2. ~Alive(p)'
      BY <2>6, <3>1 DEF Alive
    <3>3. CASE Alive(p)
      <4>1. User!End(p) \/ User!Refuse(p)
        BY <1>1, <1>5, <2>7, <3>2, <3>3, UserEnd
      <4> QED BY <4>1 DEF UserSteps
    <3>4. CASE ~Alive(p)
      <4>1. exit_code \in Fatal
        BY <1>4, <1>7, <3>4 DEF Alive
      <4>2. Asking(p)' = Asking(p)
        BY <1>4, <2>7, <4>1 DEF Asking, Calls, Plain, FileIO, Fatal
      <4>3. Alive(p)' = Alive(p)
        BY <3>2, <3>4 DEF Alive
      <4>4. SameFor(p)
        BY <2>7, <4>2, <4>3 DEF SameFor
      <4> QED BY <1>1, <1>5, <4>4, Stutter DEF UserSteps
    <3> QED BY <3>3, <3>4
  <2> QED BY <2>8, <2>9
<1>8. CASE p \notin ended /\ EndCycle(flag_exit, exit_code, ctx)
  <2>1. /\ ctx' = ctx /\ cpu' = IF flag_exit THEN "reset" ELSE "run"
        /\ reply' = IF flag_exit THEN [ctx |-> ctx, reason |-> exit_code] ELSE reply
        /\ exit_code' = exit_code
    BY <1>8 DEF EndCycle
  <2>2. At(p).pc' = At(p).pc /\ At(p).regs' = At(p).regs /\ Reason(p)' = Reason(p)
    <3>1. CASE flag_exit = TRUE
      <4>1. reply' = [ctx |-> ctx, reason |-> exit_code] /\ ctx.regs = registers
        BY <1>1, <1>2, <1>3, <1>8, <2>1, <3>1 DEF RunInv, Left
      <4>2. reply' # NoReply
        BY <1>2, <1>3, <4>1, CpuAssumption DEF NoReply, NoContext
      <4>3. At(p)' = ctx /\ Reason(p)' = exit_code
        BY <1>3, <4>1, <4>2, PlacesNext DEF Placed
      <4> QED BY <1>4, <4>1, <4>3
    <3>2. CASE flag_exit = FALSE
      <4>1. cpu' = "run" /\ exit_code = None
        BY <1>1, <2>1, <3>2 DEF RunInv, Decided
      <4>2. At(p)' = [pc |-> ctx.pc, regs |-> registers] /\ Reason(p)' = None
        BY <1>1, <1>3, <2>1, <4>1, PlacesNext DEF Placed
      <4> QED BY <1>4, <4>1, <4>2
    <3> QED BY <1>2, <3>1, <3>2
  <2>3. Asking(p)' = Asking(p) /\ Alive(p)' = Alive(p)
    BY <1>1, <2>2 DEF Asking, Alive
  <2>4. SameFor(p)
    BY <2>2, <2>3 DEF SameFor
  <2> QED BY <1>1, <1>5, <2>4, Stutter DEF UserSteps
<1> QED BY <1>6, <1>7, <1>8 DEF CheckInterrupt

LEMMA ExecuteSteps ==
  ASSUME RunInv, CpuInv', HarmlessRead, Execute PROVE UserSteps
<1>1. /\ CpuInv /\ cpu = "run" /\ cpu' = "check"
      /\ UNCHANGED <<actual, saved, ended, served, wireVars>>
  BY DEF RunInv, Execute, Compute, Jump, Call, Fault, MovIn, MovOut, FileCall, Exit,
     Executing, kernelVars
<1>2. /\ ctx.pid = actual /\ registers \in Regs /\ Fetched \in Instruction
      /\ Fetched = Program[actual][ctx.pc + 1] /\ ctx.pc \in Nat
      /\ exit_code = None /\ flag_exit = FALSE
  <2>1. /\ ctx.pid = actual /\ registers \in Regs /\ Fetched \in Instruction /\ stp = "cpu"
    BY <1>1, Executed
  <2>2. exit_code = None /\ flag_exit = FALSE
    BY <1>1 DEF RunInv, CpuInv, Decided, CycleTyped
  <2> QED BY <1>1, <2>1, <2>2, Contexts4 DEF Fetched
<1>3. PICK p \in Process : p = actual /\ p = actual'
  BY <1>1, Executed
<1>4. /\ At(p) = [pc |-> ctx.pc, regs |-> registers] /\ Reason(p) = None
      /\ Asking(p) = None /\ (p \notin ended => Alive(p))
  <2>1. At(p) = [pc |-> ctx.pc, regs |-> registers] /\ Reason(p) = None
    BY <1>1, <1>3, Places DEF Placed
  <2> QED BY <2>1 DEF Asking, Alive, Fatal, Calls, Plain, FileIO
<1>5. At(p)' = [pc |-> ctx'.pc, regs |-> registers'] /\ Reason(p)' = exit_code'
  BY <1>1, <1>3, PlacesNext DEF Placed
<1>6. /\ \A q \in Process \ {p} : SameFor(q)
      /\ p \notin ended => /\ Asking(p)' = IF exit_code' \in Calls THEN exit_code' ELSE None
                           /\ Alive(p)' <=> exit_code' \notin Fatal
      /\ At(p).pc' = ctx'.pc /\ At(p).regs' = registers'
  BY <1>1, <1>3, <1>5, OthersSame DEF Asking, Alive
<1>7. /\ Fetched.op \in {"SET", "SUM", "SUB", "JNZ", "MOV_IN", "MOV_OUT", "EXIT"} \cup Calls
      /\ Fetched.op \in {"SET", "SUM", "SUB", "MOV_IN"} => Fetched.to \in Register
      /\ Fetched.op = "JNZ" => Fetched.target \in Nat
  BY <1>2, Operands
<1>8. /\ WithRegisters(ctx).pc = ctx.pc /\ Advanced.pc = ctx.pc + 1
      /\ WithRegisters(Advanced).pc = ctx.pc + 1
  BY <1>1, Contexts4
\* A process that has ended may write in its own memory.
<1>9. CASE p \in ended
  <2>1. mem' = mem \/ mem' = [mem EXCEPT ![p] = mem'[p]]
    <3>1. CASE MovOut
      <4>1. mem' = [mem EXCEPT ![p][Fetched.page] = registers[Fetched.from]]
        BY <1>2, <1>3, <3>1 DEF MovOut
      <4>2. mem' = [mem EXCEPT ![p] = [mem[p] EXCEPT ![Fetched.page] = registers[Fetched.from]]]
        BY <4>1
      <4>3. mem'[p] = [mem[p] EXCEPT ![Fetched.page] = registers[Fetched.from]]
        BY <1>1, <4>2 DEF CpuInv, CycleTyped
      <4> QED BY <4>2, <4>3
    <3>2. CASE mem' = mem
      BY <3>2
    <3> QED BY <1>1, <3>1, <3>2 DEF Execute, Compute, Jump, Call, Fault, MovIn, FileCall, Exit
  <2> QED BY <1>1, <1>6, <1>9, <2>1, Ghost
\* An instruction that is executed to its end.
<1>10. ASSUME registers' = NewRegisters(Fetched, registers, mem[p]),
             mem' = IF Fetched.op = "MOV_OUT"
                    THEN [mem EXCEPT ![p][Fetched.page] = registers[Fetched.from]] ELSE mem,
             ctx'.pc = IF Fetched.op = "JNZ" /\ registers[Fetched.from] # 0
                       THEN Fetched.target ELSE ctx.pc + 1,
             exit_code' = IF Fetched.op \in Calls THEN Fetched.op ELSE None,
             Fetched.op # "EXIT", p \notin ended
      PROVE  UserSteps
  <2>1. PICK i : i = Fetched
    OBVIOUS
  <2>2. i = Program[p][At(p).pc + 1]
    <3>1. At(p).pc = ctx.pc
      BY <1>4
    <3>2. Fetched = Program[p][ctx.pc + 1]
      BY <1>2, <1>3
    <3> QED BY <2>1, <3>1, <3>2
  <2>3. Asking(p)' = IF i.op \in Calls THEN i.op ELSE None
    BY <1>6, <1>10, <2>1 DEF Calls, Plain, FileIO
  <2>4. Alive(p)'
    BY <1>6, <1>10 DEF Calls, Plain, FileIO, Fatal
  <2>5. /\ At(p).regs' = NewRegisters(i, At(p).regs, mem[p])
        /\ mem' = IF i.op = "MOV_OUT" THEN [mem EXCEPT ![p][i.page] = At(p).regs[i.from]] ELSE mem
        /\ At(p).pc' = IF i.op = "JNZ" /\ At(p).regs[i.from] # 0 THEN i.target ELSE At(p).pc + 1
    BY <1>4, <1>6, <1>10, <2>1
  <2>6. User!Step(p)
    BY <1>1, <1>4, <1>6, <1>10, <2>1, <2>2, <2>3, <2>4, <2>5, UserExecute
  <2> QED BY <2>6 DEF UserSteps
<1>11. CASE p \notin ended /\ Compute
  <2>1. /\ Fetched.op \in {"SET", "SUM", "SUB"} /\ ctx' = Advanced
        /\ exit_code' = None /\ mem' = mem
    BY <1>2, <1>11 DEF Compute, Executing, GoOn
  <2>2. registers' = NewRegisters(Fetched, registers, mem[p])
    <3>1. CASE Fetched.op = "SET"
      BY <1>11, <3>1 DEF Compute, NewRegisters
    <3>2. CASE Fetched.op = "SUM"
      <4>1. Fetched.to \in Register /\ Fetched.from \in Register
        BY <1>2, <3>2, Operands
      <4>2. registers[Fetched.to] \in Int /\ registers[Fetched.from] \in Int
        BY <1>2, <4>1, CpuAssumption DEF Regs
      <4>3. registers[Fetched.to] + registers[Fetched.from] = registers[Fetched.from] + registers[Fetched.to]
        BY <4>2
      <4> QED BY <1>11, <3>2, <4>3 DEF Compute, NewRegisters
    <3>3. CASE Fetched.op = "SUB"
      BY <1>11, <3>3 DEF Compute, NewRegisters
    <3> QED BY <2>1, <3>1, <3>2, <3>3
  <2>3. Fetched.op \notin Calls
    BY <2>1 DEF Calls, Plain, FileIO
  <2> QED BY <1>8, <1>10, <1>11, <2>1, <2>2, <2>3
<1>12. CASE p \notin ended /\ Jump
  <2>1. Fetched.op = "JNZ" /\ exit_code' = None /\ mem' = mem /\ registers' = registers
    BY <1>2, <1>12 DEF Jump, Executing, GoOn
  <2>2. ctx'.pc = IF registers[Fetched.from] # 0 THEN Fetched.target ELSE ctx.pc + 1
    <3>1. ctx \in Contexts
      BY <1>1, Executed
    <3>2. Fetched.target - 1 + 1 = Fetched.target
      BY <1>7, <2>1
    <3>3. ctx' = [ctx EXCEPT !.pc = IF registers[Fetched.from] # 0 THEN Fetched.target ELSE ctx.pc + 1]
      BY <1>12, <3>2 DEF Jump
    <3> QED BY <3>1, <3>3 DEF Contexts
  <2>3. NewRegisters(Fetched, registers, mem[p]) = registers
    BY <2>1 DEF NewRegisters
  <2>4. Fetched.op \notin Calls
    BY <2>1 DEF Calls, Plain, FileIO
  <2> QED BY <1>10, <1>12, <2>1, <2>2, <2>3, <2>4
<1>13. CASE p \notin ended /\ (Call \/ FileCall)
  <2>1. /\ Fetched.op \in Calls /\ ctx' = WithRegisters(Advanced)
        /\ exit_code' = Fetched.op /\ UNCHANGED <<registers, mem>>
    BY <1>13 DEF Call, FileCall, Executing, Stop, Calls
  <2>2. Fetched.op \notin {"SET", "SUM", "SUB", "MOV_IN", "MOV_OUT", "JNZ", "EXIT"}
    BY <2>1 DEF Calls, Plain, FileIO
  <2>3. NewRegisters(Fetched, registers, mem[p]) = registers
    BY <2>2 DEF NewRegisters
  <2> QED BY <1>8, <1>10, <1>13, <2>1, <2>2, <2>3
<1>14. CASE p \notin ended /\ MovIn
  <2>1. Fetched.op = "MOV_IN" /\ ctx' = Advanced /\ exit_code' = None /\ mem' = mem
    BY <1>2, <1>14 DEF MovIn, Executing, GoOn
  <2>2. NewRegisters(Fetched, registers, mem[p]) = [registers EXCEPT ![Fetched.to] = mem[p][Fetched.page]]
    BY <2>1 DEF NewRegisters
  <2>3. registers' = NewRegisters(Fetched, registers, mem[p])
    <3>1. CASE mem[p][Fetched.page] = Word - 1
      <4>1. registers' = registers /\ registers[Fetched.to] = Word - 1
        BY <1>1, <1>2, <1>3, <1>14, <2>1, <3>1 DEF MovIn, HarmlessRead
      <4> QED BY <1>2, <2>2, <3>1, <4>1 DEF Regs
    <3>2. CASE mem[p][Fetched.page] # Word - 1
      BY <1>2, <1>3, <1>14, <2>2, <3>2 DEF MovIn
    <3> QED BY <3>1, <3>2
  <2>4. Fetched.op \notin Calls
    BY <2>1 DEF Calls, Plain, FileIO
  <2> QED BY <1>8, <1>10, <1>14, <2>1, <2>3, <2>4
<1>15. CASE p \notin ended /\ MovOut
  <2>1. /\ Fetched.op = "MOV_OUT" /\ ctx' = Advanced /\ exit_code' = None
        /\ registers' = registers
        /\ mem' = [mem EXCEPT ![p][Fetched.page] = registers[Fetched.from]]
    BY <1>2, <1>3, <1>15 DEF MovOut, Executing, GoOn
  <2>2. NewRegisters(Fetched, registers, mem[p]) = registers
    BY <2>1 DEF NewRegisters
  <2>3. Fetched.op \notin Calls
    BY <2>1 DEF Calls, Plain, FileIO
  <2> QED BY <1>8, <1>10, <1>15, <2>1, <2>2, <2>3
<1>16. CASE p \notin ended /\ Fault
  <2>1. ctx' = WithRegisters(ctx) /\ exit_code' = "PAGE_FAULT" /\ UNCHANGED <<registers, mem>>
    BY <1>16 DEF Fault, Stop
  <2>2. Asking(p)' = Asking(p) /\ Alive(p)'
    BY <1>4, <1>6, <1>16, <2>1 DEF Calls, Plain, FileIO, Fatal
  <2>3. Alive(p)' = Alive(p)
    BY <1>4, <1>16, <2>2 DEF Alive
  <2>4. At(p).pc' = At(p).pc /\ At(p).regs' = At(p).regs
    BY <1>4, <1>6, <1>8, <2>1
  <2>5. SameFor(p)
    BY <2>2, <2>3, <2>4 DEF SameFor
  <2> QED BY <1>1, <1>6, <2>1, <2>5, Stutter DEF UserSteps
<1>17. CASE p \notin ended /\ Exit
  <2>1. ctx' = WithRegisters(ctx) /\ exit_code' = "PROC_EXIT_SUCCESS" /\ UNCHANGED <<registers, mem>>
    BY <1>17 DEF Exit, Stop
  <2>2. Asking(p)' = None /\ ~Alive(p)' /\ At(p).pc' = At(p).pc /\ At(p).regs' = At(p).regs
    BY <1>4, <1>6, <1>8, <1>17, <2>1 DEF Calls, Plain, FileIO, Fatal
  <2>3. User!End(p) \/ User!Refuse(p)
    BY <1>1, <1>4, <1>6, <1>17, <2>1, <2>2, UserEnd
  <2> QED BY <2>3 DEF UserSteps
<1> QED BY <1>9, <1>11, <1>12, <1>13, <1>14, <1>15, <1>16, <1>17 DEF Execute

LEMMA RunInvInit == Init => RunInv
  BY CpuInvInit DEF Init, RunInv, Decided, Left

\* Until a process ends (exit_process), the CPU gives it what Programs promises,
\* whatever is killed, and run again once killed, beside it; as long as it reads
\* no word of all ones where the registers of the burst are lost (execute_MOV_IN
\* takes it for an error and does not save them).  Of a process that has ended
\* only this is shown: it disturbs no other, and does not count as alive again.
THEOREM ProgramsRunAlone == Spec /\ []HarmlessRead => RunsPrograms
<1>1. Init => User!Init
  <2> SUFFICES ASSUME Init PROVE User!Init
    OBVIOUS
  <2>1. CpuInv
    BY CpuInvInit
  <2>2. ASSUME NEW p \in Process
        PROVE  /\ At(p).pc = 0 /\ At(p).regs = [r \in Register |-> 0]
               /\ Reason(p) = None /\ p \notin ended
    <3>1. AtHome(p)
      BY CpuAssumption DEF Init, AtHome
    <3>2. At(p) = saved[p] /\ Reason(p) = None
      BY <2>1, <3>1, Places DEF Placed
    <3> QED BY <3>2 DEF Init, NoContext
  <2> QED BY <2>2 DEF Init, User!Init, Calls, Plain, FileIO, Fatal
<1>2. RunInv /\ HarmlessRead /\ [Next]_vars => [User!Next]_(User!vars)
  <2> SUFFICES ASSUME RunInv, HarmlessRead, [Next]_vars PROVE [User!Next]_(User!vars)
    OBVIOUS
  <2>1. CpuInv'
    BY CpuInvStep DEF RunInv
  <2>2. CASE Planner
    BY <2>1, <2>2, PlannerSteps, HandleSteps, PlannerSplit DEF UserSteps, User!Next
  <2>3. CASE Console \/ World
    BY <2>1, <2>3, ConsoleSteps, WorldSteps DEF UserSteps, User!Next
  <2>4. CASE Cpu
    BY <2>1, <2>4, StartResetSteps, CheckSteps, ExecuteSteps DEF Cpu, UserSteps, User!Next
  <2>5. CASE UNCHANGED vars
    BY <2>1, <2>5, StartResetSteps DEF UserSteps, User!Next
  <2> QED BY <2>2, <2>3, <2>4, <2>5 DEF Next
<1> QED BY <1>1, <1>2, RunInvInit, RunInvStep, PTL DEF Spec, RunsPrograms, User!Spec
=============================================================================
