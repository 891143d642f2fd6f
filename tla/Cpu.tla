--------------------------------- MODULE Cpu ---------------------------------
(***************************************************************************)
(* The CPU (cpu/src) and the kernel's side of its two connections.         *)
(*                                                                         *)
(*   dispatch   the short-term planner sends a context and waits for it;   *)
(*              the CPU runs the instruction cycle until flag_exit         *)
(*   interrupt  one thread of the kernel sends the queued interruptions,   *)
(*              one thread of the CPU stores the last in a single slot     *)
(*                                                                         *)
(* Interruptions come from quantum timers, the arrival of a more urgent    *)
(* process, the console's kill and a write on a file opened for reading.   *)
(* One action is one instruction, one critical section of interrupcion_-   *)
(* mutex, or one message.  Which ready process is picked, and what a call  *)
(* does (Resources, Files, Paging), are free choices here; so is the       *)
(* moment a queued process is picked (Planning has the semaphore).         *)
(*                                                                         *)
(* A kill does not finish a process: whoever holds its pcb, a page load, a *)
(* sleep, a file or resource being granted or the planner that already had *)
(* picked it, makes it ready again and it runs on, with the registers      *)
(* finish_pcb has freed.  What follows the use of a pcb that process_kill  *)
(* has freed is not modelled.                                              *)
(***************************************************************************)
EXTENDS Integers, Sequences, FiniteSets

CONSTANTS
  Process, NoProcess,
  Program,       \* the instructions memory serves for each process
  Priority,
  Register, Page,
  Word,          \* 2^width of a register
  Leftover,      \* what may be read in registers that were freed
  Planners,      \* the planning algorithms to consider
  MaxTimers,     \* bound: live quantum timers of each process
  MaxQueue,      \* bound: interruptions on their way when a timer fires
  MaxKills       \* bound: kills of each process by the operator

None == "none"                        \* op_code -1

ASSUME CpuAssumption ==
  /\ NoProcess \notin Process
  /\ Word \in Nat \ {0} /\ Register # {}
  /\ Leftover \subseteq [Register -> 0 .. Word - 1]
  /\ Priority \in [Process -> Nat]
  /\ Planners \subseteq {"FIFO", "RR", "PRIORIDADES"}
  /\ MaxTimers \in [Process -> Nat] /\ MaxKills \in [Process -> Nat] /\ MaxQueue \in Nat

VARIABLES
  planner,       \* the configured algorithm
  status,        \* pcb->current_status
  saved,         \* program_counter and cpu_registries of each pcb
  queued,        \* processes in the structure of ready ones
  waiting,       \* those a thread, or whoever frees a resource or a file, will ready
  late,          \* those it has queued, with READY still to be written
  ended,         \* exit_process has run: is_finished, registers freed
  freed,         \* process_kill has run
  actual,        \* the pcb the short-term planner runs
  stp,           \* where the short-term planner is
  timers,        \* threads in watch_quantum_rr, per process
  interruptions, \* the kernel's queue and the interrupt socket
  console,       \* where handle_force_process_exit is
  killing,       \* its pcb
  kills,
  dispatch,      \* context on its way to the CPU
  reply,         \* context and op_code on their way back
  cpu,           \* where the dispatch thread of the CPU is
  ctx,           \* its copy of the context
  registers,     \* registros_4bytes
  flag_exit, exit_code,
  interrupcion,  \* the slot
  mem,           \* memory of each process, one word a page (see Paging)
  asked,         \* history: reasons queued for each process
  served,        \* history: the instruction of the last call handled
  spent,         \* history: the slot has already ended a burst
  reused         \* history: a slot ended two bursts

pcbVars    == <<status, queued, waiting, late, ended, freed>>
stpVars    == <<actual, stp, saved, timers, served>>
consoleVars == <<console, killing, kills>>
kernelVars == <<planner, pcbVars, stpVars, consoleVars>>
queueVars  == <<interruptions, asked>>
wireVars   == <<dispatch, reply>>
cycleVars  == <<cpu, ctx, registers, flag_exit, exit_code, mem>>
slotVars   == <<interrupcion, spent, reused>>
vars == <<kernelVars, queueVars, wireVars, cycleVars, slotVars>>

Evictions == {"PROC_EXIT_QUANTUM", "PROC_EXIT_PRIORITY"}   \* is_planner_eviction
Fatal == {"PROC_EXIT_FORCE", "PROC_EXIT_SUCCESS", "PROC_EXIT_INVALID_WRITE",
          "PROC_EXIT_RESOURCE_NOT_FOUND"}                   \* is_exit_op_code
Interrupts == Evictions \cup {"PROC_EXIT_FORCE", "PROC_EXIT_INVALID_WRITE"}
Plain == {"SLEEP", "WAIT", "SIGNAL", "F_OPEN", "F_CLOSE", "F_SEEK", "F_TRUNCATE"}
FileIO == {"F_READ", "F_WRITE"}
Calls == Plain \cup FileIO

\* What memory serves (instruccion_proceso.c): an instruction has operands of its
\* kind.  Past the last instruction memory has nothing to send, so a program ends
\* with EXIT and jumps only inside; one that does not takes memory down.
Instruction ==
  [op : {"SET"}, to : Register, value : 0 .. Word - 1]
  \cup [op : {"SUM", "SUB"}, to : Register, from : Register]
  \cup [op : {"JNZ"}, from : Register, target : Nat]
  \cup [op : {"MOV_IN"}, to : Register, page : Page]
  \cup [op : {"MOV_OUT"}, page : Page, from : Register]
  \cup [op : Calls \cup {"EXIT"}]

ASSUME ProgramAssumption ==
  \A p \in Process :
    /\ Program[p] \in Seq(Instruction) /\ Program[p] # <<>>
    /\ Program[p][Len(Program[p])].op = "EXIT"
    /\ \A n \in 1 .. Len(Program[p]) :
         Program[p][n].op = "JNZ" => Program[p][n].target < Len(Program[p])

NoContext == [pid |-> NoProcess, pc |-> 0, regs |-> [r \in Register |-> 0]]
NoReply == [ctx |-> NoContext, reason |-> None]
NoInterrupt == [pid |-> NoProcess, motivo |-> None]

------------------------------------------------------------------------------
(* Kernel: the interruptions.                                               *)

\* handle_planner_evict_process: only a process in EXEC is interrupted.
Interrupt(p, reason) ==
  IF status[p] = "EXEC"
  THEN /\ interruptions' = Append(interruptions, [pid |-> p, motivo |-> reason])
       /\ asked' = [asked EXCEPT ![p] = @ \cup {reason}]
  ELSE UNCHANGED queueVars

\* process_on_ready: queued and, under PRIORIDADES, the process that runs is
\* interrupted for a more urgent one.  The status is written after.
Enqueue(p) ==
  /\ queued' = queued \cup {p}
  /\ IF planner = "PRIORIDADES" /\ actual # NoProcess /\ Priority[p] < Priority[actual]
     THEN Interrupt(actual, "PROC_EXIT_PRIORITY")
     ELSE UNCHANGED queueVars

\* watch_quantum_rr.  No timer is ever cancelled: the id handle_quantum passes
\* to pthread_cancel is not the one pthread_create returned.  QUANTUM / 1000 is
\* 0 as configured, so a timer may fire before the burst it is meant for.
Quantum(p) ==
  /\ timers[p] > 0 /\ Len(interruptions) < MaxQueue
  /\ timers' = [timers EXCEPT ![p] = @ - 1]
  /\ Interrupt(p, "PROC_EXIT_QUANTUM")
  /\ UNCHANGED <<planner, pcbVars, actual, stp, saved, served, consoleVars,
                 wireVars, cycleVars, slotVars>>

\* handle_force_process_exit, on the console's thread: the pcb is looked up, its
\* status read under the mutex, and what it decides done with the mutex free.
KillFind(p) ==
  /\ kills[p] < MaxKills[p] /\ console = "idle" /\ p \notin ended
  /\ kills' = [kills EXCEPT ![p] = @ + 1]
  /\ killing' = p /\ console' = "found"
  /\ UNCHANGED <<planner, pcbVars, stpVars, queueVars, wireVars, cycleVars, slotVars>>

KillJudge ==
  /\ console = "found"
  /\ console' = IF status[killing] = "EXEC" THEN "interrupt" ELSE "remove"
  /\ UNCHANGED <<planner, pcbVars, stpVars, killing, kills, queueVars, wireVars,
                 cycleVars, slotVars>>

KillQueued ==
  /\ console = "interrupt"
  /\ interruptions' = Append(interruptions, [pid |-> killing, motivo |-> "PROC_EXIT_FORCE"])
  /\ asked' = [asked EXCEPT ![killing] = @ \cup {"PROC_EXIT_FORCE"}]
  /\ console' = "idle" /\ killing' = NoProcess
  /\ UNCHANGED <<planner, pcbVars, stpVars, kills, wireVars, cycleVars, slotVars>>

\* remove_process, and exit_process whatever has become of the process.
KillRemoves ==
  /\ console = "remove"
  /\ queued' = queued \ {killing}
  /\ console' = "exit"
  /\ UNCHANGED <<planner, status, waiting, late, ended, freed, stpVars, killing, kills,
                 queueVars, wireVars, cycleVars, slotVars>>

KillExits ==
  /\ console = "exit"
  /\ status' = [status EXCEPT ![killing] = "EXIT"]
  /\ ended' = ended \cup {killing}
  /\ console' = "idle" /\ killing' = NoProcess
  /\ UNCHANGED <<planner, queued, waiting, late, freed, stpVars, kills,
                 queueVars, wireVars, cycleVars, slotVars>>

------------------------------------------------------------------------------
(* Kernel: the short-term planner around cpu_execute.                       *)

\* next_process and process_execute, whatever the status.
Pick(p) ==
  /\ stp = "ready" /\ p \in queued \ freed
  /\ queued' = queued \ {p}
  /\ status' = [status EXCEPT ![p] = "EXEC"]
  /\ actual' = p
  /\ stp' = "loop"
  /\ UNCHANGED <<planner, waiting, late, ended, freed, saved, timers, served, consoleVars,
                 queueVars, wireVars, cycleVars, slotVars>>

\* while (process->current_status == EXEC): init_quantum, then the context.
Send ==
  /\ stp = "loop" /\ status[actual] = "EXEC" /\ actual \notin freed
  /\ timers' = IF planner = "RR" /\ timers[actual] < MaxTimers[actual]
               THEN [timers EXCEPT ![actual] = @ + 1] ELSE timers
  /\ \E regs \in {saved[actual].regs} \cup (IF actual \in ended THEN Leftover ELSE {}) :
       dispatch' = [pid |-> actual, pc |-> saved[actual].pc, regs |-> regs]
  /\ stp' = "cpu"
  /\ UNCHANGED <<planner, pcbVars, actual, saved, served, consoleVars, queueVars,
                 reply, cycleVars, slotVars>>

Leave ==
  /\ stp = "loop" /\ status[actual] # "EXEC"
  /\ stp' = "ready"
  /\ UNCHANGED <<planner, pcbVars, actual, saved, timers, served, consoleVars,
                 queueVars, wireVars, cycleVars, slotVars>>

\* update_pcb_from_context
Receive(next) ==
  /\ stp = "cpu" /\ reply # NoReply
  /\ saved' = [saved EXCEPT ![actual] = [pc |-> reply.ctx.pc, regs |-> reply.ctx.regs]]
  /\ reply' = NoReply
  /\ stp' = next
  /\ UNCHANGED <<planner, late, freed, actual, timers, consoleVars, dispatch, cycleVars,
                 slotVars>>

Served == served' = [served EXCEPT ![actual] = reply.ctx.pc - 1]
Becomes(s) == status' = [status EXCEPT ![actual] = s]
Waits == waiting' = waiting \cup {actual}
\* remove_process and exit_process.
Finishes == /\ queued' = queued \ {actual}
            /\ ended' = ended \cup {actual}
            /\ Becomes("EXIT")

\* onEvicted: unless it has been killed, it is queued again.
Evicted ==
  /\ reply.reason \in Evictions
  /\ Receive(IF status[actual] # "EXIT" THEN "enqueue" ELSE "free")
  /\ UNCHANGED <<status, queued, waiting, ended, served, queueVars>>

\* onExit
Exited ==
  /\ Receive("free") /\ reply.reason \in Fatal
  /\ Finishes
  /\ UNCHANGED <<waiting, served, queueVars>>

\* onPageFault: the page is requested in another thread.
PageFaulted ==
  /\ Receive("free") /\ reply.reason = "PAGE_FAULT"
  /\ Becomes("BLOCK") /\ Waits
  /\ UNCHANGED <<queued, ended, served, queueVars>>

\* A call that leaves the process ready, killed or not.
CallDone ==
  /\ Receive("enqueue") /\ Served
  /\ \/ reply.reason \in {"WAIT", "F_SEEK"} /\ UNCHANGED status
     \/ reply.reason \in {"F_TRUNCATE", "F_READ", "F_WRITE"} /\ Becomes("BLOCK")
  /\ UNCHANGED <<queued, waiting, ended, queueVars>>

\* SIGNAL, F_OPEN, F_CLOSE and calls on a file that is not open: the process
\* keeps the CPU.
CallContinues ==
  /\ Receive("free") /\ reply.reason \in Calls \ {"SLEEP", "WAIT"}
  /\ Served
  /\ UNCHANGED <<status, queued, waiting, ended, queueVars>>

\* WAIT joins the queue of the resource before it blocks.
CallBlocks ==
  /\ reply.reason \in {"SLEEP", "WAIT", "F_OPEN"}
  /\ IF reply.reason = "WAIT"
     THEN Receive("block") /\ UNCHANGED status
     ELSE Receive("free") /\ Becomes("BLOCK")
  /\ Served /\ Waits
  /\ UNCHANGED <<queued, ended, queueVars>>

CallRefused ==
  /\ Receive("free") /\ reply.reason \in {"WAIT", "SIGNAL"}
  /\ Served
  /\ Finishes
  /\ UNCHANGED <<waiting, queueVars>>

\* onFileWrite on a file opened for reading: interrupted, and sent again.
WriteInvalid ==
  /\ Receive("free") /\ reply.reason = "F_WRITE" /\ Len(interruptions) < MaxQueue
  /\ Served
  /\ Interrupt(actual, "PROC_EXIT_INVALID_WRITE")
  /\ UNCHANGED <<status, queued, waiting, ended>>

\* "Unknown CPU eviction reason": the process is sent again.
UnknownReason ==
  /\ Receive("free") /\ reply.reason = None
  /\ UNCHANGED <<status, queued, waiting, ended, served, queueVars>>

\* ready_process on the planner's thread: queued, then READY.
Requeue ==
  /\ stp = "enqueue"
  /\ Enqueue(actual)
  /\ stp' = "write"
  /\ UNCHANGED <<planner, status, waiting, late, ended, freed, actual, saved, timers, served,
                 consoleVars, wireVars, cycleVars, slotVars>>

\* process_block of a WAIT, or process_ready: the last write of the handler.
WriteStatus ==
  /\ stp \in {"block", "write"}
  /\ Becomes(IF stp = "block" THEN "BLOCK" ELSE "READY")
  /\ stp' = "free"
  /\ UNCHANGED <<planner, queued, waiting, late, ended, freed, actual, saved, timers, served,
                 consoleVars, queueVars, wireVars, cycleVars, slotVars>>

\* if (process->is_finished) process_kill: the loop goes on with the pcb.
Free ==
  /\ stp = "free"
  /\ freed' = IF actual \in ended THEN freed \cup {actual} ELSE freed
  /\ stp' = "loop"
  /\ UNCHANGED <<planner, status, queued, waiting, late, ended, actual, saved, timers, served,
                 consoleVars, queueVars, wireVars, cycleVars, slotVars>>

\* A page loaded, a sleep over, a resource or a file granted: ready_process on
\* a pcb found before, whatever has become of it.
Unblock(p) ==
  /\ p \in waiting \ late /\ Len(interruptions) < MaxQueue
  /\ waiting' = waiting \ {p} /\ late' = late \cup {p}
  /\ Enqueue(p)
  /\ UNCHANGED <<planner, status, ended, freed, stpVars, consoleVars, wireVars, cycleVars,
                 slotVars>>

WriteReady(p) ==
  /\ p \in late
  /\ late' = late \ {p}
  /\ status' = [status EXCEPT ![p] = "READY"]
  /\ UNCHANGED <<planner, queued, waiting, ended, freed, stpVars, consoleVars, queueVars,
                 wireVars, cycleVars, slotVars>>

------------------------------------------------------------------------------
(* CPU, dispatch thread: iniciar_ciclo_instruccion.                         *)

Start ==
  /\ cpu = "idle" /\ dispatch # NoContext
  /\ ctx' = dispatch
  /\ registers' = dispatch.regs                  \* actualizar_registros_cpu
  /\ flag_exit' = FALSE /\ exit_code' = None
  /\ cpu' = "run"
  /\ dispatch' = NoContext
  /\ UNCHANGED <<kernelVars, queueVars, reply, mem, slotVars>>

Fetched == Program[ctx.pid][ctx.pc + 1]
Executing(ops) == /\ cpu = "run" /\ Fetched.op \in ops
                  /\ cpu' = "check"
                  /\ UNCHANGED <<kernelVars, queueVars, wireVars, slotVars>>

Advanced == [ctx EXCEPT !.pc = @ + 1]
WithRegisters(c) == [c EXCEPT !.regs = registers]     \* actualizar_registros_ctx
Stop(code) == flag_exit' = TRUE /\ exit_code' = code
GoOn == UNCHANGED <<flag_exit, exit_code>>

\* Mutant: registers wider than the 32 bits of the code.
ComputeWide ==
  /\ Executing({"SET", "SUM", "SUB"})
  /\ LET i == Fetched IN
     registers' = [registers EXCEPT ![i.to] =
       CASE i.op = "SET" -> i.value
         [] i.op = "SUM" -> registers[i.from] + @
         [] i.op = "SUB" -> @ - registers[i.from]]
  /\ ctx' = Advanced
  /\ GoOn /\ UNCHANGED mem

Compute ==
  /\ Executing({"SET", "SUM", "SUB"})
  /\ LET i == Fetched IN
     registers' = [registers EXCEPT ![i.to] =
       CASE i.op = "SET" -> i.value
         [] i.op = "SUM" -> (registers[i.from] + @) % Word
         [] i.op = "SUB" -> (@ - registers[i.from]) % Word]
  /\ ctx' = Advanced
  /\ GoOn /\ UNCHANGED mem

\* The target less one, since the cycle adds one.
Jump ==
  /\ Executing({"JNZ"})
  /\ LET pc == IF registers[Fetched.from] # 0 THEN Fetched.target - 1 ELSE ctx.pc
     IN ctx' = [ctx EXCEPT !.pc = pc + 1]
  /\ GoOn /\ UNCHANGED <<registers, mem>>

\* Mutant: the context leaves without the registers.
CallUnsaved ==
  /\ Executing(Plain)
  /\ ctx' = Advanced
  /\ Stop(Fetched.op)
  /\ UNCHANGED <<registers, mem>>

Call ==
  /\ Executing(Plain)
  /\ ctx' = WithRegisters(Advanced)
  /\ Stop(Fetched.op)
  /\ UNCHANGED <<registers, mem>>

\* The page has no frame: the instruction will be executed again.
Fault ==
  /\ Executing({"MOV_IN", "MOV_OUT"} \cup FileIO)
  /\ ctx' = WithRegisters(ctx)
  /\ Stop("PAGE_FAULT")
  /\ UNCHANGED <<registers, mem>>

\* A word of all ones is taken for an error of the memory: the burst ends with
\* no reason and the registers are not saved.
MovIn ==
  /\ Executing({"MOV_IN"})
  /\ LET i == Fetched
         valor == mem[ctx.pid][i.page]
     IN IF valor = Word - 1
        THEN /\ flag_exit' = TRUE
             /\ UNCHANGED <<registers, exit_code>>
        ELSE /\ registers' = [registers EXCEPT ![i.to] = valor]
             /\ GoOn
  /\ ctx' = Advanced
  /\ UNCHANGED mem

MovOut ==
  /\ Executing({"MOV_OUT"})
  /\ mem' = [mem EXCEPT ![ctx.pid][Fetched.page] = registers[Fetched.from]]
  /\ ctx' = Advanced
  /\ GoOn /\ UNCHANGED registers

FileCall ==
  /\ Executing(FileIO)
  /\ ctx' = WithRegisters(Advanced)
  /\ Stop(Fetched.op)
  /\ UNCHANGED <<registers, mem>>

Exit ==
  /\ Executing({"EXIT"})
  /\ ctx' = WithRegisters(ctx)
  /\ Stop("PROC_EXIT_SUCCESS")
  /\ UNCHANGED <<registers, mem>>

Execute == Compute \/ Jump \/ Call \/ Fault \/ MovIn \/ MovOut \/ FileCall \/ Exit

\* The end of an iteration: a burst with flag_exit is sent back.
EndCycle(stop, code, c) ==
  /\ flag_exit' = stop /\ exit_code' = code
  /\ ctx' = c
  /\ cpu' = IF stop THEN "reset" ELSE "run"
  /\ reply' = IF stop THEN [ctx |-> c, reason |-> code] ELSE reply

\* Mutant: whatever is in the slot is taken for the current process.
CheckAnyPid ==
  /\ cpu = "check"
  /\ IF interrupcion # NoInterrupt
     THEN EndCycle(TRUE, interrupcion.motivo, WithRegisters(ctx))
     ELSE EndCycle(flag_exit, exit_code, ctx)
  /\ UNCHANGED <<kernelVars, queueVars, dispatch, registers, mem, slotVars>>

\* check_interrupt: an eviction by the planner yields to the reason the
\* instruction gave, a forced exit replaces it.
CheckInterrupt ==
  /\ cpu = "check"
  /\ LET mine == interrupcion.pid = ctx.pid IN
     /\ IF mine /\ ~(flag_exit /\ exit_code # None /\ interrupcion.motivo \in Evictions)
        THEN EndCycle(TRUE, interrupcion.motivo, WithRegisters(ctx))
        ELSE EndCycle(flag_exit, exit_code, ctx)
     /\ spent' = (spent \/ mine)
     /\ reused' = (reused \/ (mine /\ spent))
  /\ UNCHANGED <<kernelVars, queueVars, dispatch, registers, mem, interrupcion>>

\* Mutant: the slot keeps the interruption that ended the burst.
ResetNothing ==
  /\ cpu = "reset"
  /\ cpu' = "idle" /\ ctx' = NoContext
  /\ UNCHANGED <<kernelVars, queueVars, wireVars, registers, flag_exit,
                 exit_code, mem, slotVars>>

\* reiniciar_flag_interrupcion, after the context was sent: whatever arrived
\* meanwhile is lost, for whichever process it was.  The context is destroyed.
Reset ==
  /\ cpu = "reset"
  /\ interrupcion' = NoInterrupt /\ spent' = FALSE
  /\ cpu' = "idle" /\ ctx' = NoContext
  /\ UNCHANGED <<kernelVars, queueVars, wireVars, registers, flag_exit,
                 exit_code, mem, reused>>

\* handle_interruptions and the interrupt thread: the last one stays.
Deliver ==
  /\ interruptions # <<>>
  /\ interrupcion' = Head(interruptions) /\ spent' = FALSE
  /\ interruptions' = Tail(interruptions)
  /\ UNCHANGED <<kernelVars, asked, wireVars, cycleVars, reused>>

------------------------------------------------------------------------------
Init ==
  /\ planner \in Planners
  /\ status = [p \in Process |-> "READY"]
  /\ saved = [p \in Process |-> [pc |-> 0, regs |-> NoContext.regs]]
  /\ queued = Process /\ waiting = {} /\ late = {} /\ ended = {} /\ freed = {}
  /\ actual = NoProcess /\ stp = "ready"
  /\ timers = [p \in Process |-> 0]
  /\ console = "idle" /\ killing = NoProcess /\ kills = [p \in Process |-> 0]
  /\ interruptions = <<>> /\ asked = [p \in Process |-> {}]
  /\ served = [p \in Process |-> -1]
  /\ dispatch = NoContext /\ reply = NoReply
  /\ cpu = "idle" /\ ctx = NoContext /\ registers = NoContext.regs
  /\ flag_exit = FALSE /\ exit_code = None
  /\ mem = [p \in Process |-> [a \in Page |-> 0]]
  /\ interrupcion = NoInterrupt /\ spent = FALSE /\ reused = FALSE

Handle == Evicted \/ Exited \/ PageFaulted \/ CallDone \/ CallContinues
          \/ CallBlocks \/ CallRefused \/ WriteInvalid \/ UnknownReason
Planner == Send \/ Leave \/ Handle \/ Requeue \/ WriteStatus \/ Free
           \/ (\E p \in Process : Pick(p))
Console == KillJudge \/ KillQueued \/ KillRemoves \/ KillExits
World == \E p \in Process : Quantum(p) \/ KillFind(p) \/ Unblock(p) \/ WriteReady(p)
Cpu == Start \/ Execute \/ CheckInterrupt \/ Reset \/ Deliver
Next == Planner \/ Console \/ World \/ Cpu

\* Threads that have something to do go on; the operator need not kill, nor a
\* timer fire, nor a blocked process be woken.
Fairness ==
  /\ WF_vars(Start \/ Execute \/ CheckInterrupt \/ Reset) /\ WF_vars(Deliver)
  /\ WF_vars(Planner) /\ WF_vars(Console)
  /\ \A p \in Process : WF_vars(WriteReady(p))
Spec == Init /\ [][Next]_vars /\ Fairness

------------------------------------------------------------------------------
TypeOK ==
  LET Registers == [Register -> 0 .. Word - 1]
      Context == [pid : Process \cup {NoProcess}, pc : Nat, regs : Registers]
      Interruption == [pid : Process, motivo : Interrupts]
  IN
  /\ planner \in Planners
  /\ status \in [Process -> {"READY", "EXEC", "BLOCK", "EXIT"}]
  /\ saved \in [Process -> [pc : Nat, regs : Registers]]
  /\ actual \in Process \cup {NoProcess} /\ killing \in Process \cup {NoProcess}
  /\ stp \in {"ready", "loop", "cpu", "enqueue", "write", "block", "free"}
  /\ queued \subseteq Process /\ waiting \subseteq Process /\ late \subseteq Process
  /\ ended \subseteq Process /\ freed \subseteq ended
  /\ console \in {"idle", "found", "interrupt", "remove", "exit"}
  /\ timers \in [Process -> Nat] /\ kills \in [Process -> Nat]
  /\ \A p \in Process : timers[p] <= MaxTimers[p] /\ kills[p] <= MaxKills[p]
  /\ interruptions \in Seq(Interruption)
  /\ asked \in [Process -> SUBSET Interrupts] /\ served \in [Process -> Int]
  /\ dispatch \in Context /\ ctx \in Context /\ registers \in Registers
  /\ reply \in [ctx : Context, reason : Calls \cup Fatal \cup Interrupts \cup {"PAGE_FAULT", None}]
  /\ cpu \in {"idle", "run", "check", "reset"}
  /\ flag_exit \in BOOLEAN
  /\ exit_code \in Calls \cup Fatal \cup Interrupts \cup {"PAGE_FAULT", None}
  /\ interrupcion \in Interruption \cup {NoInterrupt}
  /\ mem \in [Process -> [Page -> 0 .. Word - 1]]
  /\ spent \in BOOLEAN /\ reused \in BOOLEAN

\* A burst ends for an interruption only if one with that reason was queued for
\* that very process: the slot is shared, and what it holds may be older than
\* the burst and meant for another pid.
OnlyOwnInterruption ==
  reply.reason \in Interrupts => reply.reason \in asked[reply.ctx.pid]

\* No interruption ends two bursts: a process that was evicted, ran its program
\* to the next call and came back is not evicted again by the same slot.
EvictedOnce == ~reused

\* The CPU gives every program what Programs promises, as long as the process
\* has not ended: whatever evictions, page faults and other processes come in
\* between, those that were killed and run on among them, no instruction is
\* skipped, repeated or run on another program's registers, and no call is lost
\* to an interruption that comes with it.
At(p) == CASE dispatch.pid = p -> dispatch
           [] cpu \in {"run", "check"} /\ ctx.pid = p -> [pc |-> ctx.pc, regs |-> registers]
           [] reply.ctx.pid = p -> reply.ctx
           [] OTHER -> saved[p]
Reason(p) == CASE cpu = "check" /\ ctx.pid = p -> exit_code
               [] reply.ctx.pid = p -> reply.reason
               [] OTHER -> None
User == INSTANCE Programs WITH
          at <- [p \in Process |-> At(p).pc],
          regs <- [p \in Process |-> At(p).regs],
          asking <- [p \in Process |-> IF p \notin ended /\ Reason(p) \in Calls THEN Reason(p) ELSE None],
          alive <- [p \in Process |-> p \notin ended /\ Reason(p) \notin Fatal]
RunsPrograms == User!Spec

\* process_handler.c queues a forced exit to take the process off the CPU
\* ("desalojar de la cpu"): a killed process ends.
KillTakesEffect ==
  \A p \in Process : "PROC_EXIT_FORCE" \in asked[p] ~> status[p] = "EXIT"
=============================================================================
