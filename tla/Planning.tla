------------------------------ MODULE Planning ------------------------------
(***************************************************************************)
(* The process planners of the kernel (kernel/src/core/process and         *)
(* kernel/src/core/planners): the threads that move a PCB between NEW,     *)
(* READY, EXEC, BLOCK and EXIT, and the semaphores that tie them together. *)
(*                                                                         *)
(*   "stp"      the short-term planner, one thread                         *)
(*   "ltp"      the long-term planner, one thread                          *)
(*   "console"  the operator's console, one thread, a command at a time    *)
(*   "loader"   the page-fault thread; sem_page_fault admits one at a time *)
(*   Sleeper    the detached threads of SLEEP, one per sleeping process    *)
(*                                                                         *)
(* Each action is one atomic step of one thread: a semaphore operation, an *)
(* operation of a mutex-protected queue, or a status change under          *)
(* pcb_status_mutex.  What the process does on the CPU is a free choice    *)
(* among the reasons handle_cpu_eviction tells apart.  The interruption    *)
(* queue, the accounting of resources and locks and the memory of a PCB    *)
(* are left out: `waiting' is the set of pids in some wait queue, and any  *)
(* of them may be the next one a release pops.  Reading proceso_actual and *)
(* inserting in the list it decides about are one step; a release that     *)
(* finds a counter above its maximum, and so exits its process twice, is   *)
(* left to a model of the resources.                                       *)
(***************************************************************************)
EXTENDS Integers, FiniteSets, Sequences, SequencesExt

CONSTANTS
  Process,        \* the PCBs that may be created
  Sleeper,        \* slots for concurrent SLEEP threads: bounds the model
  NoProcess,      \* the NULL pcb
  Planner,        \* "FIFO", "RR" or "PRIORIDADES" (kernel configuration)
  Priority,       \* priority given to each process; lower is more urgent
  Degree0,        \* configured multiprogramming degree
  Degrees,        \* bound: degrees the operator asks for
  MaxTokens,      \* bound: unused restart tokens the operator accumulates
  MaxKills        \* bound: FINALIZAR_PROCESO commands given

Core == {"stp", "ltp", "console", "loader"}
Thread == Core \cup Sleeper

ASSUME ThreadAssumption ==
  /\ NoProcess \notin Process
  /\ Sleeper \cap (Core \cup {"newQ", "readyQ", "waiting", "hand"}) = {}
  /\ IsFiniteSet(Process) /\ IsFiniteSet(Sleeper)
ASSUME PlannerAssumption ==
  /\ Planner \in {"FIFO", "RR", "PRIORIDADES"}
  /\ Priority \in [Process -> Nat]
ASSUME BoundAssumption ==
  /\ Degree0 \in Nat \ {0} /\ Degrees \subseteq Nat
  /\ MaxTokens \in Nat /\ MaxKills \in Nat

VARIABLES
  status,     \* pcb->current_status; "NONE" before create_new_pcb
  newQ,       \* new_process_contexts
  newEvents,  \* value of new_process_event
  slots,      \* value of max_concurrent_multiprograming
  degree,     \* kernel->multiprogramming_degree
  running,    \* running_process_contexts
  readyQ,     \* the queue or list of the short-term planner
  readyEvents,\* value of ready_process_event
  actual,     \* proceso_actual of the priorities planner
  paused,     \* kernel->paused_planning
  ltpGate,    \* value of sem_ltp_paused
  stpGate,    \* value of sem_stp_paused
  pageSem,    \* value of sem_page_fault
  waiting,    \* pids in the wait queue of some resource
  pc,         \* where each thread is
  subject,    \* the pcb each thread is passing to ready_process
  own,        \* `process' of the STP, the victim of the console's kill
  next,       \* where a ready_process call of the STP returns to
  wanted,     \* the degree a MULTIPROGRAMACION command asked for
  delta,      \* posts minus waits that command has done so far
  kills,      \* number of kill commands given
  active      \* history: processes holding a multiprogramming slot

semVars   == <<newEvents, slots, readyEvents, ltpGate, stpGate, pageSem>>
queueVars == <<newQ, readyQ, actual, running, waiting>>
planVars  == <<paused, degree, wanted, delta>>
flowVars  == <<subject, own, next>>
vars == <<status, semVars, queueVars, planVars, flowVars, pc, kills, active>>

Status == {"NONE", "NEW", "READY", "EXEC", "BLOCK", "EXIT"}

\* Program points.  push, status and post are the body of ready_process,
\* remove, delist, exit and give that of remove_process + exit_process.
ReadyPC == {"push", "status", "post"}
ExitPC  == {"release", "remove", "delist", "exit", "give"}
PC == ReadyPC \cup ExitPC \cup
      {"new", "slot", "check", "gate", "alloc",
       "ready", "pick", "picked", "exec", "loop", "cpu", "replyGate", "handle",
       "wake", "fault", "block", "prompt", "judge", "raise", "lower", "startStp", "startClear",
       "idle", "sleep", "load", "freePage"}

Goto(t, l) == pc' = [pc EXCEPT ![t] = l]

------------------------------------------------------------------------------
(* The three ready structures: a FIFO queue for FIFO and RR, a list ordered *)
(* by priority for PRIORIDADES.                                             *)

\* list_add_sorted of the commons library with comparador_prioridades: after
\* the leading elements that are strictly more urgent.
SortedIndex(q, p) ==
  1 + Cardinality({i \in DOMAIN q : \A j \in 1..i : Priority[q[j]] < Priority[p]})

\* planner->process_on_ready
OnReady(q, p) ==
  IF Planner # "PRIORIDADES" THEN Append(q, p)
  ELSE IF actual # NoProcess /\ Priority[p] < Priority[actual]
       THEN <<p>> \o q
       ELSE InsertAt(q, SortedIndex(q, p), p)

\* planner->remove_process (a pcb is queued at most once, see SingleOwner)
Without(q, p) ==
  IF \E i \in DOMAIN q : q[i] = p
  THEN RemoveAt(q, CHOOSE i \in DOMAIN q : q[i] = p)
  ELSE q

------------------------------------------------------------------------------
(* ready_process, called by every thread: process_on_ready, then the status *)
(* change, then the wake-up of the short-term planner, in this order.       *)

\* Where the caller continues after ready_process.
Resume(t) ==
  CASE t = "stp"     -> next
    [] t = "ltp"     -> "new"
    [] t = "console" -> "release"
    [] t = "loader"  -> "freePage"
    [] OTHER         -> "idle"

Push(t) ==
  /\ pc[t] = "push"
  /\ readyQ' = OnReady(readyQ, subject[t])
  /\ Goto(t, "status")
  /\ UNCHANGED <<status, semVars, newQ, actual, running, waiting, planVars,
                 flowVars, kills, active>>

SetReady(t) ==
  /\ pc[t] = "status"
  /\ status' = [status EXCEPT ![subject[t]] = "READY"]
  /\ Goto(t, "post")
  /\ UNCHANGED <<semVars, queueVars, planVars, flowVars, kills, active>>

\* Mutant: the READY process is not announced.
PostSilently(t) ==
  /\ pc[t] = "post"
  /\ subject' = [subject EXCEPT ![t] = NoProcess]
  /\ Goto(t, Resume(t))
  /\ UNCHANGED <<status, semVars, queueVars, planVars, own, next, kills, active>>

Post(t) ==
  /\ pc[t] = "post"
  /\ readyEvents' = readyEvents + 1
  /\ subject' = [subject EXCEPT ![t] = NoProcess]
  /\ Goto(t, Resume(t))
  /\ UNCHANGED <<status, newEvents, slots, ltpGate, stpGate, pageSem,
                 queueVars, planVars, own, next, kills, active>>

ReadyProcess(t) == Push(t) \/ SetReady(t) \/ Post(t)

------------------------------------------------------------------------------
(* Long-term planner: admits the oldest NEW process when a slot is free.    *)

LtpWaitNew ==
  /\ pc["ltp"] = "new" /\ newEvents > 0
  /\ newEvents' = newEvents - 1
  /\ Goto("ltp", "slot")
  /\ UNCHANGED <<status, slots, readyEvents, ltpGate, stpGate, pageSem,
                 queueVars, planVars, flowVars, kills, active>>

\* Mutant: a slot is taken without waiting for one.
LtpTakeSlot ==
  /\ pc["ltp"] = "slot"
  /\ slots' = slots - 1
  /\ Goto("ltp", "check")
  /\ UNCHANGED <<status, newEvents, readyEvents, ltpGate, stpGate, pageSem,
                 queueVars, planVars, flowVars, kills, active>>

LtpWaitSlot ==
  /\ pc["ltp"] = "slot" /\ slots > 0
  /\ slots' = slots - 1
  /\ Goto("ltp", "check")
  /\ UNCHANGED <<status, newEvents, readyEvents, ltpGate, stpGate, pageSem,
                 queueVars, planVars, flowVars, kills, active>>

LtpCheckPause ==
  /\ pc["ltp"] = "check"
  /\ Goto("ltp", IF paused THEN "gate" ELSE "alloc")
  /\ UNCHANGED <<status, semVars, queueVars, planVars, flowVars, kills, active>>

LtpGate ==
  /\ pc["ltp"] = "gate" /\ ltpGate > 0
  /\ ltpGate' = ltpGate - 1
  /\ Goto("ltp", "alloc")
  /\ UNCHANGED <<status, newEvents, slots, readyEvents, stpGate, pageSem,
                 queueVars, planVars, flowVars, kills, active>>

\* queue_pop, then memory_allocate_new_process: a refused process is dropped
\* with its slot.
LtpAllocate ==
  /\ pc["ltp"] = "alloc" /\ newQ # <<>>
  /\ newQ' = Tail(newQ)
  /\ active' = active \cup {Head(newQ)}
  /\ \/ /\ running' = running \cup {Head(newQ)}
        /\ subject' = [subject EXCEPT !["ltp"] = Head(newQ)]
        /\ Goto("ltp", "push")
     \/ /\ Goto("ltp", "new")
        /\ UNCHANGED <<running, subject>>
  /\ UNCHANGED <<status, semVars, readyQ, actual, waiting, planVars, own,
                 next, kills>>

Ltp == LtpWaitNew \/ LtpWaitSlot \/ LtpCheckPause \/ LtpGate \/ LtpAllocate
       \/ ReadyProcess("ltp")

------------------------------------------------------------------------------
(* Short-term planner: the loop around the CPU.                             *)

StpWaitReady ==
  /\ pc["stp"] = "ready" /\ readyEvents > 0
  /\ readyEvents' = readyEvents - 1
  /\ Goto("stp", "check")
  /\ UNCHANGED <<status, newEvents, slots, ltpGate, stpGate, pageSem,
                 queueVars, planVars, flowVars, kills, active>>

StpCheckPause ==
  /\ pc["stp"] = "check"
  /\ Goto("stp", IF paused THEN "gate" ELSE "pick")
  /\ UNCHANGED <<status, semVars, queueVars, planVars, flowVars, kills, active>>

\* Both waits on sem_stp_paused: before picking and after the CPU's reply.
StpGate ==
  /\ pc["stp"] \in {"gate", "replyGate"} /\ stpGate > 0
  /\ stpGate' = stpGate - 1
  /\ Goto("stp", IF pc["stp"] = "gate" THEN "pick" ELSE "handle")
  /\ UNCHANGED <<status, newEvents, slots, readyEvents, ltpGate, pageSem,
                 queueVars, planVars, flowVars, kills, active>>

\* planner->next_process: NULL when a kill emptied the queue.  The priorities
\* planner takes the pcb off its list before it stores it in proceso_actual.
StpPick ==
  /\ pc["stp"] = "pick"
  /\ \/ /\ readyQ # <<>>
        /\ own' = [own EXCEPT !["stp"] = Head(readyQ)]
        /\ readyQ' = Tail(readyQ)
     \/ /\ readyQ = <<>>
        /\ UNCHANGED <<own, readyQ>>
  /\ Goto("stp", "picked")
  /\ UNCHANGED <<status, semVars, newQ, actual, running, waiting, planVars,
                 subject, next, kills, active>>

StpPicked ==
  /\ pc["stp"] = "picked"
  /\ actual' = IF Planner = "PRIORIDADES" THEN own["stp"] ELSE actual
  /\ Goto("stp", IF own["stp"] # NoProcess THEN "exec" ELSE "ready")
  /\ UNCHANGED <<status, semVars, newQ, readyQ, running, waiting, planVars,
                 flowVars, kills, active>>

StpExecute ==
  /\ pc["stp"] = "exec"
  /\ status' = [status EXCEPT ![own["stp"]] = "EXEC"]
  /\ Goto("stp", "loop")
  /\ UNCHANGED <<semVars, queueVars, planVars, flowVars, kills, active>>

\* Mutant: `if' instead of `while', the planner goes on after one eviction.
StpNoLoop ==
  /\ pc["stp"] = "loop"
  /\ Goto("stp", "ready")
  /\ own' = [own EXCEPT !["stp"] = NoProcess]
  /\ UNCHANGED <<status, semVars, queueVars, planVars, subject, next, kills,
                 active>>

\* while (process->current_status == EXEC)
StpLoop ==
  /\ pc["stp"] = "loop"
  /\ \/ /\ status[own["stp"]] = "EXEC"
        /\ Goto("stp", "cpu")
        /\ UNCHANGED own
     \/ /\ status[own["stp"]] # "EXEC"
        /\ Goto("stp", "ready")
        /\ own' = [own EXCEPT !["stp"] = NoProcess]
  /\ UNCHANGED <<status, semVars, queueVars, planVars, subject, next, kills,
                 active>>

\* cpu_execute returns and the planner looks at the pause flag again.
StpReply ==
  /\ pc["stp"] = "cpu"
  /\ Goto("stp", IF paused THEN "replyGate" ELSE "handle")
  /\ UNCHANGED <<status, semVars, queueVars, planVars, flowVars, kills, active>>

------------------------------------------------------------------------------
(* handle_cpu_eviction: one alternative for each effect a handler can have. *)

Handling == pc["stp"] = "handle"
Current == own["stp"]

\* F_OPEN granted, a file call on a file that is not open: the process keeps
\* the CPU.
HandleContinue ==
  /\ Handling
  /\ Goto("stp", "loop")
  /\ UNCHANGED <<status, semVars, queueVars, planVars, flowVars, kills, active>>

\* assign_resource_to_queued_process: pop a waiting pid, look it up, ready it.
\* A pid that is no longer running is dropped (after F_CLOSE the kernel would
\* not survive it: onFileClose dereferences the result of find_process).
WakeWaiter(t, q, after) ==
  /\ q \in waiting
  /\ waiting' = waiting \ {q}
  /\ IF q \in running
     THEN /\ subject' = [subject EXCEPT ![t] = q]
          /\ next' = IF t = "stp" THEN after ELSE next
          /\ Goto(t, "push")
     ELSE /\ Goto(t, after)
          /\ UNCHANGED <<subject, next>>
  /\ UNCHANGED <<status, semVars, newQ, readyQ, actual, running, planVars,
                 own, kills, active>>

\* SIGNAL may wake a waiter, F_CLOSE one or several; the process keeps the CPU.
HandleSignal ==
  /\ Handling
  /\ Goto("stp", "wake")
  /\ UNCHANGED <<status, semVars, queueVars, planVars, flowVars, kills, active>>

WakeNext == pc["stp"] = "wake" /\ \E q \in waiting : WakeWaiter("stp", q, "wake")

WakeDone ==
  /\ pc["stp"] = "wake"
  /\ Goto("stp", "loop")
  /\ UNCHANGED <<status, semVars, queueVars, planVars, flowVars, kills, active>>

ReadyCurrent ==
  /\ subject' = [subject EXCEPT !["stp"] = Current]
  /\ next' = "loop"
  /\ Goto("stp", "push")

\* WAIT granted and F_SEEK, which re-queue the process.
HandleRequeue ==
  /\ Handling
  /\ ReadyCurrent
  /\ UNCHANGED <<status, semVars, queueVars, planVars, own, kills, active>>

\* QUANTUM and PRIORITY evictions: nothing for a process already in EXIT.
HandleEvicted ==
  /\ Handling
  /\ IF status[Current] # "EXIT"
     THEN ReadyCurrent
     ELSE Goto("stp", "loop") /\ UNCHANGED <<subject, next>>
  /\ UNCHANGED <<status, semVars, queueVars, planVars, own, kills, active>>

\* F_TRUNCATE, F_READ and F_WRITE: BLOCK during the call, then ready again.
HandleFileIO ==
  /\ Handling
  /\ status' = [status EXCEPT ![Current] = "BLOCK"]
  /\ ReadyCurrent
  /\ UNCHANGED <<semVars, queueVars, planVars, own, kills, active>>

\* Mutant: the thread is started but the process stays in EXEC.
HandleSleepRunning ==
  /\ Handling
  /\ \E s \in Sleeper :
       /\ pc[s] = "idle"
       /\ pc' = [pc EXCEPT !["stp"] = "loop", ![s] = "sleep"]
       /\ subject' = [subject EXCEPT ![s] = Current]
  /\ UNCHANGED <<status, semVars, queueVars, planVars, own, next, kills, active>>

\* SLEEP: BLOCK and a detached thread that will ready the process.
HandleSleep ==
  /\ Handling
  /\ status' = [status EXCEPT ![Current] = "BLOCK"]
  /\ \E s \in Sleeper :
       /\ pc[s] = "idle"
       /\ pc' = [pc EXCEPT !["stp"] = "loop", ![s] = "sleep"]
       /\ subject' = [subject EXCEPT ![s] = Current]
  /\ UNCHANGED <<semVars, queueVars, planVars, own, next, kills, active>>

\* WAIT denied or F_OPEN on a locked file: the pid joins the wait queue
\* first and the process is blocked afterwards.
HandleWait ==
  /\ Handling
  /\ waiting' = waiting \cup {Current}
  /\ Goto("stp", "block")
  /\ UNCHANGED <<status, semVars, newQ, readyQ, actual, running, planVars,
                 flowVars, kills, active>>

\* SLEEP with block_time <= 0 has no thread: this is all of it.
HandleSleepForever ==
  /\ Handling
  /\ Goto("stp", "block")
  /\ UNCHANGED <<status, semVars, queueVars, planVars, flowVars, kills, active>>

StpBlock ==
  /\ pc["stp"] = "block"
  /\ status' = [status EXCEPT ![Current] = "BLOCK"]
  /\ Goto("stp", "loop")
  /\ UNCHANGED <<semVars, queueVars, planVars, flowVars, kills, active>>

\* PAGE_FAULT: the planner itself waits until no other load is in progress.
HandlePageFault ==
  /\ Handling
  /\ Goto("stp", "fault")
  /\ UNCHANGED <<status, semVars, queueVars, planVars, flowVars, kills, active>>

StpFault ==
  /\ pc["stp"] = "fault" /\ pageSem > 0
  /\ pageSem' = pageSem - 1
  /\ status' = [status EXCEPT ![Current] = "BLOCK"]
  /\ pc' = [pc EXCEPT !["stp"] = "loop", !["loader"] = "load"]
  /\ subject' = [subject EXCEPT !["loader"] = Current]
  /\ UNCHANGED <<newEvents, slots, readyEvents, ltpGate, stpGate, queueVars,
                 planVars, own, next, kills, active>>

\* onExit releases the resources first; WAIT or SIGNAL on an undefined
\* resource skips that.
HandleExit ==
  /\ Handling
  /\ \E first \in {"release", "remove"} : Goto("stp", first)
  /\ UNCHANGED <<status, semVars, queueVars, planVars, flowVars, kills, active>>

\* The ones that take the process off the CPU.
Yield ==
  HandleRequeue \/ HandleEvicted \/ HandleFileIO \/ HandleSleep \/ HandleWait
  \/ HandleSleepForever \/ HandlePageFault \/ HandleExit

Handle == HandleContinue \/ HandleSignal \/ Yield

------------------------------------------------------------------------------
(* force_exit_process, remove_process and exit_process, by the STP for the  *)
(* process that ends and by the console for the process it kills.           *)

ReleaseNext(t) ==
  /\ pc[t] = "release"
  /\ \E q \in waiting : WakeWaiter(t, q, "release")

ReleaseDone(t) ==
  /\ pc[t] = "release"
  /\ Goto(t, "remove")
  /\ UNCHANGED <<status, semVars, queueVars, planVars, flowVars, kills, active>>

RemoveReady(t) ==
  /\ pc[t] = "remove"
  /\ readyQ' = Without(readyQ, own[t])
  /\ Goto(t, "delist")
  /\ UNCHANGED <<status, semVars, newQ, actual, running, waiting, planVars,
                 flowVars, kills, active>>

Delist(t) ==
  /\ pc[t] = "delist"
  /\ running' = running \ {own[t]}
  /\ Goto(t, "exit")
  /\ UNCHANGED <<status, semVars, newQ, readyQ, actual, waiting, planVars,
                 flowVars, kills, active>>

SetExit(t) ==
  /\ pc[t] = "exit"
  /\ status' = [status EXCEPT ![own[t]] = "EXIT"]
  /\ Goto(t, "give")
  /\ UNCHANGED <<semVars, queueVars, planVars, flowVars, kills, active>>

\* Mutant: the slot is not given back.
KeepSlot(t) ==
  /\ pc[t] = "give"
  /\ active' = active \ {own[t]}
  /\ Goto(t, IF t = "stp" THEN "loop" ELSE "prompt")
  /\ own' = IF t = "stp" THEN own ELSE [own EXCEPT ![t] = NoProcess]
  /\ UNCHANGED <<status, semVars, queueVars, planVars, subject, next, kills>>

\* process_release: sem_post(max_concurrent_multiprograming), finish_pcb.
GiveSlot(t) ==
  /\ pc[t] = "give"
  /\ slots' = slots + 1
  /\ active' = active \ {own[t]}
  /\ Goto(t, IF t = "stp" THEN "loop" ELSE "prompt")
  /\ own' = IF t = "stp" THEN own ELSE [own EXCEPT ![t] = NoProcess]
  /\ UNCHANGED <<status, newEvents, readyEvents, ltpGate, stpGate, pageSem,
                 queueVars, planVars, subject, next, kills>>

ExitProcess(t) ==
  ReleaseNext(t) \/ ReleaseDone(t) \/ RemoveReady(t) \/ Delist(t)
  \/ SetExit(t) \/ GiveSlot(t)

Stp == StpWaitReady \/ StpCheckPause \/ StpGate \/ StpPick \/ StpPicked
       \/ StpExecute \/ StpLoop \/ StpReply \/ Handle \/ WakeNext \/ WakeDone
       \/ StpBlock \/ StpFault
       \/ ReadyProcess("stp") \/ ExitProcess("stp")

------------------------------------------------------------------------------
(* The detached threads: the end of a SLEEP and the answer of memory to a   *)
(* page load.  A negative answer leaves the process blocked.                *)

SleepEnds(s) ==
  /\ pc[s] = "sleep"
  /\ Goto(s, "push")
  /\ UNCHANGED <<status, semVars, queueVars, planVars, flowVars, kills, active>>

LoadAnswered ==
  /\ pc["loader"] = "load"
  /\ \/ Goto("loader", "push") /\ UNCHANGED subject
     \/ /\ Goto("loader", "freePage")
        /\ subject' = [subject EXCEPT !["loader"] = NoProcess]
  /\ UNCHANGED <<status, semVars, queueVars, planVars, own, next, kills, active>>

LoadDone ==
  /\ pc["loader"] = "freePage"
  /\ pageSem' = pageSem + 1
  /\ Goto("loader", "idle")
  /\ UNCHANGED <<status, newEvents, slots, readyEvents, ltpGate, stpGate,
                 queueVars, planVars, flowVars, kills, active>>

Sleeping(s) == SleepEnds(s) \/ ReadyProcess(s)
Loader == LoadAnswered \/ LoadDone \/ ReadyProcess("loader")

------------------------------------------------------------------------------
(* The console.  A command runs to its end before the next one is read.     *)

Prompt == pc["console"] = "prompt"

\* INICIAR_PROCESO.  Push and sem_post are one step: between them only the
\* long-term planner looks at the queue, at its head and after an earlier post.
NewProcess(p) ==
  /\ Prompt /\ status[p] = "NONE"
  /\ status' = [status EXCEPT ![p] = "NEW"]
  /\ newQ' = Append(newQ, p)
  /\ newEvents' = newEvents + 1
  /\ UNCHANGED <<slots, readyEvents, ltpGate, stpGate, pageSem, readyQ, actual,
                 running, waiting, planVars, flowVars, pc, kills, active>>

\* DETENER_PLANIFICACION
Pause ==
  /\ Prompt /\ ~paused
  /\ paused' = TRUE
  /\ UNCHANGED <<status, semVars, queueVars, degree, wanted, delta, flowVars,
                 pc, kills, active>>

\* INICIAR_PLANIFICACION: the planners do not take pause_planning_mutex, so
\* they see the two posts and the store one at a time.
StartLtp ==
  /\ Prompt /\ paused /\ ltpGate < MaxTokens /\ stpGate < MaxTokens
  /\ ltpGate' = ltpGate + 1
  /\ Goto("console", "startStp")
  /\ UNCHANGED <<status, newEvents, slots, readyEvents, stpGate, pageSem,
                 queueVars, planVars, flowVars, kills, active>>

StartStp ==
  /\ pc["console"] = "startStp"
  /\ stpGate' = stpGate + 1
  /\ Goto("console", "startClear")
  /\ UNCHANGED <<status, newEvents, slots, readyEvents, ltpGate, pageSem,
                 queueVars, planVars, flowVars, kills, active>>

StartClear ==
  /\ pc["console"] = "startClear"
  /\ paused' = FALSE
  /\ Goto("console", "prompt")
  /\ UNCHANGED <<status, semVars, queueVars, degree, wanted, delta, flowVars,
                 kills, active>>

\* MULTIPROGRAMACION: one semaphore operation per unit of difference, the
\* global only at the end.
SetDegree(n) ==
  /\ Prompt /\ n # degree
  /\ wanted' = n
  /\ Goto("console", IF n > degree THEN "raise" ELSE "lower")
  /\ UNCHANGED <<status, semVars, queueVars, paused, degree, delta, flowVars,
                 kills, active>>

DegreeStep(d) ==
  /\ slots' = slots + d
  /\ IF degree + delta + d = wanted
     THEN degree' = wanted /\ delta' = 0 /\ Goto("console", "prompt")
     ELSE delta' = delta + d /\ UNCHANGED <<degree, pc>>
  /\ UNCHANGED <<status, newEvents, readyEvents, ltpGate, stpGate, pageSem,
                 queueVars, paused, wanted, flowVars, kills, active>>

Raise == pc["console"] = "raise" /\ DegreeStep(1)
\* Mutant: the degree is lowered below the number of admitted processes.
LowerNow == pc["console"] = "lower" /\ DegreeStep(-1)
Lower == pc["console"] = "lower" /\ slots > 0 /\ DegreeStep(-1)

\* FINALIZAR_PROCESO: the look-up, the test of the status under its mutex,
\* and the exit are separate steps.  For EXEC only an interruption is queued.
KillFind(p) ==
  /\ Prompt /\ kills < MaxKills /\ p \in running
  /\ kills' = kills + 1
  /\ own' = [own EXCEPT !["console"] = p]
  /\ Goto("console", "judge")
  /\ UNCHANGED <<status, semVars, queueVars, planVars, subject, next, active>>

KillJudge ==
  /\ pc["console"] = "judge"
  /\ IF status[own["console"]] = "EXEC"
     THEN /\ Goto("console", "prompt")
          /\ own' = [own EXCEPT !["console"] = NoProcess]
     ELSE Goto("console", "release") /\ UNCHANGED own
  /\ UNCHANGED <<status, semVars, queueVars, planVars, subject, next, kills,
                 active>>

\* What the console does without being asked: the rest of a command.
Command == StartStp \/ StartClear \/ Raise \/ Lower \/ KillJudge
           \/ ReadyProcess("console") \/ ExitProcess("console")

Operator == \/ \E p \in Process : NewProcess(p) \/ KillFind(p)
            \/ Pause \/ StartLtp
            \/ \E n \in Degrees : SetDegree(n)

------------------------------------------------------------------------------
\* kernel_create, start_short_term_planner, start_long_term_planner: the
\* kernel boots with the planning paused.
Init ==
  /\ status = [p \in Process |-> "NONE"]
  /\ newQ = <<>> /\ readyQ = <<>> /\ running = {} /\ waiting = {}
  /\ newEvents = 0 /\ readyEvents = 0
  /\ slots = Degree0 /\ degree = Degree0 /\ wanted = Degree0 /\ delta = 0
  /\ actual = NoProcess
  /\ paused = TRUE /\ ltpGate = 0 /\ stpGate = 0 /\ pageSem = 1
  /\ pc = [t \in Thread |-> CASE t = "stp" -> "ready" [] t = "ltp" -> "new"
                              [] t = "console" -> "prompt" [] OTHER -> "idle"]
  /\ subject = [t \in Thread |-> NoProcess]
  /\ own = [t \in {"stp", "console"} |-> NoProcess]
  /\ next = "loop"
  /\ kills = 0 /\ active = {}

Next == Ltp \/ Stp \/ Loader \/ (\E s \in Sleeper : Sleeping(s))
        \/ Command \/ Operator

Spec == Init /\ [][Next]_vars

\* Every thread runs when it can, sleeps end, memory answers, and no program
\* stays for ever on system calls that leave it the CPU.
Fairness ==
  /\ WF_vars(Ltp) /\ WF_vars(Stp) /\ WF_vars(Loader) /\ WF_vars(Command)
  /\ \A s \in Sleeper : WF_vars(Sleeping(s))
  /\ SF_vars(Yield)
FairSpec == Spec /\ Fairness

------------------------------------------------------------------------------
(* Properties.                                                              *)

TypeOK ==
  /\ status \in [Process -> Status]
  /\ newQ \in Seq(Process) /\ readyQ \in Seq(Process)
  /\ running \subseteq Process /\ waiting \subseteq Process
  /\ active \subseteq Process
  /\ actual \in Process \cup {NoProcess}
  /\ newEvents \in Nat /\ readyEvents \in Nat /\ slots \in Nat
  /\ ltpGate \in Nat /\ stpGate \in Nat /\ pageSem \in Nat
  /\ degree \in Nat /\ wanted \in Nat /\ delta \in Int
  /\ paused \in BOOLEAN /\ kills \in Nat
  /\ pc \in [Thread -> PC]
  /\ subject \in [Thread -> Process \cup {NoProcess}]
  /\ own \in [{"stp", "console"} -> Process \cup {NoProcess}]
  /\ next \in {"loop", "wake", "release"}

\* The places from which a process can be taken up again: a queue, the STP's
\* hands, or a thread about to ready it.
Carries(t, p) == pc[t] \in {"push", "sleep", "load"} /\ subject[t] = p

InHand(p) ==
  /\ own["stp"] = p
  /\ \/ pc["stp"] \in {"picked", "exec", "cpu", "replyGate", "handle", "wake", "fault"}
                      \cup ExitPC
     \/ pc["stp"] = "loop" /\ status[p] = "EXEC"
     \/ pc["stp"] \in ReadyPC /\ subject["stp"] # p

Places == Thread \cup {"newQ", "readyQ", "waiting", "hand"}

At(x, p) ==
  CASE x = "newQ"    -> p \in ToSet(newQ)
    [] x = "readyQ"  -> p \in ToSet(readyQ)
    [] x = "waiting" -> p \in waiting
    [] x = "hand"    -> InHand(p)
    [] OTHER         -> Carries(x, p)

\* A process is in one place at a time, and at most once in a queue: no two
\* threads ever run, queue or wake the same PCB.
SingleOwner ==
  /\ \A p \in Process : \A x, y \in Places : At(x, p) /\ At(y, p) => x = y
  /\ IsInjective(newQ) /\ IsInjective(readyQ)

\* The wake-ups on their way to the two planners.
Posting == {t \in Thread : pc[t] \in {"status", "post"}}
Woken == IF pc["stp"] \in {"check", "gate", "pick"} THEN 1 ELSE 0
Admitting == IF pc["ltp"] \in {"slot", "check", "gate", "alloc"} THEN 1 ELSE 0

\* Every queued process is backed by a wake-up of its planner: posted, being
\* served, or about to be posted.  The long-term planner always finds a process
\* to admit; without kills the short-term one always finds one to run, too.
QueueBacked ==
  /\ Len(newQ) = newEvents + Admitting
  /\ Len(readyQ) <= readyEvents + Woken + Cardinality(Posting)
  /\ kills = 0 => Len(readyQ) = readyEvents + Woken + Cardinality(Posting)

\* At most one process is in EXEC, whoever wrote the status last.
OneExec ==
  \A p, q \in Process : status[p] = "EXEC" /\ status[q] = "EXEC" => p = q

\* As long as the operator has killed nobody, free slots and processes holding
\* one add up to the degree, corrected by a change of degree in progress.
LtpHolds == IF pc["ltp"] \in {"check", "gate", "alloc"} THEN 1 ELSE 0
SlotsConserved ==
  kills = 0 => slots + LtpHolds + Cardinality(active) = degree + delta

\* A process whose exit was forced or reached stays out (process_handler.h:
\* handle_force_process_exit "fuerza la salida de un proceso").  A thread on its
\* way to ready it, as at the end of a SLEEP, does not look at the status.
ExitIsFinal ==
  [][\A p \in Process : status[p] = "EXIT" => status'[p] = "EXIT"]_vars

\* The list of the priorities planner is ordered (planners.c: "tengo una lista
\* ordenada por prioridad de pcb en la insercion").
ReadyOrdered ==
  Planner = "PRIORIDADES" =>
    \A i, j \in DOMAIN readyQ : i < j => Priority[readyQ[i]] <= Priority[readyQ[j]]

\* A queued process is picked sooner or later, unless the planning is paused
\* for good: neither a page load nor a sleep can hold the planner for ever.
StpHeld == pc["stp"] \in {"gate", "replyGate"}
QueuedIsPicked ==
  []<>~StpHeld =>
    \A p \in Process : p \in ToSet(readyQ) ~> p \notin ToSet(readyQ)

\* Without kills the long-term planner, the exits and MULTIPROGRAMACION do what
\* Admission promises: a refused process counts as admitted, as in the code.
Slots == INSTANCE Admission WITH
           arrived <- newQ, admitted <- active, limit <- degree + delta
ImplementsAdmission == Slots!AdmissionSpec
=============================================================================
