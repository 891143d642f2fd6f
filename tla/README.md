# Verification of the operating-system simulator

The repository is a distributed simulator of an operating system in C: four
programs (kernel, cpu, memoria, filesystem) that talk over TCP and a library
(utils) they share. This directory holds TLA+ models of its core logic, the TLC
configurations that check them on small instances, and TLAPS proofs of what
matters most for every number of processes.

## The system

| Part | State | Operations | Talks to |
|---|---|---|---|
| Kernel, planners (`core/process`, `core/planners`, `console`) | the PCBs and their status; NEW and READY queues; list of admitted processes; semaphores for new processes, ready processes, degree, pauses, page loads | create, admit, dispatch, evict, block, sleep, wake, exit, kill, pause, start, change the degree | CPU (dispatch and interrupt connections), memoria, filesystem |
| Kernel, resources (`core/resources`) | counter and wait queue per resource; units per process | WAIT, SIGNAL, release at exit | planners |
| Kernel, deadlock detector (`deadlock`) | none of its own: reads `blocked_by` and the units held | run each time a process blocks on a resource | resources |
| Kernel, open files (`core/filesystem`) | open-file table, a lock per file with a queue of readers and writers | F_OPEN, F_CLOSE, F_SEEK, F_TRUNCATE, F_READ, F_WRITE | planners, filesystem, memoria |
| Kernel, interruptions | queue of interruptions, quantum timer threads | evict for quantum, priority, forced exit | CPU |
| CPU (`ciclo.c`, `cpu.c`, `mmu.c`) | registers, exit flag, one interruption slot | instruction cycle, address translation | kernel, memoria |
| Memoria, paging (`paginacion`) | frames, page tables, swap positions, modified and presence bits | allocate, load page (FIFO or LRU victim), read, write, release | cpu, kernel, filesystem |
| Filesystem (`fat.c`, `archivo.c`, `swap.c`) | FAT, FCBs, block file, swap partition | open, create, truncate, read, write, swap allocation | kernel, memoria |
| Utils | mutex-protected queues and lists, packets, execution contexts | push, pop, remove; send, receive | all |

The hard behaviours are first of all in the kernel. Its short-term planner, long-term
planner, console, page-load thread and one detached thread per SLEEP all pass
the same PCBs around; a PCB is queued, marked and announced in three separate
steps; the status of a PCB is written under a mutex but decided upon after the
mutex is released; and nothing but counting semaphores ties queues to the
threads that serve them. The CPU shares one interruption slot with a thread of
its own and is told about processes that may have left it; memory hands out the
address of a frame under a mutex and uses it after the mutex is released; the
filesystem keeps a file in two places on disk and writes them one after the
other. What makes each part correct:

- planners: a PCB is in one place at a time; one process runs; every queued
  process has a wake-up on its way; the slots of the degree are conserved; a
  queued process is picked; a killed process stays out; the list of the
  priorities planner is ordered;
- resources: units are conserved across WAIT, SIGNAL, exits and kills; a
  release serves a waiter; nobody is left waiting for a unit that is free;
- deadlock detector: it reports a process that closes a cycle, and no other;
- files: readers and a writer exclude each other; whoever waits for a file is
  handed it by a close;
- CPU: a program runs as if it were alone, whatever interrupts it; an
  interruption ends a burst of the process it was meant for, and one burst only;
- paging: a frame belongs to one page; a page keeps its contents through swap;
- filesystem: chains of the FAT are disjoint and end; swap blocks have one owner.

## Modules

| Module | What it is |
|---|---|
| `Planning` | the planners: one action per atomic step of each thread |
| `Admission` | abstract specification of the degree of multiprogramming |
| `Resources` | WAIT, SIGNAL, release at exit or kill, and the deadlock detector |
| `Cpu` | the instruction cycle, the interruptions and the kernel's side of both connections |
| `Programs` | abstract specification: what a user program may expect |
| `Paging` | frames, page tables, replacement and swap, with memory's clients |
| `FileNames` | the names of the files, for the next two modules |
| `FileLocks` | the kernel's open files and their locks |
| `Fat` | the FAT, the FCBs and the blocks of the filesystem |
| `Files` | `FileLocks` over `Fat`, with restarts |
| `FileStore` | abstract specification: files as sequences of blocks |
| `MCPlanning`, `MCPlanningOrder`, `MCResources`, `MCCpu`, `MCPaging`, `MCFiles` | values of the constants for TLC |
| `QueueLemmas` | facts about sequences used as queues, removal from a list, least numbers |
| `PlanningProofs` | types of `Planning`; the ownership invariant; one owner per PCB; one process in EXEC |
| `PlanningCounting` | wake-ups, slots, and the implementation of `Admission` |
| `ResourcesProofs` | units are conserved, one exit per process, the order of the queues |
| `CpuProofs` | types, the interrupt slot, and the implementation of `Programs` |
| `PagingProofs` | frames, swap, contents, dirty pages and the mutex of memory |
| `FilesProofs` | the locks of the open files |
| `DiskProofs` | the types of `Files`, the chains of the FAT, and the implementation of `FileStore` |

### Planning

`pc[t]` is the place of thread `t` in its code. An action is one step another
thread can see: one semaphore operation, one operation of a mutex-protected
queue (the monitors of utils are a single lock around one operation, so each of
their calls is one atomic step), one status change under `pcb_status_mutex`.
`subject[t]` is the argument of the `ready_process` call of thread `t`;
`own["stp"]` and `own["console"]` are the local `process` of the short-term
planner and of `handle_force_process_exit`; `next` is the return address of the
short-term planner's `ready_process`.

- `Push`, `SetReady`, `Post` are `ready_process` in the order of the code: the
  PCB is queued, then READY is written, then the wake-up is posted.
- `LtpWaitNew` .. `LtpAllocate` are `long_term_planner`. A process that memory
  refuses is dropped and its slot is not given back.
- `StpWaitReady` .. `StpReply` are the loop of `short_term_planner`; `Handle*`
  are the effects `handle_cpu_eviction` tells apart: keep the CPU, ready the
  process again, block it on a resource or a lock, wake waiters, start a sleep,
  start a page load, exit. What the process executes is a free choice.
- `ReleaseNext` .. `GiveSlot` are `force_exit_process`, run by the short-term
  planner (EXIT, error) and by the console (kill).
- `SleepEnds`, `LoadAnswered`, `LoadDone` are the detached threads.
- `NewProcess`, `Pause`, `StartLtp/StartStp/StartClear`, `SetDegree`,
  `DegreeStep`, `KillFind`, `KillJudge` are the console's commands. The push to
  NEW and the `sem_post` of a new process are one step: only the long-term planner
  looks at NEW, and only after it took that very wake-up, so no thread can act
  between the two.

Abstracted: `waiting` is the set of pids in some wait queue (resource or lock)
and any may be popped next; the interruption queue and the timers are left out,
so a quantum or priority eviction may happen at any reply; the memory of a PCB
is not modelled, so a use after `process_kill` is not seen. `active` is a
history variable: the processes that hold a slot of the degree. `kills` counts
the kill commands. The error branch of `release_resource` inside an exit,
which only a unit released twice or never held leads to, is left to `Resources`.

Bounds (constants, all in guards): `Sleeper` limits the concurrent sleeps,
`Degrees` the degrees asked for (0 among them: every slot is then taken back),
`MaxTokens` the restart tokens an operator can
pile up by INICIAR_PLANIFICACION while nobody waits, `MaxKills` the kills.

### Resources

Two threads use the resources: the short-term planner, for the process it runs,
and the console, when it kills. `qty`, `queue` and `held` are the counter, the
pid queue and `asigned_resources`; each is changed under its own mutex, so each
change is an action. `who[t]`, `res[t]`, `popped[t]` and `todo[t]` are the locals
of the thread (pcb, resource, popped pid, the copy of `asigned_resources` that
`force_exit_process` iterates over) and `after[t]` the caller of
`release_resource`: the planner (SIGNAL) or that loop.

- `Wait`, `Grant` or `Enqueue`, `Block`, `Mark` are `onWait`; `Mark` also runs the
  detector, `Deadlocked`, whose test is written as the code writes it.
- `Release`, `Drop`, `Pop`, `Find`, `Give`, `Wake` are `release_resource`: the
  counter, the unit taken from the process, the pid taken from the queue, its pcb
  looked up in `running_process_contexts` (`listed`), the unit assigned and the
  process queued as ready, and READY written. A release above the maximum goes to
  `Expel`, the error branch, after the counter was raised.
- `Exit` is `onExit`; `KillFind`, `KillJudge`, `KillStart` are
  `handle_force_process_exit`: the pcb is found, its status judged under the mutex,
  and what was decided done with the mutex free. `ReleaseNext` and `Finish` are the
  loop of `force_exit_process` and what follows it, for both.
- `Dispatch`, `Loop`, `Preempt` are the planner: it takes any ready process, looks
  whether it is in EXEC, and readies it again.

The planner takes a process whether or not the console is killing it, and the
console acts on what it judged whatever became of the process since: `crossed`
records that both worked for one process. Both then release the units they found
in its list, and both run `exit_process`. `finish_pcb` frees the lists of a process
that has ended; a thread that still uses them finds them empty here (the kernel may
crash instead, and then nothing more happens).

`extra`, `lost`, `forged`, `exits`, `doomed` and `crossed` are history variables:
units that appeared, units that went with a process, SIGNALs of a unit not held,
runs of `exit_process`, processes a kill judged, and the above. Bounds: `MaxKills`,
`MaxForged`.

### Cpu and Programs

`stp` is the place of the short-term planner around `cpu_execute`, `cpu` the
place of the CPU's dispatch thread in `iniciar_ciclo_instruccion`, `console` that of
`handle_force_process_exit`, `dispatch` and `reply` the contexts on the socket,
`interruptions` the kernel's queue and the interrupt socket together, `interrupcion`
the one slot.

- `Pick`, `Send`, `Leave` are the loop of the planner, `Evicted` .. `UnknownReason`
  what `handle_cpu_eviction` does with the answer as far as the CPU can tell,
  `Requeue` and `WriteStatus` its `ready_process` and the BLOCK of a WAIT, and `Free`
  the `process_kill` of a process found finished at the end of the handler.
- `KillFind`, `KillJudge` and then `KillQueued`, or `KillRemoves` and `KillExits`, are
  a kill: the pcb is looked up, its status read under the mutex, and with the mutex
  free an interruption queued, or the process removed from the ready structure and
  ended, whatever it is doing by then.
- `Unblock` and `WriteReady` are `ready_process` on another thread (a page loaded, a
  sleep over, a resource or a file granted): the process is queued, and READY written
  later. Neither looks at the status, so a process that was killed comes back.
- `Quantum`, `KillQueued`, `Enqueue` (priority) and `WriteInvalid` are the four
  sources of interruptions. A timer is never cancelled.
- `Start`, the actions of `Execute`, `CheckInterrupt`, `Reset` are the cycle: one
  instruction, then the test of the slot, then, after a context was sent, the
  reset of the slot. `Deliver` is the thread that fills it.

`Programs` says what a program may expect: instructions in order, each once, on
its own registers and memory, every call served before the next instruction.
`Program` is a constant, the lines memory serves; `ProgramAssumption` says what
a program must be for memory to serve it: operands of the right kind, jumps
inside the program, EXIT at the end (a fetch past the end takes memory down).
A process that has ended (`ended`: `exit_process` ran) may be queued again, picked
and sent, with a context whose registers were freed (`Leftover`: what may be read
there). `Programs` promises nothing to such a process (`Gone`), only that it
disturbs no other; until then it promises everything, whatever becomes of the rest.
A pcb that `process_kill` has freed is not followed: what reads it next is undefined.

`RunsPrograms` is the refinement: `at` and `regs` are wherever the context of the
process is just now (`saved`, on a socket, or in the CPU), `asking` the call in
flight. One thing the code does keeps it from holding for every program: a word
of all ones read by MOV_IN is taken for an error, which ends the burst without
saving the registers. The programs of the run read such a word where the saved
registers are the current ones, so that the path is taken and the rest of the
property stays meaningful; elsewhere the property fails, and hazard
`ciclo.c:250` says so. `asked`, `served`, `spent` and `reused` are history
variables. Bounds: `MaxTimers` and `MaxKills` for each process, `MaxQueue`.

### Paging

Contents are abstracted to whose they are: `enMarco[m]` and `enBloque[b]` are the
page whose present contents a frame or a block of swap holds, and a write makes
every other copy of the page nobody's. `lock` is `operaciones_bloqueantes_mutex`.

- `NewProcess` is `allocate_new_process` with the swap blocks it asks for;
  `LiberarSwap`, `LiberarMarcos`, `DestruirTabla` are `remover_proceso`, three
  steps without the mutex.
- `FrameRequest` translates an address under the mutex; `MovIn`, `MovOut` with
  `Mark`, and `FileTransfer` use it later.
- `PageFault`, `Buscar`, `ElegirMarco`, `SwapOut`, `SwapIn` are a load, from the
  kernel's semaphore to the answer, with FIFO and LRU (`orden`). The victim is the
  oldest page present; `orden` passes over the pages of tables already destroyed.
- A new process takes the first free blocks of swap in order, and a load the first
  free frame: `Rango` is the place of a block among the free ones.
- The bitmap of swap has `cant_bloques_swap / 8` bytes (`Byte` bits each here), so
  the blocks past the last whole byte have no bit of their own: what is read behind
  the bitmap says whether such a block is free, and `config.basura` is the set of
  those that are found taken from the beginning.

`causas` names what the code does wrong: a victim that was not modified stays
present (`clean`), an address is used after its page lost the frame (`stale`), an
unaligned transfer (`spill`), a process without enough swap (`full`), a removal
in the middle of a load (`orphan`), a page written by F_READ and not marked
(`unmarked`), an entry of the list of pages to mark that no write takes
(`leftover`). Each property says which causes break it, and holds without them;
a cause a property does not name is one it was checked against. Bounds:
`MaxCausas` (a behaviour goes on after the first cause and stops before a
second), `MaxPending`. Two equal timestamps are left out, as is the removal of
a process while the CPU executes it, which is the planners' race.

### FileLocks, Fat, Files and FileStore

`FileLocks` has one action per file call of the short-term planner: `FOpen`,
`FClose`, `FSeek`, `FTruncate`, `FRead`, `FWrite`. The planner handles one at a
time and waits for the filesystem (`llamada`, `Respuesta`); only `Exit`, a kill
from the console, comes in between. A killed process that is readied once more
(see `Cpu`) would make its calls with a table of open files that `finish_pcb` has
freed; those calls are not followed. `open_files` is the global table, `archivos`
the table of each process. `incidentes` names what the code does wrong: a file is
opened for writing beside its readers (`mixed`), the entry of a file that others
have open is removed (`dropped`), a process ends with files open (`abandoned`)
or in a queue (`waiter`).

`Fat` has what is on disk: `fat`, `fcb`, `bloques`. A truncation is three steps:
the FCB is read (`EmpezarTruncar`), the FAT written (`TruncarFat`, by `Asignar` or
`Liberar`), the FCB saved (`TruncarFcb`). `Nuevos` are the first free entries, the
ones a file grows by. `Cadena` walks a chain as the code does;
a cycle never ends the walk, and the request with it. `BloqueDe` is the walk that
does not look for the end: UINT32_MAX plus the size of swap, as an int, is the
last block of swap. `avisos` names the faults: fewer free entries than asked for
(`full`), none (`noroom`: what is then written is not determined, and the
behaviour is followed no further), a crash between the FAT and the FCB (`torn`;
`zeroed` when the file was cut to nothing and its FCB still names a free block),
a write past the end (`pastend`).

`Files` composes both: each call acts on the two, `Serve*` are the filesystem's
handlers under `mutex_archivo`, and `Restart` starts everything again on the disk
as it is. `FileStore` is what it promises: a file is created empty, grows and
shrinks at its end, and a write changes one block of one file; a new block may
hold anything, as the code does not clean it. Bounds: `MaxOpen`, `MaxCaidas`,
`MaxIncidentes`, and the workloads `Cargas`.

## What the runs show

| Run | Question | Answer |
|---|---|---|
| `planning_fifo` | FIFO, two processes, degree 0 to 2, pauses, no kills: are slots conserved (`SlotsConserved`), does the planner implement `Admission` (`ImplementsAdmission`), is every queued process picked (`QueuedIsPicked`)? | yes |
| `planning_kill` | PRIORIDADES, two processes, a kill at any step: `TypeOK`, one owner per PCB (`SingleOwner`), a wake-up per queued process (`QueueBacked`), one process in EXEC (`OneExec`) | yes |
| `planning_revive` | does a killed process stay out (`ExitIsFinal`)? | no: the end of a SLEEP readies it |
| `planning_order` | is the list of the priorities planner ordered (`ReadyOrdered`)? | no: insertion at the front |
| `resources` | three processes, one unit of `r1` and two of `r2`, a SIGNAL of a unit not held, no kill: `TypeOK`, units accounted for (`Conserved`), waiters blocked in one queue (`WaiterIsBlocked`), not overtaken (`NoBarging`), not left with nobody to wait for (`NotStranded`) | yes |
| `resources_kill` | three processes, one unit, a kill at any step: units accounted for, those released twice included (`Conserved`), and one exit per process until a kill crosses the planner (`ExitsOnce`) | yes |
| `resources_signal` | does SIGNAL serve a waiter (`SignalServes`)? | no: with two waiters it wakes nobody |
| `resources_deadlock` | does the detector report a cycle of two (`CycleIsReported`)? | no: its test is negated |
| `cpu` | two programs under RR and PRIORIDADES, a kill at any step and the process killed running on: `TypeOK`, is an interruption for the process it ends (`OnlyOwnInterruption`), does it end one burst only (`EvictedOnce`), do programs run as `Programs` says until their process ends (`RunsPrograms`)? | yes |
| `cpu_kill` | does a killed process end (`KillTakesEffect`)? | no: the slot is cleared after the context left |
| `paging` | two processes, one or two frames, three blocks of swap, the last without a bit of its own: `TypeOK`, frames and blocks have one owner and none leaks (`FramesAccounted`, `SwapAccounted`), pages keep their contents (`ContentsKept`), a page that differs from swap is marked (`DirtyIsMarked`), the mutex is given back (`LockLost`) | yes, but for the causes each names |
| `files` | three processes on one file, and one process on two files with a restart: `TypeOK`, a writer is alone (`WriterExclusive`), a waiter is queued behind somebody alive (`NoLostWaiter`), the locks are those of the live openings (`LocksMatch`), the planner does not die (`KernelStays`); chains are disjoint and end (`ChainsDisjoint`), no entry is lost (`NoLeak`), sizes match chains (`SizeMatches`), swap is not written (`SwapUntouched`), files are files (`IsFileStore`) | yes, but for the causes each names |

Why the bounds are enough. Two processes and one sleeper let every pair of
threads work on the same PCB (planner, console, loader, sleeper, long-term
planner), which is what the ownership properties are about, and a degree between
0 and 2 makes the slots run out and be lowered while a process waits for one;
the proofs remove the bound for the safety properties. Three processes are
needed for the order of a list and for a waiter to be overtaken by a third
process; two units let a process hold more than one and be released in a loop.
One kill already interleaves with every step, and makes planner and console work on
one process. In `cpu` two programs that hold every kind of instruction between
them, of five and seven, a timer for one process, a kill of the other and one
interruption on its way beside those of the kill let a slot be stale, overwritten and delivered to
the wrong burst; registers of two bits wrap. In `paging` three pages over one or
two frames make every load a replacement, three blocks of swap of which one may be
found taken for ever are enough or one too few, and both algorithms choose among two pages. In `files` three processes give a queue
of two behind a holder, which is what a close must hand on; three free entries of
the FAT and files of up to two blocks make both files grow, shrink, meet in the
free list and run out. `MCFiles` uses the symmetry of the file names: the
properties are invariants and a step property that tell no file from another.

`resources` and `resources_kill`
use the symmetry of the processes, which is sound because they check invariants
only and the processes are told apart by nothing.

`NoBarging` is about resources of at most two units: with three the code does let
a WAIT overtake the queue, since each release that brings the counter back to 0 or
more wakes one waiter only, and the next unit makes the counter positive with
others still waiting. `NotStranded`, `NoBarging` and `WaiterIsBlocked` say nothing once somebody was
killed. With a kill the code does break them: a WAIT lowers the counter and
queues its pid in two steps, and a kill that returns a unit between them finds
an empty queue. `Conserved` holds with kills: a unit that planner and
console both release, because a kill crossed the planner, is counted in `extra`, and
the equation says that no unit is lost or gained in any other way. `ExitsOnce`, which says when `extra`
is empty, ends at such a crossing: then both do run `exit_process`, and a counter
may pass its maximum. `NotStranded` asks
that no more processes wait than there are units, because `SignalServes`, the
same without that condition, is what `resources_signal` refutes. `SlotsConserved`
and `ImplementsAdmission` stop at the first kill too: a kill of a process that
comes back lets it exit twice.

Fairness. `FairSpec` asks weak fairness of each thread (every thread is a POSIX
thread that the host schedules), of each sleep and page load (they end), and
strong fairness of `Yield`, the evictions that take the CPU away from the
process: a program that makes system calls which leave it the CPU for ever is
not the kernel's fault. Nothing is assumed of the operator. Weak fairness
is enough for the semaphores `QueuedIsPicked` depends on, because each of them
has a single thread waiting on it; the slots, for which the long-term planner
and MULTIPROGRAMACION compete, only matter before a process is queued.

`Cpu` asks weak fairness of the CPU's two threads, of the short-term planner, of
the console once it is killing a process, and of each `ready_process` once it has
queued its process; not of timers, kills or of whatever blocks a process.
`KillTakesEffect` fails under it. `Paging` and `Files` state no fairness: their
properties are about steps and states.

`CHECK_DEADLOCK FALSE` is set because the system may really stop: nothing makes
the operator create more processes, a process may wait for ever, for a file
nobody will close among other things, and a kernel that dereferenced a dead
process or a memory that lost its mutex is down.

## What is proved

Each theorem holds for every value of the constants under the named assumptions
of its module, which every run of the module evaluates:

| Modules | For every | Assumed |
|---|---|---|
| `Planning` | number of processes, sleepers, kills; the three planners | `ThreadAssumption`, `PlannerAssumption`, `BoundAssumption` |
| `Resources` | finite sets of processes and resources, instances, kills | `ResourceAssumption` |
| `Cpu` | processes, programs, registers, width of a word, timers, kills | `CpuAssumption`, `ProgramAssumption` |
| `Paging` | processes, pages, frames, blocks, sizes; FIFO and LRU | `PagingAssumption` |
| `Files` | finite set of processes, files, workloads, blocks, restarts | `FileLocksAssumption`, `FatAssumption`, `FilesAssumption` (the value for a file that does not exist is no contents) |

- `TypeCorrect` (`PlanningProofs`): `Spec => []TypeOK`. The inductive invariant
  `Typing` adds to the types what each program point says of `subject` and `own`
  (a thread that is readying a PCB has one, a thread that is exiting one has one).
- `OwnerIsSingle`, `OneRuns` (`PlanningProofs`). `SingleOwner` is not
  inductive: a second owner could appear if a process could be created twice, if
  an exiting process were still queued, or if a status were stale.
  `Ownership == Typing /\ SingleOwner /\ Rest` adds that (`Rest`) a process that
  is nowhere was not created yet or has left, that EXEC is only the status of the
  process in the planner's hands or of one being readied, and that idle threads
  and the loader hold nothing they should not. One lemma (`Moved`) covers every
  step that takes a PCB from one place to another, one (`Kept`) every step that
  moves none; each action of `Next` is an instance of one of them.
- `QueuesAreBacked`, `NoSlotIsLost` (`PlanningCounting`). `Slotted` ties the
  slots to the admitted processes; the change of degree in progress is `delta`.
  `Steady` gathers the steps that touch no counter, so that the proofs by cases
  only visit the steps that do.
- `AdmissionImplemented`: with no kills, `Spec => ImplementsAdmission`, from the
  same invariant: the initial state maps to an initial state of `Admission` and
  each step to a step of it or to a stutter.
- `NoForeignInterruption` (`CpuProofs`): `Spec => []OnlyOwnInterruption`. The
  property speaks of the reply alone; the invariant `OwnInv` follows an
  interruption from where it is asked for to where it ends a burst: whatever is in
  the socket or in the slot was asked for its pid, the context the CPU runs is that
  of a process, and no instruction ends a burst with a reason of an interruption.
  What was asked for only grows, so a step of the kernel needs one lemma
  (`KernelSide`), whichever interruption it queues.
- `NoSecondEviction` (`CpuProofs`): `Spec => []EvictedOnce`. `SpentInv` adds that a
  slot that ended a burst is still there only until the reset.
- `CpuTypeCorrect` (`CpuProofs`): `Spec => []TypeOK`. A program counter stays inside
  its program only if the context that comes back is stored for the process it was
  sent for, so `CpuInv` adds `Trip` to the types: while the planner waits there is
  one context, on a socket or in the CPU, that of the process it runs.
- `ProgramsRunAlone` (`CpuProofs`): `Spec /\ []HarmlessRead => RunsPrograms`, the
  refinement, step by step. `RunInv` adds to `CpuInv` that an instruction finds
  nothing decided (`Decided`) and that a burst that ends leaves with the registers
  (`Left`). `Placed` says where the mapping finds the context of each process; each
  step then changes what `Programs` sees of one process, as one of its actions
  (`UserExecute`, `UserServe`, `UserEnd`), or of none (`Stutter`). For a process that
  has ended the step is `Gone`, whatever it does (`UserGone`, `Ghost`), and a kill that
  ends a process while its context is in the CPU is an `End` (`ConsoleSteps`). `HarmlessRead`
  is the condition the word of all ones forces: where MOV_IN reads one, the
  register already has it and the context has the registers. `Left` is false
  without it. The runs of `MCCpu` satisfy it and take that path; where it does not
  hold `RunsPrograms` is violated at that very burst.
- `ResourcesTypeCorrect`, `UnitsConserved` (`ResourcesProofs`). The equation of
  `Conserved` is split into what lies around (`Sheet`) and what each of the two
  threads is moving (`Holding`), so that a step of one thread leaves the other's
  part alone (`Balanced`). A unit released twice adds to `extra` when the second
  release finds nothing to take from the process (`DropBooks`), so the equation holds
  whether or not a kill crosses the planner.
- `ProcessesExitOnce`: as long as no kill crossed the planner (`CrossingStays`: what is
  so after a step was so before), `Custody` says that the two threads never work for
  the same process, that a pid is in one queue or one thread's hands and that whoever
  is being ended is listed, and `Clean` that, without forged SIGNALs, no release is
  refused.
- `WaitersAreBlocked`, `NobodyBarges`, `NobodyIsStranded`: `Blocked` follows a process
  from the queue to the status BLOCK, `InLine` relates the sign of the counter to
  the queue at each place of the planner. The attempt to prove `NobodyBarges` for
  every number of units failed, and TLC then showed the overtaking with three.
- `PagingTypeCorrect`, `FramesAreAccounted`, `SwapIsAccounted`, `ContentsAreKept`,
  `DirtyPagesAreMarked`, `LockIsLostOnlyByOrphans` (`PagingProofs`). `PagingInv` adds
  to these properties the order of the steps of an access and of a load (`Turns`: the
  page being loaded is absent and its process does not execute), that a frame in use
  has a holder (`Held`) and only one (`Apart`), where the contents of a page are
  while its block is written (`Kept`), and that only the write under way waits to be
  marked (`Marked`). Each part holds until its own causes occur.
- `WritersAreExclusive`, `LocksAreThoseHeld`, `WaitersAreNotLost`,
  `KernelIsKilledByLostWaiters` (`FilesProofs`). `LockInv` says, for each file, how the
  lock, the read count and the queue relate to the live openings (`Exclusive`,
  `Locked`, `Owned`, `Counted`, each until its incidents) and, for each process, that
  it waits in one queue, that of the file it is pending on (`Queued`). The number of
  openings of a file is the size of a set, and the lemmas `OpeningsMore` and
  `OneOpeningLess` say what an open and a close do to it. Every step of `Files` is a
  restart or a step of `FileLocks`.
- `FilesTypeCorrect` (`DiskProofs`): the tables, the requests, the FAT and the FCBs
  keep their types.
- `FilesDoNotShareBlocks`, `NoEntryIsLost`, `SizesAreThoseAsked`, `SwapIsLeftAlone`
  (`DiskProofs`). A chain is a recursive function over the FAT; `Walks` and `ChainOf`
  turn it into a sequence that follows the entries, by the least number of steps for
  which that would fail, and `OneChain` says that there is only one. `DiskInv` adds
  to the properties that the blocks of a file are distinct and end with the mark
  (`Chained`), that the taken entries are those of the chains (`Claimed`) and how long
  a chain is at each point of a truncation (`Sized`); `Resizing` ties the truncation
  under way to the request the planner waits for, so that nothing else touches the
  FCB meanwhile, and `Existing` says that what is open was created. `Cambio` is what
  a truncation does to one chain: it keeps a common beginning, and adds entries that
  were free or frees entries of its own; freeing and taking are two lemmas
  (`TruncateFrees`, `TruncateTakes`) and no other property looks at the FAT's loop
  again. Every other step is `Quieto`: no chain changes, the step that saves the FCB
  included.
- `FilesAreStored` (`DiskProofs`): `Spec => IsFileStore`, step by step. The write of
  the FAT is `Resize`, by the common beginning; a write changes one block of one file
  or nothing, since the chains do not meet, even where the walk went past the end of a
  file that a full FAT left short; every other step changes no contents.

Model-checked only:

- the liveness properties `QueuedIsPicked` and `KillTakesEffect`, as no prover for
  fairness is installed;
- the violations, whose traces TLC gives.

## Not modelled, and the plan

Every component that keeps state is modelled, and every invariant and refinement
that a passing run checks is proved as well. What could be taken further:

1. `Paging` as a memory of its own for each process: `ContentsKept` stated as the
   refinement of an abstract memory, where a read returns the last write.
2. `FileLocks` as readers and writers: an abstract lock that `LocksMatch` and
   `WriterExclusive` would follow from.

Left out for good: the encoding of packets and contexts, sockets, configuration
files, logging, the reading of program files and the printing of tables, which
are I/O with no state of their own that the properties tell apart; failures of
the host (a file that cannot be created, a socket that breaks), on which the
programs exit or go on without a plan; and, in `Fat`, a torn write of the FAT
itself or of a FCB, which the code trusts to the host's filesystem.
