------------------------------ MODULE Resources ------------------------------
(***************************************************************************)
(* WAIT, SIGNAL and the release of resources at exit or kill               *)
(* (kernel/src/core/resources, process_handler.c) and the deadlock         *)
(* detector (kernel/src/deadlock).  Two threads touch the resources: the   *)
(* short-term planner "stp", for the process it runs, and the "console",   *)
(* which kills.  Each counter and each queue has its own mutex, held for   *)
(* one operation: an action is one operation on one of them.               *)
(*                                                                         *)
(* A kill finds the process, judges its status and releases its units in   *)
(* separate steps, so the planner may pick, run and end the process at the *)
(* same time: "crossed" records it.  finish_pcb frees the lists of a       *)
(* process that has ended; a thread that still uses them finds them empty  *)
(* (or crashes the kernel, and nothing more happens).                      *)
(***************************************************************************)
EXTENDS Integers, FiniteSets, Sequences, SequencesExt

CONSTANTS
  Process,     \* the processes, all admitted
  Resource,    \* the resources of the kernel's configuration
  NoProcess, NoResource,
  MaxQty,      \* max_qty: configured instances of each resource
  MaxKills,    \* bound: kills by the operator
  MaxForged    \* bound: SIGNALs of a resource the process does not hold

Thread == {"stp", "console"}

ASSUME ResourceAssumption ==
  /\ NoProcess \notin Process /\ NoResource \notin Resource
  /\ IsFiniteSet(Process) /\ IsFiniteSet(Resource)
  /\ MaxQty \in [Resource -> Nat]
  /\ MaxKills \in Nat /\ MaxForged \in Nat

VARIABLES
  qty,        \* resource->available_qty; below 0 it counts the waiters
  queue,      \* resource->blocked_pids
  held,       \* units in pcb->asigned_resources
  blockedBy,  \* pcb->blocked_by_resource_name
  status,     \* pcb->current_status
  ready,      \* processes in the ready structure of the planner
  listed,     \* running_process_contexts
  pc,         \* where each thread is
  who,        \* the pcb each thread is working for
  res,        \* the resource it is working on
  popped,     \* the pid it took out of a queue
  todo,       \* units its copy of asigned_resources still lists
  after,      \* where release_resource returns to
  alarm,      \* last verdict of checkForDeadlock
  kills,      \* number of kills
  doomed,     \* history: processes a kill judged not to be in EXEC
  crossed,    \* history: planner and console worked for one process at once
  forged,     \* history: SIGNALs of a resource the process did not hold
  extra,      \* history: units that appeared from nowhere
  lost,       \* history: units meant for, or kept by, a process that is gone
  exits       \* history: times exit_process ran for each process

countVars == <<qty, forged, extra, lost>>
procVars  == <<held, blockedBy, status, ready, listed, exits>>
flowVars  == <<pc, who, res, popped, todo, after>>
killVars  == <<kills, doomed, crossed>>
vars == <<countVars, procVars, flowVars, queue, alarm, killVars>>

Nothing == [r \in Resource |-> 0]
Goto(t, l) == pc' = [pc EXCEPT ![t] = l]
Alive(p) == p \in listed                 \* find_process(pid) # NULL

\* The planner leaves the process it ran.
StpDone == /\ Goto("stp", "idle")
           /\ who' = [who EXCEPT !["stp"] = NoProcess]
           /\ res' = [res EXCEPT !["stp"] = NoResource]

\* ready_process
MakeReady(p) ==
  /\ ready' = ready \cup {p}
  /\ status' = [status EXCEPT ![p] = "READY"]

\* process_assign_resource
Assign(p, r) ==
  /\ held' = [held EXCEPT ![p][r] = @ + 1]
  /\ blockedBy' = [blockedBy EXCEPT ![p] = NoResource]

------------------------------------------------------------------------------
(* The planner takes a ready process; the process leaves the CPU.           *)

Dispatch(p) ==
  /\ pc["stp"] = "idle" /\ p \in ready
  /\ ready' = ready \ {p}
  /\ status' = [status EXCEPT ![p] = "EXEC"]
  /\ who' = [who EXCEPT !["stp"] = p]
  /\ Goto("stp", "run")
  /\ crossed' = (crossed \/ p \in doomed)
  /\ UNCHANGED <<countVars, held, blockedBy, listed, exits, res, popped, todo, after,
                 queue, alarm, kills, doomed>>

Running == pc["stp"] = "cpu"
Current == who["stp"]

\* The planner's loop: a process no longer in EXEC is left.
Loop ==
  /\ pc["stp"] = "run"
  /\ IF status[Current] = "EXEC" THEN Goto("stp", "cpu") /\ UNCHANGED <<who, res>>
     ELSE StpDone
  /\ UNCHANGED <<countVars, procVars, popped, todo, after, queue, alarm, killVars>>

\* Quantum and priority evictions, which look whether the process has exited,
\* and every call that readies the process.
Preempt ==
  /\ Running
  /\ \/ MakeReady(Current)
     \/ status[Current] = "EXIT" /\ UNCHANGED <<ready, status>>
  /\ StpDone
  /\ UNCHANGED <<countVars, held, blockedBy, listed, exits, popped, todo, after, queue,
                 alarm, killVars>>

------------------------------------------------------------------------------
(* WAIT: the counter, then the queue or the assignment.                     *)

Wait(r) ==
  /\ Running
  /\ qty' = [qty EXCEPT ![r] = @ - 1]
  /\ res' = [res EXCEPT !["stp"] = r]
  /\ Goto("stp", IF qty[r] - 1 >= 0 THEN "grant" ELSE "enqueue")
  /\ UNCHANGED <<forged, extra, lost, procVars, who, popped, todo, after, queue,
                 alarm, killVars>>

\* Mutant: the process is readied without the unit.
GrantUnrecorded ==
  /\ pc["stp"] = "grant"
  /\ MakeReady(Current)
  /\ StpDone
  /\ UNCHANGED <<countVars, held, blockedBy, listed, exits, popped, todo, after, queue,
                 alarm, killVars>>

Grant ==
  /\ pc["stp"] = "grant"
  /\ Assign(Current, res["stp"])
  /\ MakeReady(Current)
  /\ StpDone
  /\ UNCHANGED <<countVars, listed, exits, popped, todo, after, queue, alarm, killVars>>

Enqueue ==
  /\ pc["stp"] = "enqueue"
  /\ queue' = [queue EXCEPT ![res["stp"]] = Append(@, Current)]
  /\ Goto("stp", "block")
  /\ UNCHANGED <<countVars, procVars, who, res, popped, todo, after, alarm,
                 killVars>>

Block ==
  /\ pc["stp"] = "block"
  /\ status' = [status EXCEPT ![Current] = "BLOCK"]
  /\ Goto("stp", "mark")
  /\ UNCHANGED <<countVars, held, blockedBy, ready, listed, exits, who, res, popped,
                 todo, after, queue, alarm, killVars>>

\* get_running_processes_by_asigned_resource
Holders(r) == {p \in Process : Alive(p) /\ held[p][r] > 0}

\* Resources that hold back the blocked holders of r.
Needed(b, r) == {b[p] : p \in {q \in Holders(r) : status[q] = "BLOCK"}} \ {NoResource}

\* _checkForDeadlock, with its test as it is written: not every needed
\* resource is held by the process that asks.
Deadlocked(p, r, b) == ~ \A s \in Needed(b, r) : p \in Holders(s)

Mark ==
  /\ pc["stp"] = "mark"
  /\ blockedBy' = [blockedBy EXCEPT ![Current] = res["stp"]]
  /\ alarm' = Deadlocked(Current, res["stp"], blockedBy')
  /\ StpDone
  /\ UNCHANGED <<countVars, held, status, ready, listed, exits, popped, todo, after,
                 queue, killVars>>

------------------------------------------------------------------------------
(* release_resource, for SIGNAL and for each unit of an exiting process.    *)

\* Mutant: a counter that comes back to 0 wakes nobody.
ReleaseStrict(t, r) ==
  LET n == qty[r] + 1
  IN /\ qty' = [qty EXCEPT ![r] = n]
     /\ extra' = extra
     /\ res' = [res EXCEPT ![t] = r]
     /\ Goto(t, IF n > 0 THEN "dropWake" ELSE "drop")

\* Mutant: waiters are served only when the resource is free again.
ReleaseWhenFree(t, r) ==
  LET n == qty[r] + 1
  IN /\ qty' = [qty EXCEPT ![r] = n]
     /\ extra' = extra
     /\ res' = [res EXCEPT ![t] = r]
     /\ Goto(t, IF n = MaxQty[r] THEN "dropWake" ELSE "drop")

\* resources_release: the counter is raised before it is compared with max_qty.
\* Only a counter that has come back to 0 or more leads to a wake-up.
Release(t, r) ==
  LET n == qty[r] + 1
      refused == n > MaxQty[r]
  IN /\ qty' = [qty EXCEPT ![r] = n]
     /\ extra' = IF refused THEN [extra EXCEPT ![r] = @ + 1] ELSE extra
     /\ res' = [res EXCEPT ![t] = r]
     /\ Goto(t, IF refused THEN "expel" ELSE IF n >= 0 THEN "dropWake" ELSE "drop")

Signal(r) ==
  /\ Running
  /\ \/ held[Current][r] > 0 /\ UNCHANGED forged
     \/ held[Current][r] = 0 /\ forged < MaxForged /\ forged' = forged + 1
  /\ Release("stp", r)
  /\ after' = [after EXCEPT !["stp"] = "run"]
  /\ UNCHANGED <<lost, procVars, who, popped, todo, queue, alarm, killVars>>

\* Mutant: the unit stays in asigned_resources.
DropNothing(t) ==
  /\ pc[t] \in {"drop", "dropWake"}
  /\ Goto(t, IF pc[t] = "dropWake" THEN "pop" ELSE after[t])
  /\ UNCHANGED <<countVars, procVars, who, res, popped, todo, after, queue,
                 alarm, killVars>>

\* Mutant: a unit is taken off without looking whether there is one.
DropUnchecked(t) ==
  /\ pc[t] \in {"drop", "dropWake"}
  /\ held' = [held EXCEPT ![who[t]][res[t]] = @ - 1] /\ UNCHANGED extra
  /\ Goto(t, IF pc[t] = "dropWake" THEN "pop" ELSE after[t])
  /\ UNCHANGED <<qty, forged, lost, blockedBy, status, ready, listed, exits, who, res,
                 popped, todo, after, queue, alarm, killVars>>

\* process_remove_resource removes one unit, if there is one.
Drop(t) ==
  /\ pc[t] \in {"drop", "dropWake"}
  /\ LET p == who[t]  r == res[t]
     IN IF held[p][r] > 0
        THEN held' = [held EXCEPT ![p][r] = @ - 1] /\ UNCHANGED extra
        ELSE extra' = [extra EXCEPT ![r] = @ + 1] /\ UNCHANGED held
  /\ Goto(t, IF pc[t] = "dropWake" THEN "pop" ELSE after[t])
  /\ UNCHANGED <<qty, forged, lost, blockedBy, status, ready, listed, exits, who, res,
                 popped, todo, after, queue, alarm, killVars>>

\* Mutant: the pid is read but stays in the queue.
PopPeek(t) ==
  /\ pc[t] = "pop"
  /\ LET r == res[t]
     IN IF queue[r] = <<>>
        THEN Goto(t, after[t]) /\ UNCHANGED popped
        ELSE /\ popped' = [popped EXCEPT ![t] = Head(queue[r])]
             /\ Goto(t, "find")
  /\ UNCHANGED <<countVars, procVars, who, res, todo, after, queue, alarm, killVars>>

\* assign_resource_to_queued_process: the oldest waiting pid, if any.
Pop(t) ==
  /\ pc[t] = "pop"
  /\ LET r == res[t]
     IN IF queue[r] = <<>>
        THEN Goto(t, after[t]) /\ UNCHANGED <<queue, popped>>
        ELSE /\ queue' = [queue EXCEPT ![r] = Tail(@)]
             /\ popped' = [popped EXCEPT ![t] = Head(queue[r])]
             /\ Goto(t, "find")
  /\ UNCHANGED <<countVars, procVars, who, res, todo, after, alarm, killVars>>

\* The pid is looked up in running_process_contexts.
Find(t) ==
  /\ pc[t] = "find"
  /\ IF Alive(popped[t])
     THEN Goto(t, "give") /\ UNCHANGED <<popped, lost>>
     ELSE /\ lost' = [lost EXCEPT ![res[t]] = @ + 1]
          /\ popped' = [popped EXCEPT ![t] = NoProcess]
          /\ Goto(t, after[t])
  /\ UNCHANGED <<qty, forged, extra, procVars, who, res, todo, after, queue, alarm,
                 killVars>>

\* The pcb found gets the unit and is queued as ready; READY is written later.
Give(t) ==
  /\ pc[t] = "give"
  /\ Assign(popped[t], res[t])
  /\ ready' = ready \cup {popped[t]}
  /\ Goto(t, "wake")
  /\ UNCHANGED <<countVars, status, listed, exits, who, res, popped, todo, after, queue,
                 alarm, killVars>>

Wake(t) ==
  /\ pc[t] = "wake"
  /\ status' = [status EXCEPT ![popped[t]] = "READY"]
  /\ popped' = [popped EXCEPT ![t] = NoProcess]
  /\ Goto(t, after[t])
  /\ UNCHANGED <<countVars, held, blockedBy, ready, listed, exits, who, res, todo,
                 after, queue, alarm, killVars>>

------------------------------------------------------------------------------
(* The ends of a process.                                                   *)

\* remove_process and exit_process: units still held go with the pcb.
Leave(p) ==
  /\ ready' = ready \ {p} /\ listed' = listed \ {p}
  /\ status' = [status EXCEPT ![p] = "EXIT"]
  /\ held' = [held EXCEPT ![p] = Nothing]
  /\ lost' = [r \in Resource |-> lost[r] + held[p][r]]
  /\ exits' = [exits EXCEPT ![p] = @ + 1]

\* WAIT or SIGNAL of a resource that is not defined.
BadName ==
  /\ Running
  /\ Goto("stp", "expel")
  /\ after' = [after EXCEPT !["stp"] = "run"]
  /\ UNCHANGED <<countVars, procVars, who, res, popped, todo, queue, alarm, killVars>>

\* The error branches of onWait and release_resource: exit without release.  In
\* the loop of an exit the next units are released, and the exit follows again.
Expel(t) ==
  /\ pc[t] = "expel"
  /\ Leave(who[t])
  /\ IF after[t] = "run" THEN StpDone
     ELSE Goto(t, "loop") /\ UNCHANGED <<who, res>>
  /\ UNCHANGED <<qty, forged, extra, blockedBy, popped, todo, after, queue, alarm,
                 killVars>>

\* force_exit_process: iterates over a copy of asigned_resources.
StartExit(t, p) ==
  /\ todo' = [todo EXCEPT ![t] = held[p]]
  /\ after' = [after EXCEPT ![t] = "loop"]
  /\ Goto(t, "loop")

\* EXIT and the errors the CPU reports.
Exit ==
  /\ Running
  /\ StartExit("stp", Current)
  /\ UNCHANGED <<countVars, procVars, who, res, popped, queue, alarm, killVars>>

\* FINALIZAR_PROCESO: the console finds the process...
KillFind(p) ==
  /\ pc["console"] = "prompt" /\ kills < MaxKills /\ Alive(p)
  /\ who' = [who EXCEPT !["console"] = p]
  /\ kills' = kills + 1
  /\ Goto("console", "found")
  /\ UNCHANGED <<countVars, procVars, res, popped, todo, after, queue, alarm, doomed,
                 crossed>>

\* ...looks at its status, and leaves a process in EXEC to an interruption...
KillJudge ==
  LET p == who["console"]
      busy == who["stp"] = p /\ pc["stp"] # "mark"
  IN /\ pc["console"] = "found"
     /\ IF status[p] = "EXEC"
        THEN /\ Goto("console", "prompt")
             /\ who' = [who EXCEPT !["console"] = NoProcess]
             /\ UNCHANGED <<doomed, crossed>>
        ELSE /\ Goto("console", "judged")
             /\ doomed' = doomed \cup {p}
             /\ crossed' = (crossed \/ busy \/ ~ Alive(p))
             /\ UNCHANGED who
     /\ UNCHANGED <<countVars, procVars, res, popped, todo, after, queue, alarm, kills>>

\* ...and ends any other itself, with the status mutex released.
KillStart ==
  /\ pc["console"] = "judged"
  /\ StartExit("console", who["console"])
  /\ UNCHANGED <<countVars, procVars, who, res, popped, queue, alarm, killVars>>

ReleaseNext(t) ==
  /\ pc[t] = "loop"
  /\ \E r \in Resource :
       /\ todo[t][r] > 0
       /\ todo' = [todo EXCEPT ![t][r] = @ - 1]
       /\ Release(t, r)
  /\ UNCHANGED <<forged, lost, procVars, who, popped, after, queue, alarm, killVars>>

Finish(t) ==
  /\ pc[t] = "loop" /\ todo[t] = Nothing
  /\ Leave(who[t])
  /\ Goto(t, IF t = "stp" THEN "idle" ELSE "prompt")
  /\ who' = [who EXCEPT ![t] = NoProcess]
  /\ res' = [res EXCEPT ![t] = NoResource]
  /\ UNCHANGED <<qty, forged, extra, blockedBy, popped, todo, after, queue, alarm,
                 killVars>>

------------------------------------------------------------------------------
Init ==
  /\ qty = MaxQty /\ queue = [r \in Resource |-> <<>>]
  /\ held = [p \in Process |-> Nothing]
  /\ blockedBy = [p \in Process |-> NoResource]
  /\ status = [p \in Process |-> "READY"] /\ ready = Process /\ listed = Process
  /\ pc = [t \in Thread |-> IF t = "stp" THEN "idle" ELSE "prompt"]
  /\ who = [t \in Thread |-> NoProcess] /\ popped = [t \in Thread |-> NoProcess]
  /\ res = [t \in Thread |-> NoResource]
  /\ todo = [t \in Thread |-> Nothing] /\ after = [t \in Thread |-> "run"]
  /\ alarm = FALSE /\ kills = 0 /\ doomed = {} /\ crossed = FALSE
  /\ forged = 0 /\ extra = Nothing /\ lost = Nothing
  /\ exits = [p \in Process |-> 0]

Releasing(t) ==
  ReleaseNext(t) \/ Drop(t) \/ Pop(t) \/ Find(t) \/ Give(t) \/ Wake(t) \/ Expel(t)
    \/ Finish(t)

Next ==
  \/ \E p \in Process : Dispatch(p) \/ KillFind(p)
  \/ \E r \in Resource : Wait(r) \/ Signal(r)
  \/ Loop \/ Preempt \/ Grant \/ Enqueue \/ Block \/ Mark \/ BadName \/ Exit
  \/ KillJudge \/ KillStart
  \/ \E t \in Thread : Releasing(t)

Spec == Init /\ [][Next]_vars

------------------------------------------------------------------------------
(* Properties.                                                              *)

TypeOK ==
  /\ qty \in [Resource -> Int] /\ queue \in [Resource -> Seq(Process)]
  /\ held \in [Process -> [Resource -> Nat]]
  /\ blockedBy \in [Process -> Resource \cup {NoResource}]
  /\ status \in [Process -> {"READY", "EXEC", "BLOCK", "EXIT"}]
  /\ ready \subseteq Process /\ listed \subseteq Process
  /\ pc \in [Thread -> {"idle", "run", "cpu", "grant", "enqueue", "block", "mark",
                        "drop", "dropWake", "pop", "find", "give", "wake", "expel",
                        "loop", "prompt", "found", "judged"}]
  /\ who \in [Thread -> Process \cup {NoProcess}]
  /\ popped \in [Thread -> Process \cup {NoProcess}]
  /\ res \in [Thread -> Resource \cup {NoResource}]
  /\ todo \in [Thread -> [Resource -> Nat]] /\ after \in [Thread -> {"run", "loop"}]
  /\ alarm \in BOOLEAN
  /\ kills \in Nat /\ doomed \subseteq Process /\ crossed \in BOOLEAN
  /\ forged \in Nat /\ extra \in [Resource -> Nat] /\ lost \in [Resource -> Nat]
  /\ exits \in [Process -> Nat]

\* Units of r assigned to processes.
Units(r) == Cardinality(UNION {{p} \X (1..held[p][r]) : p \in Process})

\* Units between a counter and a process or a queue: taken by a WAIT and not
\* yet assigned or queued, or popped and not yet given; and, counted twice,
\* those returned to the counter and not yet taken from the process.
Passing(r, l) == Cardinality({t \in Thread : res[t] = r /\ pc[t] \in l})
Taken(r) == Passing(r, {"grant", "enqueue", "find", "give"})
Twice(r) == Passing(r, {"drop", "dropWake"})

\* Whatever WAITs, SIGNALs, exits and kills interleave, every unit is accounted
\* for: the counter, the holders, the waiters, the units in passage and the units
\* left with processes that are gone add up to the configured amount and the
\* units that appeared from nowhere, each by a release of a unit not held or by
\* one the counter refused.  (ExitsOnce says when there are none of these.)
Conserved ==
  \A r \in Resource :
    qty[r] + Units(r) + Len(queue[r]) + Taken(r) + lost[r]
      = MaxQty[r] + extra[r] + Twice(r)

Honest == kills = 0 /\ forged = 0 /\ lost = Nothing
Quiet(r) == \A t \in Thread : res[t] # r

\* Without kills, and as long as no more processes wait than there are units,
\* waiters always have somebody to wait for.
NotStranded ==
  Honest => \A r \in Resource :
              Quiet(r) /\ queue[r] # <<>> /\ Len(queue[r]) <= MaxQty[r] => Units(r) > 0

\* A process that waits for r is blocked, is marked as blocked by r, is in no
\* other queue and cannot be picked, so nobody can run it or wake it twice.
WaiterIsBlocked ==
  kills = 0 => \A r \in Resource : \A i \in DOMAIN queue[r] :
    LET p == queue[r][i]
    IN who["stp"] # p =>
         /\ status[p] = "BLOCK" /\ blockedBy[p] = r /\ p \notin ready
         /\ \A s \in Resource : \A j \in DOMAIN queue[s] :
              queue[s][j] = p => s = r /\ i = j

\* Without kills a WAIT for a resource of at most two units is granted only
\* when nobody is waiting for it: no process overtakes the queue.  (With three
\* units one does: each counter that comes back to 0 or more wakes one waiter, the
\* next unit makes it positive with others still waiting.  A kill that returns a
\* unit between the decrement of a WAIT and its entry in the queue breaks it too.)
NoBarging ==
  pc["stp"] = "grant" /\ kills = 0 /\ forged = 0 /\ MaxQty[res["stp"]] <= 2 =>
    queue[res["stp"]] = <<>>

\* As long as programs only SIGNAL what they hold and no kill crosses the planner
\* (the planner and the console never both end one process, which nothing in the
\* code prevents), no unit appears from nowhere, no release finds its counter above
\* the maximum, and exit_process runs once for a process, whatever exits and kills
\* of different processes interleave.
ExitsOnce ==
  forged = 0 /\ ~ crossed => extra = Nothing /\ \A p \in Process : exits[p] <= 1

\* SIGNAL serves a waiter (resources.c: "desbloquea al primer proceso de la cola
\* de bloqueados de ese recurso"): whenever somebody waits for r, kills and
\* errors aside, somebody holds a unit of it.
SignalServes ==
  Honest => \A r \in Resource : Quiet(r) /\ queue[r] # <<>> => Units(r) > 0

\* The detector reports a process that asks for a resource whose holder waits
\* for one the process holds (deadlock.c: "si el proceso inicial (el que desea el
\* recurso) está en la lista de procesos anterior, entonces hay deadlock").
CycleIsReported ==
  [][pc["stp"] = "mark" /\ pc'["stp"] = "idle" =>
       ((\E s \in Needed(blockedBy', res["stp"]) : who["stp"] \in Holders(s))
          => alarm')]_vars
=============================================================================
