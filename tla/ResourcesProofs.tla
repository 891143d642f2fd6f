---------------------------- MODULE ResourcesProofs ----------------------------
(***************************************************************************)
(* What WAIT, SIGNAL, exits and kills keep, for every number of processes, *)
(* resources and units.  A kill may cross the planner: types and accounts  *)
(* hold even then; the rest is claimed only as long as none has.           *)
(***************************************************************************)
EXTENDS Resources, QueueLemmas, FiniteSetTheorems

------------------------------------------------------------------------------
(* Types, and what each program point has in its hands.                     *)

StpPC == {"idle", "run", "cpu", "grant", "enqueue", "block", "mark", "drop", "dropWake",
          "pop", "find", "give", "wake", "expel", "loop"}
ConsolePC == {"prompt", "found", "judged", "drop", "dropWake", "pop", "find", "give",
              "wake", "expel", "loop"}
ReleasePC == {"drop", "dropWake", "pop", "find", "give", "wake"}
ResPC == {"grant", "enqueue", "block", "mark"} \cup ReleasePC

\* What thread t at l has: its pcb w, its resource r, the pid i it popped, and
\* where it goes when the release is over.
Fits(t, l, w, r, i, a) ==
  /\ l \in (IF t = "stp" THEN StpPC ELSE ConsolePC)
  /\ t = "console" /\ l \notin {"prompt", "found", "judged"} => a = "loop"
  /\ IF l \in {"idle", "prompt"} THEN w = NoProcess ELSE w \in Process
  /\ l \in ResPC => r \in Resource
  /\ l \in {"find", "give", "wake"} => i \in Process
PcOK == \A t \in Thread : Fits(t, pc[t], who[t], res[t], popped[t], after[t])

CountTypes ==
  /\ qty \in [Resource -> Int] /\ forged \in Nat
  /\ extra \in [Resource -> Nat] /\ lost \in [Resource -> Nat]
ProcTypes ==
  /\ held \in [Process -> [Resource -> Nat]]
  /\ blockedBy \in [Process -> Resource \cup {NoResource}]
  /\ status \in [Process -> {"READY", "EXEC", "BLOCK", "EXIT"}]
  /\ ready \subseteq Process /\ listed \subseteq Process
  /\ exits \in [Process -> Nat]
FlowTypes ==
  /\ pc \in [Thread -> StpPC \cup ConsolePC]
  /\ who \in [Thread -> Process \cup {NoProcess}]
  /\ popped \in [Thread -> Process \cup {NoProcess}]
  /\ res \in [Thread -> Resource \cup {NoResource}]
  /\ todo \in [Thread -> [Resource -> Nat]] /\ after \in [Thread -> {"run", "loop"}]
RestTypes ==
  /\ queue \in [Resource -> Seq(Process)] /\ alarm \in BOOLEAN /\ kills \in Nat
  /\ doomed \subseteq Process /\ crossed \in BOOLEAN

Typing == CountTypes /\ ProcTypes /\ FlowTypes /\ RestTypes /\ PcOK

LEMMA TypesOK == TypeOK <=> CountTypes /\ ProcTypes /\ FlowTypes /\ RestTypes
  BY DEF TypeOK, CountTypes, ProcTypes, FlowTypes, RestTypes, StpPC, ConsolePC, killVars

LEMMA InitTyping == Init => Typing
<1> SUFFICES ASSUME Init PROVE TypeOK /\ PcOK
  BY TypesOK DEF Typing
<1>1. TypeOK
  <2>1. qty \in [Resource -> Int]
    BY ResourceAssumption DEF Init
  <2>2. queue \in [Resource -> Seq(Process)]
    BY DEF Init
  <2>3. pc \in [Thread -> StpPC \cup ConsolePC]
    BY DEF Init, StpPC, ConsolePC
  <2>4. held \in [Process -> [Resource -> Nat]] /\ todo \in [Thread -> [Resource -> Nat]]
    BY DEF Init, Nothing
  <2> QED BY <2>1, <2>2, <2>3, <2>4, ResourceAssumption DEF Init, TypeOK, Nothing, StpPC,
     ConsolePC
<1>2. PcOK
  BY DEF Init, PcOK, Fits, StpPC, ConsolePC, ResPC, ReleasePC
<1> QED BY <1>1, <1>2

LEMMA LeaveTypes ==
  ASSUME CountTypes, ProcTypes, NEW p \in Process, Leave(p),
         UNCHANGED <<qty, forged, extra, blockedBy>>
  PROVE  CountTypes' /\ ProcTypes'
<1>1. lost' \in [Resource -> Nat]
  BY DEF CountTypes, ProcTypes, Leave
<1>2. held' \in [Process -> [Resource -> Nat]]
  BY DEF ProcTypes, Leave, Nothing
<1>3. status' \in [Process -> {"READY", "EXEC", "BLOCK", "EXIT"}] /\ exits' \in [Process -> Nat]
  BY DEF ProcTypes, Leave
<1>4. ready' \subseteq Process /\ listed' \subseteq Process
  BY DEF ProcTypes, Leave
<1> QED BY <1>1, <1>2, <1>3, <1>4 DEF CountTypes, ProcTypes

LEMMA ReleaseTypes ==
  ASSUME CountTypes, NEW t \in Thread, NEW r \in Resource, Release(t, r),
         forged' \in Nat, UNCHANGED lost
  PROVE  /\ CountTypes'
         /\ res' = [res EXCEPT ![t] = r]
         /\ \E l \in {"expel", "dropWake", "drop"} : pc' = [pc EXCEPT ![t] = l]
<1>1. qty' \in [Resource -> Int] /\ extra' \in [Resource -> Nat]
  BY DEF CountTypes, Release
<1> QED BY <1>1 DEF CountTypes, Release, Goto

LEMMA DispatchTyping ==
  ASSUME Typing, NEW p \in Process, Dispatch(p)
  PROVE  Typing'
<1>1. pc' \in [Thread -> StpPC \cup ConsolePC] /\ PcOK'
  BY DEF Dispatch, Goto, Typing, FlowTypes, PcOK, Fits, StpPC, ConsolePC, ResPC, ReleasePC
<1>2. FlowTypes'
  BY <1>1 DEF Dispatch, Typing, FlowTypes, PcOK, Fits, ProcTypes
<1>3. CountTypes' /\ ProcTypes' /\ RestTypes'
  BY DEF Dispatch, Typing, CountTypes, ProcTypes, RestTypes, PcOK, Fits, countVars,
     procVars, ResPC, killVars
<1> QED BY <1>1, <1>2, <1>3 DEF Typing

LEMMA WaitTyping ==
  ASSUME Typing, NEW r \in Resource, Wait(r)
  PROVE  Typing'
<1>1. pc' \in [Thread -> StpPC \cup ConsolePC] /\ PcOK'
  BY DEF Wait, Goto, Running, Typing, FlowTypes, PcOK, Fits, StpPC, ConsolePC, ResPC,
     ReleasePC
<1>2. FlowTypes'
  BY <1>1 DEF Wait, Running, Typing, FlowTypes, PcOK, Fits, ProcTypes
<1>3. CountTypes'
  BY DEF Wait, Typing, CountTypes
<1>4. ProcTypes' /\ RestTypes'
  BY DEF Wait, Typing, ProcTypes, RestTypes, procVars, killVars
<1> QED BY <1>1, <1>2, <1>3, <1>4 DEF Typing

LEMMA LoopTyping ==
  ASSUME Typing, Loop
  PROVE  Typing'
<1>1. pc' \in [Thread -> StpPC \cup ConsolePC] /\ PcOK'
  <2>1. CASE status[Current] = "EXEC"
    <3>1. /\ pc["stp"] = "run" /\ pc' = [pc EXCEPT !["stp"] = "cpu"]
          /\ who' = who /\ res' = res /\ popped' = popped /\ after' = after
      BY <2>1 DEF Loop, Goto
    <3> QED BY <3>1 DEF Typing, FlowTypes, PcOK, Fits, StpPC, ConsolePC, ResPC, ReleasePC,
          Thread
  <2>2. CASE status[Current] # "EXEC"
    BY <2>2 DEF Loop, Goto, StpDone, Typing, FlowTypes, PcOK, Fits, StpPC, ConsolePC,
       ResPC, ReleasePC, Thread
  <2> QED BY <2>1, <2>2
<1>2. FlowTypes'
  BY <1>1 DEF Loop, StpDone, Typing, FlowTypes, PcOK, Fits
<1>3. CountTypes' /\ ProcTypes' /\ RestTypes'
  BY DEF Loop, Typing, CountTypes, ProcTypes, RestTypes, countVars, procVars, killVars
<1> QED BY <1>1, <1>2, <1>3 DEF Typing

LEMMA PreemptTyping ==
  ASSUME Typing, Preempt
  PROVE  Typing'
<1>1. pc' \in [Thread -> StpPC \cup ConsolePC] /\ PcOK'
  BY DEF Preempt, Goto, StpDone, Running, Current, MakeReady, Typing, FlowTypes, PcOK,
     Fits, StpPC, ConsolePC, ResPC, ReleasePC
<1>2. FlowTypes'
  BY <1>1 DEF Preempt, StpDone, Running, Current, MakeReady, Typing, FlowTypes, PcOK,
     Fits, ProcTypes
<1>3. CountTypes' /\ ProcTypes' /\ RestTypes'
  BY DEF Preempt, StpDone, Running, Current, MakeReady, Typing, CountTypes, ProcTypes,
     RestTypes, PcOK, Fits, countVars, procVars, Thread, ResPC, killVars
<1> QED BY <1>1, <1>2, <1>3 DEF Typing

LEMMA GrantTyping ==
  ASSUME Typing, Grant
  PROVE  Typing'
<1>1. pc' \in [Thread -> StpPC \cup ConsolePC] /\ PcOK'
  BY DEF Grant, Goto, StpDone, Running, Current, MakeReady, Assign, Typing, FlowTypes,
     PcOK, Fits, StpPC, ConsolePC, ResPC, ReleasePC
<1>2. FlowTypes'
  BY <1>1 DEF Grant, StpDone, Running, Current, MakeReady, Assign, Typing, FlowTypes,
     PcOK, Fits, ProcTypes
<1>3. ProcTypes'
  <2>1. who["stp"] \in Process /\ res["stp"] \in Resource
    BY DEF Grant, Typing, PcOK, Fits, Thread, ResPC
  <2>2. held' \in [Process -> [Resource -> Nat]]
    BY <2>1 DEF Grant, Typing, ProcTypes, Assign, Current
  <2> QED BY <2>1, <2>2 DEF Grant, Typing, ProcTypes, Assign, MakeReady, Current
<1>4. CountTypes' /\ RestTypes'
  BY DEF Grant, Typing, CountTypes, RestTypes, countVars, killVars
<1> QED BY <1>1, <1>2, <1>3, <1>4 DEF Typing

LEMMA EnqueueTyping ==
  ASSUME Typing, Enqueue
  PROVE  Typing'
<1>1. pc' \in [Thread -> StpPC \cup ConsolePC] /\ PcOK'
  BY DEF Enqueue, Goto, StpDone, Running, Current, Typing, FlowTypes, PcOK, Fits, StpPC,
     ConsolePC, ResPC, ReleasePC
<1>2. FlowTypes'
  BY <1>1 DEF Enqueue, StpDone, Running, Current, Typing, FlowTypes, PcOK, Fits, ProcTypes
<1>3. RestTypes'
  <2>1. who["stp"] \in Process /\ res["stp"] \in Resource
    BY DEF Enqueue, Typing, PcOK, Fits, Thread, ResPC
  <2>2. Append(queue[res["stp"]], who["stp"]) \in Seq(Process)
    BY <2>1 DEF Typing, RestTypes, killVars
  <2> QED BY <2>1, <2>2 DEF Enqueue, Typing, RestTypes, Current, killVars
<1>4. CountTypes' /\ ProcTypes'
  BY DEF Enqueue, Typing, CountTypes, ProcTypes, countVars, procVars
<1> QED BY <1>1, <1>2, <1>3, <1>4 DEF Typing

LEMMA BlockTyping ==
  ASSUME Typing, Block
  PROVE  Typing'
<1>1. pc' \in [Thread -> StpPC \cup ConsolePC] /\ PcOK'
  BY DEF Block, Goto, StpDone, Running, Current, Typing, FlowTypes, PcOK, Fits, StpPC,
     ConsolePC, ResPC, ReleasePC
<1>2. FlowTypes'
  BY <1>1 DEF Block, StpDone, Running, Current, Typing, FlowTypes, PcOK, Fits, ProcTypes
<1>3. CountTypes' /\ ProcTypes' /\ RestTypes'
  BY DEF Block, StpDone, Running, Current, Typing, CountTypes, ProcTypes, RestTypes, PcOK,
     Fits, countVars, procVars, ResPC, killVars
<1> QED BY <1>1, <1>2, <1>3 DEF Typing

LEMMA MarkTyping ==
  ASSUME Typing, Mark
  PROVE  Typing'
<1>1. pc' \in [Thread -> StpPC \cup ConsolePC] /\ PcOK'
  BY DEF Mark, Goto, StpDone, Running, Current, Deadlocked, Typing, FlowTypes, PcOK, Fits,
     StpPC, ConsolePC, ResPC, ReleasePC
<1>2. FlowTypes'
  BY <1>1 DEF Mark, StpDone, Running, Current, Deadlocked, Typing, FlowTypes, PcOK, Fits,
     ProcTypes
<1>3. CountTypes' /\ ProcTypes' /\ RestTypes'
  BY DEF Mark, StpDone, Running, Current, Deadlocked, Typing, CountTypes, ProcTypes,
     RestTypes, PcOK, Fits, countVars, procVars, Thread, ResPC, killVars
<1> QED BY <1>1, <1>2, <1>3 DEF Typing

LEMMA BadNameTyping ==
  ASSUME Typing, BadName
  PROVE  Typing'
<1>1. pc' \in [Thread -> StpPC \cup ConsolePC] /\ PcOK'
  BY DEF BadName, Goto, StpDone, Running, Current, Typing, FlowTypes, PcOK, Fits, StpPC,
     ConsolePC, ResPC, ReleasePC
<1>2. FlowTypes'
  BY <1>1 DEF BadName, StpDone, Running, Current, Typing, FlowTypes, PcOK, Fits, ProcTypes
<1>3. CountTypes' /\ ProcTypes' /\ RestTypes'
  BY DEF BadName, StpDone, Running, Current, Typing, CountTypes, ProcTypes, RestTypes,
     PcOK, Fits, countVars, procVars, ResPC, killVars
<1> QED BY <1>1, <1>2, <1>3 DEF Typing

LEMMA ExitTyping ==
  ASSUME Typing, Exit
  PROVE  Typing'
<1>1. pc' \in [Thread -> StpPC \cup ConsolePC] /\ PcOK'
  BY DEF Exit, Goto, StpDone, Running, Current, StartExit, Typing, FlowTypes, PcOK, Fits,
     StpPC, ConsolePC, ResPC, ReleasePC
<1>2. FlowTypes'
  BY <1>1 DEF Exit, StpDone, Running, Current, StartExit, Typing, FlowTypes, PcOK, Fits,
     ProcTypes
<1>3. CountTypes' /\ ProcTypes' /\ RestTypes'
  BY DEF Exit, StpDone, Running, Current, StartExit, Typing, CountTypes, ProcTypes,
     RestTypes, PcOK, Fits, countVars, procVars, ResPC, killVars
<1> QED BY <1>1, <1>2, <1>3 DEF Typing

LEMMA KillFindTyping ==
  ASSUME Typing, NEW p \in Process, KillFind(p)
  PROVE  Typing'
<1>1. pc' \in [Thread -> StpPC \cup ConsolePC] /\ PcOK'
  BY DEF KillFind, Goto, Typing, FlowTypes, PcOK, Fits, StpPC, ConsolePC, ResPC, ReleasePC
<1>2. FlowTypes'
  BY <1>1 DEF KillFind, Typing, FlowTypes, PcOK, Fits
<1>3. CountTypes' /\ ProcTypes' /\ RestTypes'
  <2>1. kills' \in Nat
    BY DEF KillFind, Typing, RestTypes, killVars
  <2> QED BY <2>1 DEF KillFind, Typing, CountTypes, ProcTypes, RestTypes, countVars, procVars, killVars
<1> QED BY <1>1, <1>2, <1>3 DEF Typing

LEMMA KillJudgeTyping ==
  ASSUME Typing, KillJudge
  PROVE  Typing'
<1>0. who["console"] \in Process /\ pc["console"] = "found"
  BY DEF KillJudge, Typing, PcOK, Fits, Thread
<1>1. pc' \in [Thread -> StpPC \cup ConsolePC] /\ PcOK'
  <2>1. CASE status[who["console"]] = "EXEC"
    BY <1>0, <2>1 DEF KillJudge, Goto, Typing, FlowTypes, PcOK, Fits, StpPC, ConsolePC,
       ResPC, ReleasePC, Thread
  <2>2. CASE status[who["console"]] # "EXEC"
    BY <1>0, <2>2 DEF KillJudge, Goto, Typing, FlowTypes, PcOK, Fits, StpPC, ConsolePC,
       ResPC, ReleasePC
  <2> QED BY <2>1, <2>2
<1>2. FlowTypes'
  BY <1>1 DEF KillJudge, Typing, FlowTypes, PcOK, Fits
<1>3. CountTypes' /\ ProcTypes'
  BY DEF KillJudge, Typing, CountTypes, ProcTypes, countVars, procVars
<1>4. RestTypes'
  BY <1>0 DEF KillJudge, Typing, RestTypes, Alive, killVars
<1> QED BY <1>1, <1>2, <1>3, <1>4 DEF Typing

LEMMA KillStartTyping ==
  ASSUME Typing, KillStart
  PROVE  Typing'
<1>0. who["console"] \in Process
  BY DEF KillStart, Typing, PcOK, Fits, Thread
<1>1. pc' \in [Thread -> StpPC \cup ConsolePC] /\ PcOK'
  BY DEF KillStart, StartExit, Goto, Typing, FlowTypes, PcOK, Fits, StpPC, ConsolePC,
     ResPC, ReleasePC
<1>2. FlowTypes'
  BY <1>0, <1>1 DEF KillStart, StartExit, Typing, FlowTypes, PcOK, Fits, ProcTypes
<1>3. CountTypes' /\ ProcTypes' /\ RestTypes'
  BY DEF KillStart, Typing, CountTypes, ProcTypes, RestTypes, countVars, procVars, killVars
<1> QED BY <1>1, <1>2, <1>3 DEF Typing

LEMMA DropTyping ==
  ASSUME Typing, NEW t \in Thread, Drop(t)
  PROVE  Typing'
<1>1. pc' \in [Thread -> StpPC \cup ConsolePC] /\ PcOK'
  BY DEF Drop, Goto, Typing, FlowTypes, PcOK, Fits, Thread, StpPC, ConsolePC, ResPC,
     ReleasePC
<1>2. FlowTypes'
  BY <1>1 DEF Drop, Typing, FlowTypes, PcOK, Fits, ProcTypes
<1>3. ProcTypes'
  <2>1. who[t] \in Process /\ res[t] \in Resource
    BY DEF Drop, Typing, PcOK, Fits, ResPC, ReleasePC
  <2>2. held' \in [Process -> [Resource -> Nat]]
    <3>1. CASE held[who[t]][res[t]] > 0
      <4>1. /\ held \in [Process -> [Resource -> Nat]]
            /\ held' = [held EXCEPT ![who[t]][res[t]] = @ - 1]
        BY <3>1 DEF Drop, Typing, ProcTypes
      <4>2. held[who[t]] \in [Resource -> Nat] /\ held[who[t]][res[t]] - 1 \in Nat
        BY <2>1, <3>1, <4>1
      <4>3. [held[who[t]] EXCEPT ![res[t]] = @ - 1] \in [Resource -> Nat]
        BY <4>2
      <4> QED BY <2>1, <4>1, <4>3
    <3>2. CASE ~ (held[who[t]][res[t]] > 0)
      BY <3>2 DEF Drop, Typing, ProcTypes
    <3> QED BY <3>1, <3>2
  <2> QED BY <2>2 DEF Drop, Typing, ProcTypes
<1>4. CountTypes' /\ RestTypes'
  <2>1. res[t] \in Resource
    BY DEF Drop, Typing, PcOK, Fits, ResPC, ReleasePC
  <2>2. extra' \in [Resource -> Nat]
    BY <2>1 DEF Drop, Typing, CountTypes
  <2> QED BY <2>2 DEF Drop, Typing, CountTypes, RestTypes, killVars
<1> QED BY <1>1, <1>2, <1>3, <1>4 DEF Typing

LEMMA PopTyping ==
  ASSUME Typing, NEW t \in Thread, Pop(t)
  PROVE  Typing'
<1>0. /\ res[t] \in Resource /\ queue[res[t]] \in Seq(Process)
      /\ queue[res[t]] # <<>> => Head(queue[res[t]]) \in Process
  <2>1. res[t] \in Resource
    BY DEF Pop, Typing, PcOK, Fits, ResPC, ReleasePC
  <2> QED BY <2>1 DEF Typing, RestTypes, killVars
<1>1. pc' \in [Thread -> StpPC \cup ConsolePC] /\ PcOK'
  <2>1. CASE queue[res[t]] = <<>>
    BY <2>1 DEF Pop, Goto, Typing, FlowTypes, PcOK, Fits, Thread, StpPC, ConsolePC, ResPC,
       ReleasePC
  <2>2. CASE queue[res[t]] # <<>>
    BY ZenonT(40), <2>2, <1>0 DEF Pop, Goto, Typing, FlowTypes, PcOK, Fits, StpPC, ConsolePC, ResPC,
       ReleasePC
  <2> QED BY <2>1, <2>2
<1>2. FlowTypes'
  BY <1>1 DEF Pop, Goto, Typing, FlowTypes, PcOK, Fits, ProcTypes
<1>3. RestTypes'
  <2>1. ASSUME queue[res[t]] # <<>> PROVE Tail(queue[res[t]]) \in Seq(Process)
    BY <2>1, <1>0, TailRemoves
  <2> QED BY <2>1, <1>0 DEF Pop, Typing, RestTypes, killVars
<1>4. CountTypes' /\ ProcTypes'
  BY DEF Pop, Typing, CountTypes, ProcTypes, countVars, procVars
<1> QED BY <1>1, <1>2, <1>3, <1>4 DEF Typing

LEMMA FindTyping ==
  ASSUME Typing, NEW t \in Thread, Find(t)
  PROVE  Typing'
<1>0. popped[t] \in Process /\ res[t] \in Resource
  BY DEF Find, Typing, PcOK, Fits, ResPC, ReleasePC
<1>1. pc' \in [Thread -> StpPC \cup ConsolePC] /\ PcOK'
  BY <1>0 DEF Find, Goto, Typing, FlowTypes, PcOK, Fits, Thread, StpPC, ConsolePC, ResPC,
     ReleasePC
<1>2. FlowTypes'
  BY <1>1 DEF Find, Typing, FlowTypes, PcOK, Fits
<1>3. CountTypes'
  BY <1>0 DEF Find, Typing, CountTypes
<1>4. ProcTypes' /\ RestTypes'
  BY DEF Find, Typing, ProcTypes, RestTypes, procVars, killVars
<1> QED BY <1>1, <1>2, <1>3, <1>4 DEF Typing

LEMMA GiveTyping ==
  ASSUME Typing, NEW t \in Thread, Give(t)
  PROVE  Typing'
<1>0. popped[t] \in Process /\ res[t] \in Resource
  BY DEF Give, Typing, PcOK, Fits, ResPC, ReleasePC
<1>1. pc' \in [Thread -> StpPC \cup ConsolePC] /\ PcOK'
  BY <1>0 DEF Give, Goto, Typing, FlowTypes, PcOK, Fits, Thread, StpPC, ConsolePC, ResPC,
     ReleasePC
<1>2. FlowTypes'
  BY <1>1 DEF Give, Typing, FlowTypes, PcOK, Fits
<1>3. ProcTypes'
  <2>1. held' \in [Process -> [Resource -> Nat]]
    BY <1>0 DEF Give, Typing, ProcTypes, Assign
  <2> QED BY <1>0, <2>1 DEF Give, Typing, ProcTypes, Assign
<1>4. CountTypes' /\ RestTypes'
  BY DEF Give, Typing, CountTypes, RestTypes, countVars, killVars
<1> QED BY <1>1, <1>2, <1>3, <1>4 DEF Typing

LEMMA WakeTyping ==
  ASSUME Typing, NEW t \in Thread, Wake(t)
  PROVE  Typing'
<1>0. popped[t] \in Process
  BY DEF Wake, Typing, PcOK, Fits
<1>1. pc' \in [Thread -> StpPC \cup ConsolePC] /\ PcOK'
  BY <1>0 DEF Wake, Goto, Typing, FlowTypes, PcOK, Fits, Thread, StpPC, ConsolePC, ResPC,
     ReleasePC
<1>2. FlowTypes'
  BY <1>1 DEF Wake, Typing, FlowTypes, PcOK, Fits
<1>3. ProcTypes'
  BY <1>0 DEF Wake, Typing, ProcTypes
<1>4. CountTypes' /\ RestTypes'
  BY DEF Wake, Typing, CountTypes, RestTypes, countVars, killVars
<1> QED BY <1>1, <1>2, <1>3, <1>4 DEF Typing

LEMMA SignalTyping ==
  ASSUME Typing, NEW r \in Resource, Signal(r)
  PROVE  Typing'
<1>1. who["stp"] \in Process /\ forged' \in Nat /\ "stp" \in Thread
  BY DEF Signal, Running, Typing, CountTypes, PcOK, Fits, Thread
<1>2. PICK l \in {"expel", "dropWake", "drop"} : pc' = [pc EXCEPT !["stp"] = l]
  BY <1>1, ReleaseTypes DEF Signal, Typing, Current
<1>3. CountTypes' /\ res' = [res EXCEPT !["stp"] = r]
  BY <1>1, ReleaseTypes DEF Signal, Typing, Current
<1>4. ProcTypes' /\ RestTypes'
  BY DEF Signal, Typing, ProcTypes, RestTypes, procVars, killVars
<1>5. FlowTypes' /\ PcOK'
  BY <1>1, <1>2, <1>3 DEF Signal, Typing, FlowTypes, PcOK, Fits, Running, StpPC,
     ConsolePC, ResPC, ReleasePC
<1> QED BY <1>3, <1>4, <1>5 DEF Typing

LEMMA ReleaseNextTyping ==
  ASSUME Typing, NEW t \in Thread, ReleaseNext(t)
  PROVE  Typing'
<1>1. PICK r \in Resource :
        todo[t][r] > 0 /\ todo' = [todo EXCEPT ![t][r] = @ - 1] /\ Release(t, r)
  BY DEF ReleaseNext
<1>2. pc[t] = "loop" /\ who[t] \in Process /\ forged' = forged /\ forged \in Nat /\ lost' = lost
  BY DEF ReleaseNext, Typing, CountTypes, PcOK, Fits
<1>3. CountTypes' /\ res' = [res EXCEPT ![t] = r]
  BY <1>1, <1>2, ReleaseTypes DEF Typing
<1>4. PICK l \in {"expel", "dropWake", "drop"} : pc' = [pc EXCEPT ![t] = l]
  BY <1>1, <1>2, ReleaseTypes DEF Typing
<1>5. todo' \in [Thread -> [Resource -> Nat]]
  BY <1>1 DEF Typing, FlowTypes
<1>6. ProcTypes' /\ RestTypes'
  BY DEF ReleaseNext, Typing, ProcTypes, RestTypes, procVars, killVars
<1>7. FlowTypes' /\ PcOK'
  BY <1>2, <1>3, <1>4, <1>5 DEF ReleaseNext, Typing, FlowTypes, PcOK, Fits, StpPC,
     ConsolePC, ResPC, ReleasePC
<1> QED BY <1>3, <1>6, <1>7 DEF Typing

LEMMA ExpelTyping ==
  ASSUME Typing, NEW t \in Thread, Expel(t)
  PROVE  Typing'
<1>1. pc[t] = "expel" /\ who[t] \in Process /\ (t = "console" => after[t] = "loop")
  BY DEF Expel, Typing, PcOK, Fits
<1>2. CountTypes' /\ ProcTypes'
  BY <1>1, LeaveTypes DEF Expel, Typing
<1>3. RestTypes'
  BY DEF Expel, Typing, RestTypes, killVars
<1>4. CASE after[t] = "run"
  <2>1. t = "stp"
    BY <1>1, <1>4 DEF Thread
  <2> QED BY <1>1, <1>2, <1>3, <1>4, <2>1 DEF Expel, StpDone, Goto, Typing, FlowTypes,
     PcOK, Fits, StpPC, ConsolePC, ResPC, ReleasePC
<1>5. CASE after[t] # "run"
  BY <1>1, <1>2, <1>3, <1>5 DEF Expel, Goto, Typing, FlowTypes, PcOK, Fits, StpPC,
     ConsolePC, ResPC, ReleasePC
<1> QED BY <1>4, <1>5

LEMMA FinishTyping ==
  ASSUME Typing, NEW t \in Thread, Finish(t)
  PROVE  Typing'
<1>1. pc[t] = "loop" /\ who[t] \in Process
  BY DEF Finish, Typing, PcOK, Fits
<1>2. CountTypes' /\ ProcTypes'
  BY <1>1, LeaveTypes DEF Finish, Typing
<1>3. RestTypes'
  BY DEF Finish, Typing, RestTypes, killVars
<1>4. FlowTypes' /\ PcOK'
  BY <1>1 DEF Finish, Goto, Typing, FlowTypes, PcOK, Fits, StpPC, ConsolePC, ResPC,
     ReleasePC
<1> QED BY <1>2, <1>3, <1>4 DEF Typing

LEMMA NextTyping == Typing /\ [Next]_vars => Typing'
<1> SUFFICES ASSUME Typing, [Next]_vars PROVE Typing'
  OBVIOUS
<1>1. CASE Next
  BY <1>1, DispatchTyping, WaitTyping, PreemptTyping, GrantTyping, EnqueueTyping,
     BlockTyping, MarkTyping, BadNameTyping, ExitTyping, LoopTyping, KillFindTyping,
     KillJudgeTyping, KillStartTyping, SignalTyping, ReleaseNextTyping, DropTyping,
     PopTyping, FindTyping, GiveTyping, WakeTyping, ExpelTyping, FinishTyping
     DEF Next, Releasing
<1>2. CASE UNCHANGED vars
  BY <1>2 DEF vars, countVars, procVars, flowVars, Typing, CountTypes, ProcTypes,
     FlowTypes, RestTypes, PcOK, Fits, killVars
<1> QED BY <1>1, <1>2

LEMMA AlwaysTyping == Spec => []Typing
  BY InitTyping, NextTyping, PTL DEF Spec

\* Every variable keeps its type; in particular no process holds fewer units
\* than none (process_remove_resource).
THEOREM ResourcesTypeCorrect == Spec => []TypeOK
  BY AlwaysTyping, TypesOK, PTL DEF Typing
------------------------------------------------------------------------------
(* The inductive invariant: who has which process and which units.          *)

\* The planner has not entered its process in a queue, or is past its release.
Working == {"run", "cpu", "grant", "enqueue", "expel", "loop"} \cup ReleasePC
Releasers == ReleasePC \cup {"expel"}
Killing == pc["console"] \notin {"prompt", "found"}

InHand(t) == pc[t] \in {"find", "give"}
Waiting(p) == \/ \E r \in Resource : p \in ToSet(queue[r])
              \/ \E t \in Thread : InHand(t) /\ popped[t] = p

\* A process that is ready or being given a unit is there, unless it was killed.
Gone == /\ \A p \in ready : p \in listed \/ p \in doomed
        /\ \A t \in Thread : pc[t] = "give" => popped[t] \in listed \/ popped[t] \in doomed

\* A process is waiting in one place: one entry of one queue, or one hand.
OnePlace ==
  /\ \A r \in Resource : IsInjective(queue[r])
  /\ \A r, s \in Resource : r # s => ToSet(queue[r]) \cap ToSet(queue[s]) = {}
  /\ \A t \in Thread : InHand(t) => \A r \in Resource : popped[t] \notin ToSet(queue[r])
  /\ InHand("stp") /\ InHand("console") => popped["stp"] # popped["console"]

\* A ready process waits for nothing, and the planner is done with it.
ReadyFree ==
  \A p \in ready : ~Waiting(p) /\ (who["stp"] = p => pc["stp"] \in {"block", "mark"})

\* The process the planner works for waits for nothing, and the console works
\* for another.
WorkFree ==
  /\ pc["stp"] \in Working => ~Waiting(who["stp"]) /\ who["stp"] \notin doomed
  /\ Killing => who["console"] \in doomed

\* Outside an exit, the process the planner works for is there.
Present ==
  /\ pc["stp"] \in {"run", "cpu", "grant", "enqueue"} => who["stp"] \in listed
  /\ pc["stp"] \in Releasers /\ after["stp"] = "run" => who["stp"] \in listed

\* An exit releases no more units than its process holds.
Exiting(t) == pc[t] = "loop" \/ (pc[t] \in Releasers /\ after[t] = "loop")
Dropping(t, r) == IF pc[t] \in {"drop", "dropWake"} /\ res[t] = r THEN 1 ELSE 0
LoopHolds ==
  \A t \in Thread :
    /\ pc[t] = "loop" => after[t] = "loop"
    /\ Exiting(t) /\ who[t] \in listed =>
         \A r \in Resource : todo[t][r] + Dropping(t, r) <= held[who[t]][r]

Kept == Gone /\ OnePlace /\ ReadyFree /\ WorkFree /\ Present /\ LoopHolds
Custody == ~crossed => Kept

\* Without forged SIGNALs and crossed kills every unit released is held, nothing
\* is refused and every exit is the first.
TidyAt(t) ==
  /\ t = "console" /\ Killing => who[t] \in listed
  /\ Exiting(t) => who[t] \in listed
  /\ pc[t] = "expel" => t = "stp" /\ after[t] = "run"
  /\ pc[t] \in {"drop", "dropWake"} => held[who[t]][res[t]] > 0
Tidy ==
  /\ extra = Nothing
  /\ \A p \in Process : exits[p] = IF p \in listed THEN 0 ELSE 1
  /\ \A t \in Thread : TidyAt(t)
Clean == forged = 0 /\ ~crossed => Tidy

\* Without kills the console does nothing, and whoever is in a queue is blocked,
\* or about to be.
Quiescent == kills = 0 /\ pc["console"] = "prompt" /\ doomed = {} /\ ~crossed
BlockedAt(p, r) ==
  IF who["stp"] = p
  THEN /\ pc["stp"] \in {"block", "mark"} /\ res["stp"] = r
       /\ pc["stp"] = "mark" => status[p] = "BLOCK"
  ELSE status[p] = "BLOCK" /\ blockedBy[p] = r
Queued ==
  /\ \A r \in Resource : \A p \in ToSet(queue[r]) : BlockedAt(p, r)
  /\ pc["stp"] = "wake" => \A r \in Resource : popped["stp"] \notin ToSet(queue[r])
Blocked == kills = 0 => Quiescent /\ Queued

\* Without kills nor forged SIGNALs: a counter of at most two units is above 0
\* with somebody waiting only while the last waiter is being served; from a WAIT
\* that finds no unit to the queue, and from a release that wakes nobody to its
\* end, it is below 0; and somebody or something stands between a waiter and
\* a free unit.
Line(r) ==
  /\ MaxQty[r] <= 2 /\ queue[r] # <<>> =>
       \/ qty[r] <= 0
       \/ Len(queue[r]) = 1 /\ res["stp"] = r /\ pc["stp"] \in {"dropWake", "pop"}
  /\ MaxQty[r] <= 2 /\ res["stp"] = r /\ pc["stp"] = "grant" => queue[r] = <<>>
  /\ res["stp"] = r /\ pc["stp"] \in {"enqueue", "drop"} => qty[r] < 0
  /\ lost = Nothing /\ queue[r] # <<>> =>
       \/ Units(r) > 0 \/ qty[r] < 0
       \/ res["stp"] = r /\ pc["stp"] \in {"dropWake", "pop", "find", "give"}
Lines == \A r \in Resource : Line(r)
InLine == kills = 0 /\ forged = 0 => Lines

------------------------------------------------------------------------------
(* Custody is inductive.                                                    *)

LEMMA Still ==
  ASSUME queue' = queue, popped' = popped, \A t \in Thread : InHand(t)' = InHand(t)
  PROVE  /\ OnePlace => OnePlace'
         /\ \A p : Waiting(p)' <=> Waiting(p)
  BY DEF OnePlace, Waiting, Thread

LEMMA DispatchCustody ==
  ASSUME Typing, Kept, NEW p \in Process, Dispatch(p), ~crossed'
  PROVE  Kept'
<1>1. queue' = queue /\ popped' = popped /\ \A u \in Thread : InHand(u)' = InHand(u)
  BY DEF Dispatch, Goto, countVars, PcOK, Fits, ProcTypes, InHand
<1>2. OnePlace' /\ \A q : Waiting(q)' <=> Waiting(q)
  BY <1>1, Still DEF Kept
<1>3. Gone'
  <2>1. \A u \in Thread : pc'[u] = "give" => pc[u] = "give"
    BY DEF Dispatch, countVars, Goto, Typing, FlowTypes
  <2> QED BY <1>1, <2>1 DEF Dispatch, countVars, Kept, Gone, killVars, Thread
<1>4. ReadyFree'
  BY <1>2, ResourceAssumption DEF Dispatch, countVars, PcOK, Fits, ProcTypes, StpPC,
     ConsolePC, ReleasePC, ResPC, Kept, ReadyFree, WorkFree, Working, killVars, Killing
<1>5. WorkFree'
  <2>1. p \notin doomed /\ ~Waiting(p)'
    BY <1>2 DEF Dispatch, Kept, ReadyFree
  <2>2. who'["stp"] = p /\ pc'["console"] = pc["console"] /\ who'["console"] = who["console"]
    BY DEF Dispatch, Goto, Typing, FlowTypes, Thread
  <2> QED BY <2>1, <2>2 DEF Dispatch, Kept, WorkFree, Killing
<1>6. Present'
  <2>1. p \notin doomed /\ p \in listed /\ listed' = listed
    BY DEF Dispatch, Kept, Gone
  <2>2. who'["stp"] = p /\ pc'["stp"] = "run"
    BY DEF Dispatch, Goto, Typing, FlowTypes, Thread
  <2> QED BY <2>1, <2>2 DEF Present, Releasers, ReleasePC
<1>7. LoopHolds'
  BY DEF Dispatch, Goto, countVars, PcOK, Fits, ProcTypes, StpPC, ConsolePC, ReleasePC,
     ResPC, Kept, WorkFree, Working, LoopHolds, Exiting, Dropping, Releasers, killVars, Killing
<1> QED BY <1>2, <1>3, <1>4, <1>5, <1>6, <1>7 DEF Kept

LEMMA LoopCustody ==
  ASSUME Typing, Kept, Loop
  PROVE  Kept'
<1>0. /\ pc["stp"] = "run" /\ pc \in [Thread -> StpPC \cup ConsolePC]
      /\ pc' = [pc EXCEPT !["stp"] = "cpu"] \/ pc' = [pc EXCEPT !["stp"] = "idle"]
      /\ who'["console"] = who["console"] /\ res'["console"] = res["console"]
      /\ pc'["stp"] = "cpu" => who' = who
  BY DEF Loop, StpDone, Goto, Typing, FlowTypes, Thread
<1>1. queue' = queue /\ popped' = popped /\ \A u \in Thread : InHand(u)' = InHand(u)
  BY <1>0 DEF Loop, InHand
<1>2. OnePlace' /\ \A q : Waiting(q)' <=> Waiting(q)
  BY <1>1, Still DEF Kept
<1>3. Gone'
  <2>1. \A u \in Thread : pc'[u] = "give" => pc[u] = "give"
    BY DEF Loop, StpDone, countVars, procVars, Goto, Typing, FlowTypes
  <2> QED BY <1>1, <2>1 DEF Loop, StpDone, countVars, procVars, Kept, Gone, killVars, Thread
<1>4. ReadyFree'
  BY <1>2, ResourceAssumption DEF Loop, StpDone,
     countVars, procVars, Typing, PcOK, Fits, FlowTypes, ProcTypes, Thread, StpPC, ConsolePC,
     ReleasePC, ResPC, Kept, ReadyFree, WorkFree, Working, killVars, Killing
<1>5. WorkFree'
  BY <1>2 DEF Loop, StpDone, Goto, countVars, procVars, Typing,
     PcOK, Fits, FlowTypes, ProcTypes, Thread, StpPC, ConsolePC, ReleasePC, ResPC,
     Kept, ReadyFree, WorkFree, Working, killVars, Killing
<1>6. Present'
  BY DEF Loop, StpDone, Goto, countVars, procVars, Typing, PcOK,
     Fits, FlowTypes, ProcTypes, StpPC, ConsolePC, ReleasePC, ResPC, Kept, Gone,
     WorkFree, Working, Present, Releasers, LoopHolds, killVars, Killing
<1>7. LoopHolds'
  BY <1>0 DEF Loop, procVars, Thread, Kept, LoopHolds, Exiting, Dropping, Releasers, ReleasePC
<1> QED BY <1>2, <1>3, <1>4, <1>5, <1>6, <1>7 DEF Kept

LEMMA PreemptCustody ==
  ASSUME Typing, Kept, Preempt
  PROVE  Kept'
<1>1. queue' = queue /\ popped' = popped /\ \A u \in Thread : InHand(u)' = InHand(u)
  BY DEF Preempt, Running, Current, MakeReady, StpDone, Goto, countVars, PcOK, Fits,
     ProcTypes, InHand
<1>2. OnePlace' /\ \A q : Waiting(q)' <=> Waiting(q)
  BY <1>1, Still DEF Kept
<1>3. Gone'
  <2>1. \A u \in Thread : pc'[u] = "give" => pc[u] = "give"
    BY DEF Preempt, Running, Current, MakeReady, StpDone, Goto, Typing, FlowTypes
  <2> QED BY <1>1, <2>1 DEF Preempt, Running, Current, MakeReady, StpDone, Kept, Gone, killVars, Present, Thread
<1>4. ReadyFree'
  BY <1>2, ResourceAssumption DEF Preempt, Running, Current, MakeReady, StpDone,
     countVars, Typing, PcOK, Fits, FlowTypes, ProcTypes, Thread, StpPC, ConsolePC,
     ReleasePC, ResPC, Kept, ReadyFree, WorkFree, Working, killVars, Killing
<1>5. WorkFree'
  BY <1>2 DEF Preempt, Running, Current, MakeReady, StpDone, Goto, countVars, Typing,
     PcOK, Fits, FlowTypes, ProcTypes, Thread, StpPC, ConsolePC, ReleasePC, ResPC,
     Kept, ReadyFree, WorkFree, Working, killVars, Killing
<1>6. Present'
  BY DEF Preempt, Running, Current, MakeReady, StpDone, Goto, countVars, Typing, PcOK,
     Fits, FlowTypes, ProcTypes, StpPC, ConsolePC, ReleasePC, ResPC, Kept, Gone,
     WorkFree, Working, Present, Releasers, LoopHolds, killVars, Killing
<1>7. LoopHolds'
  BY DEF Preempt, Running, Current, MakeReady, StpDone, Goto, countVars, PcOK, Fits,
     ProcTypes, StpPC, ConsolePC, ReleasePC, ResPC, Kept, WorkFree, Working, LoopHolds,
     Exiting, Dropping, Releasers, killVars, Killing
<1> QED BY <1>2, <1>3, <1>4, <1>5, <1>6, <1>7 DEF Kept

LEMMA WaitCustody ==
  ASSUME Typing, Kept, NEW r \in Resource, Wait(r)
  PROVE  Kept'
<1>1. queue' = queue /\ popped' = popped /\ \A u \in Thread : InHand(u)' = InHand(u)
  BY DEF Wait, Running, Current, Goto, countVars, procVars, PcOK, Fits, ProcTypes, InHand
<1>2. OnePlace' /\ \A q : Waiting(q)' <=> Waiting(q)
  BY <1>1, Still DEF Kept
<1>3. Gone'
  <2>1. \A u \in Thread : pc'[u] = "give" => pc[u] = "give"
    BY DEF Wait, procVars, Goto, Typing, FlowTypes
  <2> QED BY <1>1, <2>1 DEF Wait, procVars, Kept, Gone, killVars, Thread
<1>4. ReadyFree'
  BY <1>2, ResourceAssumption DEF Wait, Running, Current, countVars, procVars, PcOK, Fits,
     ProcTypes, StpPC, ConsolePC, ReleasePC, ResPC, Kept, ReadyFree, WorkFree, Working, killVars, Killing
<1>5. WorkFree'
  BY <1>2 DEF Wait, Running, Current, Goto, countVars, procVars, PcOK, Fits, ProcTypes,
     StpPC, ConsolePC, ReleasePC, ResPC, Kept, ReadyFree, WorkFree, Working, killVars, Killing
<1>6. Present'
  BY DEF Wait, Running, Current, countVars, procVars, PcOK, Fits, ProcTypes, StpPC,
     ConsolePC, ReleasePC, ResPC, Kept, Gone, WorkFree, Working, Present, Releasers,
     LoopHolds, killVars, Killing
<1>7. LoopHolds'
  BY DEF Wait, Running, Current, Goto, countVars, procVars, PcOK, Fits, ProcTypes, StpPC,
     ConsolePC, ReleasePC, ResPC, Kept, WorkFree, Working, LoopHolds, Exiting,
     Dropping, Releasers, killVars, Killing
<1> QED BY <1>2, <1>3, <1>4, <1>5, <1>6, <1>7 DEF Kept

LEMMA GrantCustody ==
  ASSUME Typing, Kept, Grant
  PROVE  Kept'
<1>1. queue' = queue /\ popped' = popped /\ \A u \in Thread : InHand(u)' = InHand(u)
  BY DEF Grant, Current, Assign, MakeReady, StpDone, Goto, countVars, PcOK, Fits,
     ProcTypes, InHand
<1>2. OnePlace' /\ \A q : Waiting(q)' <=> Waiting(q)
  BY <1>1, Still DEF Kept
<1>3. Gone'
  <2>1. \A u \in Thread : pc'[u] = "give" => pc[u] = "give"
    BY DEF Grant, Current, Assign, MakeReady, StpDone, Goto, Typing, FlowTypes
  <2> QED BY <1>1, <2>1 DEF Grant, Current, Assign, MakeReady, StpDone, Kept, Gone, killVars, Present, Thread
<1>4. ReadyFree'
  BY <1>2, ResourceAssumption DEF Grant, Current, Assign, MakeReady, StpDone, countVars,
     Typing, PcOK, Fits, FlowTypes, ProcTypes, Thread, StpPC, ConsolePC, ReleasePC, ResPC,
     Kept, ReadyFree, WorkFree, Working, killVars, Killing
<1>5. WorkFree'
  BY <1>2 DEF Grant, Current, Assign, MakeReady, StpDone, Goto, countVars, Typing, PcOK,
     Fits, FlowTypes, ProcTypes, Thread, StpPC, ConsolePC, ReleasePC, ResPC, Kept,
     ReadyFree, WorkFree, Working, killVars, Killing
<1>6. Present'
  BY DEF Grant, Current, Assign, MakeReady, StpDone, Goto, countVars, Typing, PcOK, Fits,
     FlowTypes, ProcTypes, StpPC, ConsolePC, ReleasePC, ResPC, Kept, Gone, WorkFree,
     Working, Present, Releasers, LoopHolds, killVars, Killing
<1>7. LoopHolds'
  BY DEF Grant, Current, Assign, MakeReady, StpDone, Goto, countVars, PcOK, Fits,
     ProcTypes, Thread, StpPC, ConsolePC, ReleasePC, ResPC, Kept, WorkFree, Working,
     LoopHolds, Exiting, Dropping, Releasers, killVars, Killing
<1> QED BY <1>2, <1>3, <1>4, <1>5, <1>6, <1>7 DEF Kept

LEMMA BlockCustody ==
  ASSUME Typing, Kept, Block
  PROVE  Kept'
<1>1. queue' = queue /\ popped' = popped /\ \A u \in Thread : InHand(u)' = InHand(u)
  BY DEF Block, Current, Goto, countVars, PcOK, Fits, ProcTypes, InHand
<1>2. OnePlace' /\ \A q : Waiting(q)' <=> Waiting(q)
  BY <1>1, Still DEF Kept
<1>3. Gone'
  <2>1. \A u \in Thread : pc'[u] = "give" => pc[u] = "give"
    BY DEF Block, Goto, Typing, FlowTypes
  <2> QED BY <1>1, <2>1 DEF Block, Kept, Gone, killVars, Thread
<1>4. ReadyFree'
  BY <1>2, ResourceAssumption DEF Block, Current, Goto, countVars, PcOK, Fits, ProcTypes,
     StpPC, ConsolePC, ReleasePC, ResPC, Kept, ReadyFree, WorkFree, Working, killVars, Killing
<1>5. WorkFree'
  BY <1>2 DEF Block, Current, Goto, countVars, PcOK, Fits, ProcTypes, StpPC, ConsolePC,
     ReleasePC, ResPC, Kept, ReadyFree, WorkFree, Working, killVars, Killing
<1>6. Present'
  BY DEF Block, Current, Goto, countVars, PcOK, Fits, ProcTypes, StpPC, ConsolePC,
     ReleasePC, ResPC, Kept, Gone, WorkFree, Working, Present, Releasers, LoopHolds, killVars, Killing
<1>7. LoopHolds'
  BY DEF Block, Current, Goto, countVars, PcOK, Fits, ProcTypes, StpPC, ConsolePC,
     ReleasePC, ResPC, Kept, WorkFree, Working, LoopHolds, Exiting, Dropping, Releasers, killVars, Killing
<1> QED BY <1>2, <1>3, <1>4, <1>5, <1>6, <1>7 DEF Kept

LEMMA MarkCustody ==
  ASSUME Typing, Kept, Mark
  PROVE  Kept'
<1>1. queue' = queue /\ popped' = popped /\ \A u \in Thread : InHand(u)' = InHand(u)
  BY DEF Mark, Current, StpDone, Goto, countVars, PcOK, Fits, ProcTypes, InHand
<1>2. OnePlace' /\ \A q : Waiting(q)' <=> Waiting(q)
  BY <1>1, Still DEF Kept
<1>3. Gone'
  <2>1. \A u \in Thread : pc'[u] = "give" => pc[u] = "give"
    BY DEF Mark, StpDone, Goto, Typing, FlowTypes
  <2> QED BY <1>1, <2>1 DEF Mark, StpDone, Kept, Gone, killVars, Thread
<1>4. ReadyFree'
  BY <1>2, ResourceAssumption DEF Mark, Current, StpDone, Goto, countVars, Typing, PcOK,
     Fits, FlowTypes, ProcTypes, StpPC, ConsolePC, ReleasePC, ResPC, Kept, ReadyFree,
     WorkFree, Working, killVars, Killing
<1>5. WorkFree'
  BY <1>2 DEF Mark, Current, StpDone, Goto, countVars, PcOK, Fits, ProcTypes, StpPC,
     ConsolePC, ReleasePC, ResPC, Kept, ReadyFree, WorkFree, Working, killVars, Killing
<1>6. Present'
  BY DEF Mark, Current, StpDone, Goto, countVars, PcOK, Fits, ProcTypes, StpPC, ConsolePC,
     ReleasePC, ResPC, Kept, Gone, WorkFree, Working, Present, Releasers, LoopHolds, killVars, Killing
<1>7. LoopHolds'
  BY DEF Mark, Current, StpDone, Goto, countVars, PcOK, Fits, ProcTypes, StpPC, ConsolePC,
     ReleasePC, ResPC, Kept, WorkFree, Working, LoopHolds, Exiting, Dropping, Releasers, killVars, Killing
<1> QED BY <1>2, <1>3, <1>4, <1>5, <1>6, <1>7 DEF Kept

LEMMA BadNameCustody ==
  ASSUME Typing, Kept, BadName
  PROVE  Kept'
<1>1. queue' = queue /\ popped' = popped /\ \A u \in Thread : InHand(u)' = InHand(u)
  BY DEF BadName, Running, Goto, countVars, procVars, PcOK, Fits, ProcTypes, InHand
<1>2. OnePlace' /\ \A q : Waiting(q)' <=> Waiting(q)
  BY <1>1, Still DEF Kept
<1>3. Gone'
  <2>1. \A u \in Thread : pc'[u] = "give" => pc[u] = "give"
    BY DEF BadName, procVars, Goto, Typing, FlowTypes
  <2> QED BY <1>1, <2>1 DEF BadName, procVars, Kept, Gone, killVars, Thread
<1>4. ReadyFree'
  BY <1>2, ResourceAssumption DEF BadName, Running, countVars, procVars, PcOK, Fits,
     ProcTypes, StpPC, ConsolePC, ReleasePC, ResPC, Kept, ReadyFree, WorkFree, Working, killVars, Killing
<1>5. WorkFree'
  BY <1>2 DEF BadName, Running, Goto, countVars, procVars, PcOK, Fits, ProcTypes, StpPC,
     ConsolePC, ReleasePC, ResPC, Kept, ReadyFree, WorkFree, Working, killVars, Killing
<1>6. Present'
  BY DEF BadName, Running, countVars, procVars, PcOK, Fits, ProcTypes, StpPC, ConsolePC,
     ReleasePC, ResPC, Kept, Gone, WorkFree, Working, Present, Releasers, LoopHolds, killVars, Killing
<1>7. LoopHolds'
  BY DEF BadName, Running, Goto, countVars, procVars, Typing, PcOK, Fits, FlowTypes,
     ProcTypes, StpPC, ConsolePC, ReleasePC, ResPC, Kept, WorkFree, Working, LoopHolds,
     Exiting, Dropping, Releasers, killVars, Killing
<1> QED BY <1>2, <1>3, <1>4, <1>5, <1>6, <1>7 DEF Kept

LEMMA ExitCustody ==
  ASSUME Typing, Kept, Exit
  PROVE  Kept'
<1>1. queue' = queue /\ popped' = popped /\ \A u \in Thread : InHand(u)' = InHand(u)
  BY DEF Exit, Running, Current, StartExit, Goto, countVars, procVars, PcOK, Fits,
     ProcTypes, InHand
<1>2. OnePlace' /\ \A q : Waiting(q)' <=> Waiting(q)
  BY <1>1, Still DEF Kept
<1>3. Gone'
  <2>1. \A u \in Thread : pc'[u] = "give" => pc[u] = "give"
    BY DEF Exit, StartExit, procVars, Goto, Typing, FlowTypes
  <2> QED BY <1>1, <2>1 DEF Exit, StartExit, procVars, Kept, Gone, killVars, Thread
<1>4. ReadyFree'
  BY <1>2, ResourceAssumption DEF Exit, Running, Current, StartExit, countVars, procVars,
     PcOK, Fits, ProcTypes, StpPC, ConsolePC, ReleasePC, ResPC, Kept, ReadyFree,
     WorkFree, Working, killVars, Killing
<1>5. WorkFree'
  BY <1>2 DEF Exit, Running, Current, StartExit, Goto, countVars, procVars, PcOK, Fits,
     ProcTypes, StpPC, ConsolePC, ReleasePC, ResPC, Kept, ReadyFree, WorkFree, Working, killVars, Killing
<1>6. Present'
  BY DEF Exit, Running, Current, StartExit, countVars, procVars, PcOK, Fits, ProcTypes,
     StpPC, ConsolePC, ReleasePC, ResPC, Kept, Gone, WorkFree, Working, Present,
     Releasers, LoopHolds, killVars, Killing
<1>7. LoopHolds'
  BY DEF Exit, Running, Current, StartExit, Goto, countVars, procVars, Typing, PcOK, Fits,
     FlowTypes, ProcTypes, StpPC, ConsolePC, ReleasePC, ResPC, Kept, WorkFree, Working,
     LoopHolds, Exiting, Dropping, Releasers, killVars, Killing
<1> QED BY <1>2, <1>3, <1>4, <1>5, <1>6, <1>7 DEF Kept

LEMMA KillFindCustody ==
  ASSUME Typing, Kept, NEW p \in Process, KillFind(p)
  PROVE  Kept'
<1>1. queue' = queue /\ popped' = popped /\ \A u \in Thread : InHand(u)' = InHand(u)
  BY DEF KillFind, Alive, Goto, countVars, procVars, Typing, PcOK, Fits, ProcTypes, InHand
<1>2. OnePlace' /\ \A q : Waiting(q)' <=> Waiting(q)
  BY <1>1, Still DEF Kept
<1>3. Gone'
  <2>1. \A u \in Thread : pc'[u] = "give" => pc[u] = "give"
    BY DEF KillFind, procVars, Goto, Typing, FlowTypes
  <2> QED BY <1>1, <2>1 DEF KillFind, procVars, Kept, Gone, killVars, Thread
<1>4. ReadyFree'
  BY <1>2, ResourceAssumption DEF KillFind, Alive, Goto, countVars, procVars, Typing, PcOK,
     Fits, ProcTypes, StpPC, ConsolePC, ReleasePC, ResPC, Kept, ReadyFree, Killing, WorkFree,
     Working, killVars
<1>5. WorkFree'
  BY <1>2 DEF KillFind, Alive, Goto, countVars, procVars, Typing, PcOK, Fits,
     FlowTypes, ProcTypes, StpPC, ConsolePC, ReleasePC, ResPC, Kept, ReadyFree,
     Killing, WorkFree, Working, killVars
<1>6. Present'
  BY DEF KillFind, Alive, Goto, countVars, procVars, Typing, PcOK, Fits, ProcTypes, StpPC,
     ConsolePC, ReleasePC, ResPC, Kept, Gone, WorkFree, Working, Present, Releasers,
     LoopHolds, killVars, Killing
<1>7. LoopHolds'
  BY DEF KillFind, Alive, Goto, countVars, procVars, Typing, PcOK, Fits, FlowTypes,
     ProcTypes, StpPC, ConsolePC, ReleasePC, ResPC, Kept, Killing, WorkFree, Working, LoopHolds,
     Exiting, Dropping, Releasers, killVars
<1> QED BY <1>2, <1>3, <1>4, <1>5, <1>6, <1>7 DEF Kept

LEMMA KillJudgeCustody ==
  ASSUME Typing, Kept, KillJudge, ~crossed'
  PROVE  Kept'
<1>0. /\ pc["console"] = "found" /\ pc \in [Thread -> StpPC \cup ConsolePC]
      /\ \/ /\ pc' = [pc EXCEPT !["console"] = "prompt"] /\ doomed' = doomed
            /\ who' = [who EXCEPT !["console"] = NoProcess]
         \/ /\ pc' = [pc EXCEPT !["console"] = "judged"] /\ who' = who
            /\ doomed' = doomed \cup {who["console"]}
            /\ who["stp"] = who["console"] => pc["stp"] = "mark"
  BY DEF KillJudge, Goto, Typing, FlowTypes, RestTypes
<1>1. queue' = queue /\ popped' = popped /\ \A u \in Thread : InHand(u)' = InHand(u)
  BY <1>0 DEF KillJudge, InHand
<1>2. OnePlace' /\ \A q : Waiting(q)' <=> Waiting(q)
  BY <1>1, Still DEF Kept
<1>3. Gone'
  BY <1>0 DEF KillJudge, procVars, Kept, Gone
<1>4. ReadyFree'
  <2>1. who'["stp"] = who["stp"] /\ pc'["stp"] = pc["stp"] /\ ready' = ready
    BY <1>0 DEF KillJudge, procVars, Typing, FlowTypes, Thread
  <2> QED BY <1>2, <2>1 DEF Kept, ReadyFree
<1>5. WorkFree'
  <2>1. who'["stp"] = who["stp"] /\ pc'["stp"] = pc["stp"]
    BY <1>0 DEF Typing, FlowTypes, Thread
  <2>2. pc["stp"] \in Working => who["stp"] \notin doomed'
    BY <1>0 DEF Kept, WorkFree, Working, ReleasePC
  <2>3. Killing' => who'["console"] \in doomed'
    BY <1>0 DEF Typing, FlowTypes, Thread, Killing
  <2> QED BY <1>2, <2>1, <2>2, <2>3 DEF Kept, WorkFree
<1>6. Present'
  <2>1. who'["stp"] = who["stp"] /\ pc'["stp"] = pc["stp"]
    BY <1>0 DEF Typing, FlowTypes, Thread
  <2> QED BY <2>1 DEF KillJudge, procVars, Kept, Present
<1>7. LoopHolds'
  BY DEF KillJudge, Alive, Goto, countVars, procVars, Typing, PcOK, Fits, FlowTypes,
     ProcTypes, StpPC, ConsolePC, ReleasePC, ResPC, Kept, WorkFree, Working, LoopHolds,
     Exiting, Dropping, Releasers, killVars, Killing
<1> QED BY <1>2, <1>3, <1>4, <1>5, <1>6, <1>7 DEF Kept

LEMMA KillStartCustody ==
  ASSUME Typing, Kept, KillStart
  PROVE  Kept'
<1>1. queue' = queue /\ popped' = popped /\ \A u \in Thread : InHand(u)' = InHand(u)
  BY DEF KillStart, StartExit, Goto, countVars, procVars, Typing, PcOK, Fits, ProcTypes, InHand
<1>2. OnePlace' /\ \A q : Waiting(q)' <=> Waiting(q)
  BY <1>1, Still DEF Kept
<1>3. Gone'
  <2>1. \A u \in Thread : pc'[u] = "give" => pc[u] = "give"
    BY DEF KillStart, StartExit, procVars, Goto, Typing, FlowTypes
  <2> QED BY <1>1, <2>1 DEF KillStart, StartExit, procVars, Kept, Gone, killVars, Thread
<1>4. ReadyFree'
  BY <1>2, ResourceAssumption DEF KillStart, StartExit, Goto, countVars, procVars, Typing, PcOK,
     Fits, ProcTypes, StpPC, ConsolePC, ReleasePC, ResPC, Kept, ReadyFree, Killing, WorkFree,
     Working, killVars
<1>5. WorkFree'
  BY <1>2 DEF KillStart, StartExit, Goto, countVars, procVars, Typing, PcOK, Fits,
     FlowTypes, ProcTypes, StpPC, ConsolePC, ReleasePC, ResPC, Kept, ReadyFree,
     Killing, WorkFree, Working, killVars
<1>6. Present'
  BY DEF KillStart, StartExit, Goto, countVars, procVars, Typing, PcOK, Fits, ProcTypes, StpPC,
     ConsolePC, ReleasePC, ResPC, Kept, Gone, WorkFree, Working, Present, Releasers,
     LoopHolds, killVars, Killing
<1>7. LoopHolds'
  BY DEF KillStart, StartExit, Goto, countVars, procVars, Typing, PcOK, Fits, FlowTypes,
     ProcTypes, StpPC, ConsolePC, ReleasePC, ResPC, Kept, WorkFree, Working, LoopHolds,
     Exiting, Dropping, Releasers, killVars, Killing
<1> QED BY <1>2, <1>3, <1>4, <1>5, <1>6, <1>7 DEF Kept

LEMMA DropCustody ==
  ASSUME Typing, Kept, NEW t \in Thread, Drop(t)
  PROVE  Kept'
<1>0. /\ pc[t] \in {"drop", "dropWake"} /\ pc \in [Thread -> StpPC \cup ConsolePC]
      /\ pc' = [pc EXCEPT ![t] = "pop"] \/ pc' = [pc EXCEPT ![t] = after[t]]
      /\ after[t] \in {"run", "loop"}
  BY DEF Drop, Goto, Typing, FlowTypes
<1>1. queue' = queue /\ popped' = popped /\ \A u \in Thread : InHand(u)' = InHand(u)
  BY <1>0 DEF Drop, InHand
<1>2. OnePlace' /\ \A q : Waiting(q)' <=> Waiting(q)
  BY <1>1, Still DEF Kept
<1>3. Gone'
  <2>1. \A u \in Thread : pc'[u] = "give" => pc[u] = "give"
    BY DEF Drop, Goto, Typing, FlowTypes
  <2> QED BY <1>1, <2>1 DEF Drop, Kept, Gone, killVars, Thread
<1>4. ReadyFree'
  BY <1>2, ResourceAssumption DEF Drop, Goto, countVars, PcOK, Fits, ProcTypes, StpPC,
     ConsolePC, ReleasePC, ResPC, Kept, ReadyFree, WorkFree, Working, killVars, Killing
<1>5. WorkFree'
  BY <1>2 DEF Drop, Goto, countVars, PcOK, Fits, ProcTypes, StpPC, ConsolePC, ReleasePC,
     ResPC, Kept, ReadyFree, WorkFree, Working, killVars, Killing
<1>6. Present'
  BY DEF Drop, Goto, countVars, Typing, PcOK, Fits, FlowTypes, ProcTypes, StpPC,
     ConsolePC, ReleasePC, ResPC, Kept, Gone, WorkFree, Working, Present, Releasers,
     LoopHolds, killVars, Killing
<1>7. LoopHolds'
  <2>1. held \in [Process -> [Resource -> Nat]] /\ todo \in [Thread -> [Resource -> Nat]]
    BY DEF Typing, ProcTypes, FlowTypes
  <2>2. \A u \in Thread : pc'[u] = "loop" => after[u] = "loop"
    BY <1>0 DEF Kept, LoopHolds, Releasers, ReleasePC
  <2>3. ASSUME NEW u \in Thread, Exiting(u)', who'[u] \in listed', NEW s \in Resource
        PROVE  todo'[u][s] + Dropping(u, s)' <= held'[who'[u]][s]
    <3>0. UNCHANGED <<who, res, todo, listed, after>>
      BY DEF Drop
    <3>1. Exiting(u) /\ todo[u][s] + Dropping(u, s) <= held[who[u]][s]
      BY <1>0, <2>3, <3>0 DEF Exiting, Releasers, ReleasePC, Kept, LoopHolds
    <3>2. who[u] \in Process /\ who[t] \in Process /\ res[t] \in Resource
      BY <1>0, <3>1 DEF Typing, PcOK, Fits, Exiting, Releasers, ReleasePC, ResPC
    <3>3. CASE u = t
      <4>1. Dropping(u, s)' = 0
        BY <1>0, <3>3 DEF Dropping
      <4>2. held'[who[u]][s] >= held[who[u]][s] - Dropping(u, s)
        BY <1>0, <2>1, <3>2, <3>3 DEF Drop, Dropping
      <4>3. held'[who[u]][s] \in Nat
        BY <3>2, DropTyping DEF Typing, ProcTypes
      <4> QED BY <2>1, <3>0, <3>1, <3>2, <4>1, <4>2, <4>3 DEF Dropping
    <3>4. CASE u # t
      <4>1. Dropping(u, s)' = Dropping(u, s)
        BY <1>0, <3>0, <3>4 DEF Dropping
      <4>2. who[u] # who[t]
        BY <1>0, <3>1, <3>4 DEF Kept, WorkFree, Working, Killing, Thread, Exiting,
           Releasers, ReleasePC
      <4>3. held'[who[u]] = held[who[u]]
        BY <2>1, <3>2, <4>2 DEF Drop
      <4> QED BY <3>0, <3>1, <4>1, <4>3
    <3> QED BY <3>3, <3>4
  <2> QED BY <2>2, <2>3 DEF LoopHolds, Drop
<1> QED BY <1>2, <1>3, <1>4, <1>5, <1>6, <1>7 DEF Kept

LEMMA SignalCustody ==
  ASSUME Typing, Kept, NEW r \in Resource, Signal(r)
  PROVE  Kept'
<1>1. queue' = queue /\ popped' = popped /\ \A u \in Thread : InHand(u)' = InHand(u)
  BY DEF Signal, Running, Current, Release, Goto, procVars, PcOK, Fits, ProcTypes, InHand
<1>2. OnePlace' /\ \A q : Waiting(q)' <=> Waiting(q)
  BY <1>1, Still DEF Kept
<1>3. Gone'
  <2>1. \A u \in Thread : pc'[u] = "give" => pc[u] = "give"
    BY DEF Signal, Release, procVars, Goto, Typing, FlowTypes
  <2> QED BY <1>1, <2>1 DEF Signal, Release, procVars, Kept, Gone, killVars, Thread
<1>4. ReadyFree'
  BY <1>2, ResourceAssumption DEF Signal, Running, Current, Release, procVars, PcOK, Fits,
     ProcTypes, StpPC, ConsolePC, ReleasePC, ResPC, Kept, ReadyFree, WorkFree, Working, killVars, Killing
<1>5. WorkFree'
  BY <1>2 DEF Signal, Running, Current, Release, Goto, procVars, PcOK, Fits, ProcTypes,
     StpPC, ConsolePC, ReleasePC, ResPC, Kept, ReadyFree, WorkFree, Working, killVars, Killing
<1>6. Present'
  BY DEF Signal, Running, Current, Release, procVars, PcOK, Fits, ProcTypes, StpPC,
     ConsolePC, ReleasePC, ResPC, Kept, Gone, WorkFree, Working, Present, Releasers,
     LoopHolds, killVars, Killing
<1>7. LoopHolds'
  BY DEF Signal, Running, Current, Release, Goto, procVars, Typing, PcOK, Fits, FlowTypes,
     ProcTypes, StpPC, ConsolePC, ReleasePC, ResPC, Kept, WorkFree, Working, LoopHolds,
     Exiting, Dropping, Releasers, killVars, Killing
<1> QED BY <1>2, <1>3, <1>4, <1>5, <1>6, <1>7 DEF Kept

LEMMA ReleaseNextCustody ==
  ASSUME Typing, Kept, NEW t \in Thread, ReleaseNext(t)
  PROVE  Kept'
<1>1. queue' = queue /\ popped' = popped /\ \A u \in Thread : InHand(u)' = InHand(u)
  BY DEF ReleaseNext, Release, Goto, procVars, PcOK, Fits, ProcTypes, InHand
<1>2. OnePlace' /\ \A q : Waiting(q)' <=> Waiting(q)
  BY <1>1, Still DEF Kept
<1>3. Gone'
  <2>1. \A u \in Thread : pc'[u] = "give" => pc[u] = "give"
    BY DEF ReleaseNext, Release, procVars, Goto, Typing, FlowTypes
  <2> QED BY <1>1, <2>1 DEF ReleaseNext, Release, procVars, Kept, Gone, killVars, Thread
<1>4. ReadyFree'
  BY <1>2, ResourceAssumption DEF ReleaseNext, Release, Goto, procVars, PcOK, Fits,
     ProcTypes, StpPC, ConsolePC, ReleasePC, ResPC, Kept, ReadyFree, WorkFree, Working, killVars, Killing
<1>5. WorkFree'
  BY <1>2 DEF ReleaseNext, Release, Goto, procVars, PcOK, Fits, ProcTypes, StpPC,
     ConsolePC, ReleasePC, ResPC, Kept, ReadyFree, WorkFree, Working, killVars, Killing
<1>6. Present'
  BY DEF ReleaseNext, Release, Goto, procVars, PcOK, Fits, ProcTypes, StpPC, ConsolePC,
     ReleasePC, ResPC, Kept, Gone, WorkFree, Working, Present, Releasers, LoopHolds, killVars, Killing
<1>7. LoopHolds'
  BY DEF ReleaseNext, Release, Goto, procVars, Typing, PcOK, Fits, FlowTypes, ProcTypes,
     StpPC, ConsolePC, ReleasePC, ResPC, Kept, WorkFree, Working, LoopHolds, Exiting,
     Dropping, Releasers, killVars, Killing
<1> QED BY <1>2, <1>3, <1>4, <1>5, <1>6, <1>7 DEF Kept

LEMMA ExpelCustody ==
  ASSUME Typing, Kept, NEW t \in Thread, Expel(t)
  PROVE  Kept'
<1>1. queue' = queue /\ popped' = popped /\ \A u \in Thread : InHand(u)' = InHand(u)
  BY DEF Expel, Leave, StpDone, Goto, Typing, PcOK, Fits, FlowTypes, ProcTypes, Thread,
     InHand
<1>2. OnePlace' /\ \A q : Waiting(q)' <=> Waiting(q)
  BY <1>1, Still DEF Kept
<1>3. Gone'
  <2>1. \A u \in Thread : pc'[u] = "give" => pc[u] = "give"
    BY DEF Expel, Leave, StpDone, Goto, Typing, FlowTypes
  <2>2. ASSUME NEW u \in Thread, pc[u] = "give" PROVE popped[u] # who["stp"] \/ t = "console"
    <3>1. t = "stp" => pc["stp"] \in Working
      BY DEF Expel, Working
    <3>2. Waiting(popped[u])
      BY <2>2 DEF Waiting, InHand
    <3> QED BY <3>1, <3>2 DEF Kept, WorkFree, Thread
  <2>3. t = "console" => who["console"] \in doomed
    BY DEF Expel, Kept, WorkFree, Killing
  <2> QED BY <1>1, <2>1, <2>2, <2>3 DEF Expel, Leave, StpDone, Kept, Gone, killVars, Thread
<1>4. ReadyFree'
  BY <1>2, ResourceAssumption DEF Expel, Leave, StpDone, Goto, Typing, PcOK, Fits,
     FlowTypes, ProcTypes, Thread, StpPC, ConsolePC, ReleasePC, ResPC, Kept, ReadyFree,
     WorkFree, Working, killVars, Killing
<1>5. WorkFree'
  <2>1. /\ pc'["stp"] \in Working => pc["stp"] \in Working /\ who'["stp"] = who["stp"]
        /\ Killing' => Killing /\ who'["console"] = who["console"]
    <3>1. /\ pc[t] = "expel" /\ (t = "console" => after[t] = "loop")
          /\ pc \in [Thread -> StpPC \cup ConsolePC] /\ who \in [Thread -> Process \cup {NoProcess}]
      BY DEF Expel, Typing, FlowTypes, PcOK, Fits
    <3>2. CASE after[t] = "run"
      <4>1. t = "stp" /\ pc' = [pc EXCEPT !["stp"] = "idle"] /\ who' = [who EXCEPT !["stp"] = NoProcess]
        BY <3>1, <3>2 DEF Expel, StpDone, Goto, Thread
      <4> QED BY <3>1, <4>1 DEF Thread, Working, Killing, ReleasePC
    <3>3. CASE after[t] # "run"
      <4>1. pc' = [pc EXCEPT ![t] = "loop"] /\ who' = who
        BY <3>3 DEF Expel, Goto
      <4> QED BY <3>1, <4>1 DEF Thread, Working, Killing
    <3> QED BY <3>2, <3>3
  <2> QED BY <1>2, <2>1 DEF Expel, killVars, Kept, WorkFree
<1>6. Present'
  BY DEF Expel, Leave, StpDone, Goto, Typing, PcOK, Fits, FlowTypes, ProcTypes, Thread,
     StpPC, ConsolePC, ReleasePC, ResPC, Kept, Gone, WorkFree, Working, Present,
     Releasers, LoopHolds, killVars, Killing
<1>7. LoopHolds'
  BY DEF Expel, Leave, StpDone, Goto, Typing, PcOK, Fits, FlowTypes, ProcTypes, StpPC,
     ConsolePC, ReleasePC, ResPC, Kept, WorkFree, Working, LoopHolds, Exiting,
     Dropping, Releasers, killVars, Killing
<1> QED BY <1>2, <1>3, <1>4, <1>5, <1>6, <1>7 DEF Kept

LEMMA FinishCustody ==
  ASSUME Typing, Kept, NEW t \in Thread, Finish(t)
  PROVE  Kept'
<1>1. queue' = queue /\ popped' = popped /\ \A u \in Thread : InHand(u)' = InHand(u)
  BY DEF Finish, Leave, StpDone, Goto, PcOK, Fits, ProcTypes, InHand
<1>2. OnePlace' /\ \A q : Waiting(q)' <=> Waiting(q)
  BY <1>1, Still DEF Kept
<1>3. Gone'
  <2>1. \A u \in Thread : pc'[u] = "give" => pc[u] = "give"
    BY DEF Finish, Leave, Goto, Typing, FlowTypes
  <2>2. ASSUME NEW u \in Thread, pc[u] = "give" PROVE popped[u] # who["stp"] \/ t = "console"
    <3>1. t = "stp" => pc["stp"] \in Working
      BY DEF Finish, Working
    <3>2. Waiting(popped[u])
      BY <2>2 DEF Waiting, InHand
    <3> QED BY <3>1, <3>2 DEF Kept, WorkFree, Thread
  <2>3. t = "console" => who["console"] \in doomed
    BY DEF Finish, Kept, WorkFree, Killing
  <2> QED BY <1>1, <2>1, <2>2, <2>3 DEF Finish, Leave, Kept, Gone, killVars, Thread
<1>4. ReadyFree'
  BY <1>2, ResourceAssumption DEF Finish, Leave, StpDone, Goto, Typing, PcOK, Fits,
     ProcTypes, StpPC, ConsolePC, ReleasePC, ResPC, Kept, ReadyFree, WorkFree, Working, killVars, Killing
<1>5. WorkFree'
  BY <1>2 DEF Finish, Leave, StpDone, Goto, Typing, PcOK, Fits, FlowTypes, ProcTypes,
     StpPC, ConsolePC, ReleasePC, ResPC, Kept, ReadyFree, WorkFree, Working, killVars, Killing
<1>6. Present'
  BY DEF Finish, Leave, StpDone, Goto, PcOK, Fits, ProcTypes, Thread, StpPC, ConsolePC,
     ReleasePC, ResPC, Kept, Gone, WorkFree, Working, Present, Releasers, LoopHolds, killVars, Killing
<1>7. LoopHolds'
  BY DEF Finish, Leave, StpDone, Goto, Typing, PcOK, Fits, FlowTypes, ProcTypes, StpPC,
     ConsolePC, ReleasePC, ResPC, Kept, WorkFree, Working, LoopHolds, Exiting,
     Dropping, Releasers, killVars, Killing
<1> QED BY <1>2, <1>3, <1>4, <1>5, <1>6, <1>7 DEF Kept

LEMMA EnqueueCustody ==
  ASSUME Typing, Kept, Enqueue
  PROVE  Kept'
<1> DEFINE p == who["stp"]
           r == res["stp"]
<1>1. /\ p \in Process /\ r \in Resource /\ pc["stp"] = "enqueue"
      /\ p \in listed /\ ~Waiting(p) /\ p \notin ready
      /\ queue \in [Resource -> Seq(Process)]
  BY DEF Enqueue, Typing, RestTypes, PcOK, Fits, ResPC, Thread, Kept, Present,
     WorkFree, ReadyFree, Working, killVars, Killing
<1>2. /\ queue' = [queue EXCEPT ![r] = Append(@, p)]
      /\ ToSet(queue'[r]) = ToSet(queue[r]) \cup {p}
      /\ \A s \in Resource : s # r => queue'[s] = queue[s]
  BY <1>1, AppendAdds DEF Enqueue, Current
<1>3. IsInjective(queue'[r])
  BY <1>1, <1>2, AppendAdds DEF Kept, OnePlace, Waiting
<1>4. popped' = popped /\ \A u \in Thread : InHand(u)' = InHand(u)
  BY DEF Enqueue, Goto, Typing, FlowTypes, Thread, InHand
<1>5. \A q : Waiting(q)' <=> Waiting(q) \/ q = p
  BY <1>1, <1>2, <1>4 DEF Waiting
<1> HIDE DEF p, r
<1>6. OnePlace'
  <2>1. \A s \in Resource : p \notin ToSet(queue[s])
    BY <1>1 DEF Waiting
  <2>2. \A t \in Thread : InHand(t) => popped[t] # p
    BY <1>1 DEF Waiting
  <2>3. \A s \in Resource : IsInjective(queue'[s])
    BY <1>2, <1>3 DEF Kept, OnePlace
  <2>4. \A s, u \in Resource : s # u => ToSet(queue'[s]) \cap ToSet(queue'[u]) = {}
    BY <1>1, <1>2, <2>1 DEF Kept, OnePlace
  <2>5. \A t \in Thread : InHand(t) => \A s \in Resource : popped[t] \notin ToSet(queue'[s])
    BY <1>1, <1>2, <2>2 DEF Kept, OnePlace
  <2> QED BY <1>4, <2>3, <2>4, <2>5 DEF Kept, OnePlace, Thread
<1>7. Gone' /\ Present'
  BY DEF Enqueue, Goto, Typing, FlowTypes, procVars, Kept, Gone, Present, Releasers,
     ReleasePC, killVars
<1>8. ReadyFree' /\ WorkFree'
  <2>1. /\ pc' = [pc EXCEPT !["stp"] = "block"] /\ pc \in [Thread -> StpPC \cup ConsolePC]
        /\ UNCHANGED <<who, ready, doomed>>
    BY DEF Enqueue, Goto, procVars, killVars, Typing, FlowTypes
  <2>2. pc'["stp"] = "block" /\ pc'["console"] = pc["console"] /\ p = who["stp"]
    BY <2>1 DEF Thread, p
  <2>3. ReadyFree'
    BY <1>1, <1>5, <2>1, <2>2 DEF Kept, ReadyFree
  <2>4. WorkFree'
    BY <2>1, <2>2 DEF Kept, WorkFree, Working, ReleasePC, Killing
  <2> QED BY <2>3, <2>4
<1>9. LoopHolds'
  BY DEF Enqueue, Goto, procVars, Kept, LoopHolds, Exiting, Dropping, Releasers,
     ReleasePC
<1> QED BY <1>6, <1>7, <1>8, <1>9 DEF Kept

LEMMA PopCustody ==
  ASSUME Typing, Kept, NEW t \in Thread, Pop(t)
  PROVE  Kept'
<1> DEFINE r == res[t]
           p == Head(queue[r])
<1>1. /\ r \in Resource /\ pc[t] = "pop" /\ queue \in [Resource -> Seq(Process)]
      /\ pc \in [Thread -> StpPC \cup ConsolePC]
      /\ popped \in [Thread -> Process \cup {NoProcess}]
      /\ after[t] \in {"run", "loop"} /\ (t = "console" => after[t] = "loop")
  BY DEF Pop, Typing, RestTypes, FlowTypes, PcOK, Fits, ResPC, ReleasePC
<1>2. Gone' /\ Present'
  BY <1>1 DEF Pop, Goto, procVars, Thread, Kept, Gone, Nothing, Present, Releasers,
     ReleasePC, killVars
<1>3. LoopHolds'
  BY <1>1 DEF Pop, Goto, procVars, Kept, LoopHolds, Exiting, Dropping, Releasers,
     ReleasePC
<1>4. OnePlace' /\ \A q : Waiting(q)' => Waiting(q)
  <2>1. CASE queue[r] = <<>>
    <3>1. queue' = queue /\ popped' = popped /\ \A u \in Thread : InHand(u)' = InHand(u)
      BY <1>1, <2>1 DEF Pop, Goto, InHand
    <3> QED BY <3>1, Still DEF Kept
  <2>2. CASE queue[r] # <<>>
    <3>1. /\ p \in Process /\ p \in ToSet(queue[r]) /\ Tail(queue[r]) \in Seq(Process)
          /\ ToSet(Tail(queue[r])) \subseteq ToSet(queue[r])
          /\ IsInjective(Tail(queue[r])) /\ p \notin ToSet(Tail(queue[r]))
      BY <1>1, <2>2, TailRemoves DEF Kept, OnePlace
    <3>2. /\ queue' = [queue EXCEPT ![r] = Tail(queue[r])]
          /\ popped' = [popped EXCEPT ![t] = p] /\ pc' = [pc EXCEPT ![t] = "find"]
      BY <2>2 DEF Pop, Goto
    <3>3. /\ InHand(t)' /\ popped'[t] = p
          /\ \A u \in Thread : u # t => popped'[u] = popped[u] /\ InHand(u)' = InHand(u)
      BY <1>1, <3>2 DEF InHand
    <3>4. /\ queue'[r] = Tail(queue[r]) /\ \A s \in Resource : s # r => queue'[s] = queue[s]
      BY <1>1, <3>2
    <3> HIDE DEF p, r
    <3>5. \A s \in Resource : ToSet(queue'[s]) \subseteq ToSet(queue[s])
      BY <3>1, <3>4
    <3>6. \A s \in Resource : p \notin ToSet(queue'[s])
      BY <1>1, <3>1, <3>4 DEF Kept, OnePlace
    <3>7. \A u \in Thread : InHand(u) => popped[u] # p
      BY <1>1, <3>1 DEF Kept, OnePlace
    <3>8. \A q : Waiting(q)' => Waiting(q)
      BY <1>1, <3>1, <3>3, <3>5 DEF Waiting
    <3>9. OnePlace'
      <4>1. \A s \in Resource : IsInjective(queue'[s])
        BY <3>1, <3>4 DEF Kept, OnePlace
      <4>2. \A s, u \in Resource : s # u => ToSet(queue'[s]) \cap ToSet(queue'[u]) = {}
        BY <3>5 DEF Kept, OnePlace
      <4>3. \A u \in Thread : InHand(u)' => \A s \in Resource : popped'[u] \notin ToSet(queue'[s])
        BY <3>3, <3>5, <3>6 DEF Kept, OnePlace
      <4>4. InHand("stp")' /\ InHand("console")' => popped'["stp"] # popped'["console"]
        BY <3>3, <3>7 DEF Thread
      <4> QED BY <4>1, <4>2, <4>3, <4>4 DEF OnePlace
    <3> QED BY <3>8, <3>9
  <2> QED BY <2>1, <2>2
<1>5. ReadyFree' /\ WorkFree'
  <2>1. /\ UNCHANGED <<who, ready, doomed>>
        /\ pc' = [pc EXCEPT ![t] = after[t]] \/ pc' = [pc EXCEPT ![t] = "find"]
    BY DEF Pop, Goto, procVars, killVars
  <2>2. /\ pc'["stp"] \in Working <=> pc["stp"] \in Working
        /\ Killing' <=> Killing
        /\ pc'["stp"] \in {"block", "mark"} <=> pc["stp"] \in {"block", "mark"}
    BY <1>1, <2>1 DEF Thread, Working, ReleasePC, Killing
  <2> QED BY <1>4, <2>1, <2>2 DEF Kept, ReadyFree, WorkFree
<1> QED BY <1>2, <1>3, <1>4, <1>5 DEF Kept

LEMMA FindCustody ==
  ASSUME Typing, Kept, NEW t \in Thread, Find(t)
  PROVE  Kept'
<1>1. /\ pc[t] = "find" /\ pc \in [Thread -> StpPC \cup ConsolePC]
      /\ popped \in [Thread -> Process \cup {NoProcess}]
      /\ after[t] \in {"run", "loop"} /\ (t = "console" => after[t] = "loop")
  BY DEF Find, Typing, FlowTypes, PcOK, Fits
<1>2. /\ queue' = queue /\ \A u \in Thread : u # t => popped'[u] = popped[u] /\ pc'[u] = pc[u]
      /\ \/ pc'[t] = "give" /\ popped'[t] = popped[t]
         \/ pc'[t] = after[t]
  BY <1>1 DEF Find, Goto
<1>3. \A u \in Thread : InHand(u)' => InHand(u) /\ popped'[u] = popped[u]
  BY <1>1, <1>2 DEF InHand
<1>4. \A q : Waiting(q)' => Waiting(q)
  BY <1>2, <1>3 DEF Waiting
<1>5. OnePlace'
  BY <1>2, <1>3 DEF Kept, OnePlace, Thread
<1>6. Gone' /\ Present'
  BY <1>1, <1>2 DEF Find, Alive, Goto, procVars, killVars, Thread, Kept, Gone, Present,
     Releasers, ReleasePC
<1>7. LoopHolds'
  BY <1>1, <1>2 DEF Find, procVars, Kept, LoopHolds, Exiting, Dropping, Releasers, ReleasePC
<1>8. ReadyFree' /\ WorkFree'
  BY <1>1, <1>2, <1>4 DEF Find, procVars, killVars, Thread, Kept, ReadyFree, WorkFree,
     Working, Killing, ReleasePC
<1> QED BY <1>5, <1>6, <1>7, <1>8 DEF Kept

LEMMA WakeCustody ==
  ASSUME Typing, Kept, NEW t \in Thread, Wake(t)
  PROVE  Kept'
<1>1. /\ pc[t] = "wake" /\ pc \in [Thread -> StpPC \cup ConsolePC]
      /\ popped \in [Thread -> Process \cup {NoProcess}]
      /\ after[t] \in {"run", "loop"} /\ (t = "console" => after[t] = "loop")
  BY DEF Wake, Typing, FlowTypes, PcOK, Fits
<1>2. /\ queue' = queue /\ \A u \in Thread : u # t => popped'[u] = popped[u] /\ pc'[u] = pc[u]
      /\ pc'[t] = after[t]
  BY <1>1 DEF Wake, Goto
<1>3. \A u \in Thread : InHand(u)' => InHand(u) /\ popped'[u] = popped[u]
  BY <1>1, <1>2 DEF InHand
<1>4. \A q : Waiting(q)' => Waiting(q)
  BY <1>2, <1>3 DEF Waiting
<1>5. OnePlace'
  BY <1>2, <1>3 DEF Kept, OnePlace, Thread
<1>6. Gone' /\ Present'
  BY <1>1, <1>2 DEF Wake, killVars, Thread, Kept, Gone, Present, Releasers, ReleasePC
<1>7. LoopHolds'
  BY <1>1, <1>2 DEF Wake, Kept, LoopHolds, Exiting, Dropping, Releasers, ReleasePC
<1>8. ReadyFree' /\ WorkFree'
  BY <1>1, <1>2, <1>4 DEF Wake, killVars, Thread, Kept, ReadyFree, WorkFree, Working,
     Killing, ReleasePC
<1> QED BY <1>5, <1>6, <1>7, <1>8 DEF Kept

LEMMA GiveCustody ==
  ASSUME Typing, Kept, NEW t \in Thread, Give(t)
  PROVE  Kept'
<1>0. PICK p \in Process, r \in Resource : p = popped[t] /\ r = res[t]
  BY DEF Give, Typing, PcOK, Fits, ResPC, ReleasePC
<1>1. /\ pc[t] = "give" /\ InHand(t) /\ Waiting(p)
      /\ pc \in [Thread -> StpPC \cup ConsolePC]
      /\ popped \in [Thread -> Process \cup {NoProcess}]
      /\ after[t] \in {"run", "loop"} /\ (t = "console" => after[t] = "loop")
  BY <1>0 DEF Give, Typing, FlowTypes, PcOK, Fits, Waiting, InHand
<1>2. /\ queue' = queue /\ ~InHand(t)'
      /\ \A u \in Thread : u # t => popped'[u] = popped[u] /\ InHand(u)' = InHand(u)
  BY <1>1 DEF Give, Goto, InHand
<1>3. OnePlace'
  BY <1>2 DEF Kept, OnePlace, Thread
<1>4. (\A q : Waiting(q)' => Waiting(q)) /\ ~Waiting(p)'
  <2>1. \A s \in Resource : p \notin ToSet(queue[s])
    BY <1>0, <1>1 DEF Kept, OnePlace
  <2>2. \A u \in Thread : u # t /\ InHand(u) => popped[u] # p
    BY <1>0, <1>1 DEF Kept, OnePlace, Thread
  <2> QED BY <1>2, <2>1, <2>2 DEF Waiting
<1>5. who["stp"] = p => pc["stp"] \notin Working
  BY <1>1 DEF Kept, WorkFree, killVars, Killing
<1>6. /\ ready' = ready \cup {p} /\ held' = [held EXCEPT ![p][r] = @ + 1]
      /\ UNCHANGED <<listed, who, res, todo, after, doomed>>
  BY <1>0 DEF Give, Assign, killVars
<1>7. Gone'
  <2>1. p \in listed \/ p \in doomed
    BY <1>0, <1>1 DEF Kept, Gone
  <2>2. \A u \in Thread : pc'[u] = "give" => pc[u] = "give" /\ popped'[u] = popped[u]
    BY <1>1 DEF Give, Goto
  <2> QED BY <1>6, <2>1, <2>2 DEF Kept, Gone
<1>8. Present'
  BY <1>1, <1>6 DEF Give, Goto, Kept, Present, Releasers, ReleasePC
<1>9. LoopHolds'
  <2>1. \A q \in Process : \A s \in Resource : held'[q][s] >= held[q][s]
    BY <1>1, <1>6 DEF Typing, ProcTypes
  <2>2. \A u \in Thread : \A s \in Resource : Dropping(u, s)' = Dropping(u, s)
    BY <1>1, <1>6 DEF Give, Goto, Dropping
  <2>3. \A u \in Thread : Exiting(u)' => Exiting(u) /\ (pc'[u] = "loop" => after[u] = "loop")
    BY <1>1, <1>6 DEF Give, Goto, Exiting, Releasers, ReleasePC, Kept, LoopHolds
  <2>4. \A u \in Thread : Exiting(u) => who[u] \in Process
    BY DEF Typing, PcOK, Fits, Exiting, Releasers, ReleasePC
  <2>5. ASSUME NEW u \in Thread, Exiting(u)', who'[u] \in listed', NEW s \in Resource
        PROVE  todo'[u][s] + Dropping(u, s)' <= held'[who'[u]][s]
    <3>1. todo[u][s] + Dropping(u, s) <= held[who[u]][s]
      BY <1>6, <2>3, <2>5 DEF Kept, LoopHolds
    <3>2. held'[who[u]][s] >= held[who[u]][s]
      BY <2>1, <2>3, <2>4, <2>5
    <3>3. todo[u][s] \in Nat /\ Dropping(u, s) \in Nat /\ held[who[u]][s] \in Nat
      BY <1>1, <2>3, <2>4, <2>5 DEF Typing, FlowTypes, ProcTypes, Dropping
    <3>4. who'[u] = who[u] /\ todo'[u][s] = todo[u][s] /\ Dropping(u, s)' = Dropping(u, s)
      BY <1>6, <2>2
    <3>5. held'[who[u]][s] \in Nat
      BY <2>3, <2>4, <2>5, GiveTyping DEF Typing, ProcTypes
    <3> QED BY <3>1, <3>2, <3>3, <3>4, <3>5
  <2> QED BY <1>6, <2>3, <2>5 DEF LoopHolds, Exiting
<1>10. ReadyFree'
  <2>1. pc'["stp"] = pc["stp"] \/ pc["stp"] = "give"
    BY <1>1 DEF Give, Goto, Thread
  <2>2. who["stp"] = p => pc["stp"] \in {"block", "mark"}
    BY <1>5, ResourceAssumption DEF Typing, PcOK, Fits, StpPC, Thread, Working, ReleasePC
  <2> QED BY <1>4, <1>6, <2>1, <2>2 DEF Kept, ReadyFree
<1>11. WorkFree'
  <2>1. /\ pc'["stp"] \in Working <=> pc["stp"] \in Working
        /\ Killing' <=> Killing
    BY <1>1 DEF Give, Goto, Thread, Working, ReleasePC, Killing
  <2> QED BY <1>4, <1>6, <2>1 DEF Kept, WorkFree
<1> QED BY <1>3, <1>7, <1>8, <1>9, <1>10, <1>11 DEF Kept

\* What has crossed stays crossed; only a pick or a kill can cross.
LEMMA CrossingStays == [Next]_vars /\ ~crossed' => ~crossed
  BY DEF vars, killVars, Next, Releasing, Dispatch, Loop, Preempt, Wait, Grant, Enqueue,
     Block, Mark, Signal, BadName, Exit, KillFind, KillJudge, KillStart, ReleaseNext, Drop,
     Pop, Find, Give, Wake, Expel, Finish

LEMMA NextCustody == Typing /\ Custody /\ [Next]_vars => Custody'
<1> SUFFICES ASSUME Typing, Kept, [Next]_vars, ~crossed' PROVE Kept'
  <2>1. ASSUME [Next]_vars, ~crossed' PROVE ~crossed
    BY <2>1, CrossingStays
  <2> QED BY <2>1 DEF Custody
<1>1. CASE Next
  BY <1>1, DispatchCustody, WaitCustody, PreemptCustody, GrantCustody, EnqueueCustody,
     BlockCustody, MarkCustody, BadNameCustody, ExitCustody, LoopCustody, KillFindCustody,
     KillJudgeCustody, KillStartCustody, SignalCustody, ReleaseNextCustody, DropCustody,
     PopCustody, FindCustody, GiveCustody, WakeCustody, ExpelCustody, FinishCustody
     DEF Next, Releasing
<1>2. CASE UNCHANGED vars
  BY <1>2 DEF vars, countVars, procVars, flowVars, killVars, Kept, Gone, OnePlace,
     InHand, ReadyFree, Waiting, WorkFree, Killing, Present, LoopHolds, Exiting, Dropping
<1> QED BY <1>1, <1>2

LEMMA InitCustody == Init => Custody
<1> SUFFICES ASSUME Init PROVE Kept
  BY DEF Custody
<1>1. /\ pc["stp"] = "idle" /\ pc["console"] = "prompt" /\ who["stp"] = NoProcess
      /\ \A r \in Resource : queue[r] = <<>>
      /\ \A t \in Thread : ~InHand(t) /\ ~Exiting(t)
  BY DEF Init, Thread, InHand, Exiting, Releasers, ReleasePC
<1>2. \A r \in Resource : ToSet(queue[r]) = {} /\ IsInjective(queue[r])
  BY <1>1, EmptySeq DEF ToSet, IsInjective
<1>3. \A p : ~Waiting(p)
  BY <1>1, <1>2 DEF Waiting
<1>4. OnePlace
  BY <1>1, <1>2 DEF OnePlace, Thread
<1>5. Gone /\ ReadyFree /\ WorkFree /\ Present
  BY <1>1, <1>3, ResourceAssumption DEF Init, Gone, ReadyFree, Killing, WorkFree, Working, Present,
     Releasers, ReleasePC, killVars
<1>6. LoopHolds
  BY <1>1 DEF LoopHolds, Exiting
<1> QED BY <1>4, <1>5, <1>6 DEF Kept, Custody

LEMMA AlwaysCustody == Spec => [](Typing /\ Custody)
<1>1. Init => Typing /\ Custody
  BY InitTyping, InitCustody
<1>2. Typing /\ Custody /\ [Next]_vars => (Typing /\ Custody)'
  BY NextTyping, NextCustody
<1> QED BY <1>1, <1>2, PTL DEF Spec

------------------------------------------------------------------------------
(* Counting the units.                                                      *)

\* The units of r the processes of S have under h.
Share(h, r, p) == {p} \X (1..h[p][r])
Shares(h, r, S) == UNION {Share(h, r, p) : p \in S}
Amount(h, r, S) == Cardinality(Shares(h, r, S))
Holdings == [Process -> [Resource -> Nat]]

LEMMA ShareSize ==
  ASSUME NEW h \in Holdings, NEW r \in Resource, NEW p \in Process
  PROVE  IsFiniteSet(Share(h, r, p)) /\ Cardinality(Share(h, r, p)) = h[p][r]
<1>1. PICK n \in Nat : n = h[p][r]
  BY DEF Holdings
<1>2. IsFiniteSet(1..n) /\ Cardinality(1..n) = n
  <2>1. 1 \in Int /\ n \in Int /\ (IF 1 > n THEN 0 ELSE n - 1 + 1) = n
    OBVIOUS
  <2> QED BY <2>1, FS_Interval
<1>3. IsFiniteSet({p}) /\ Cardinality({p}) = 1
  BY FS_Singleton
<1>4. /\ IsFiniteSet({p} \X (1..n))
      /\ Cardinality({p} \X (1..n)) = Cardinality({p}) * Cardinality(1..n)
  BY <1>2, <1>3, FS_Product
<1>5. Cardinality({p} \X (1..n)) = n
  BY <1>2, <1>3, <1>4
<1> QED BY <1>1, <1>4, <1>5 DEF Share

LEMMA SharesFinite ==
  ASSUME NEW h \in Holdings, NEW r \in Resource, NEW S \in SUBSET Process
  PROVE  IsFiniteSet(Shares(h, r, S)) /\ Amount(h, r, S) \in Nat
<1> DEFINE f == [p \in S |-> Share(h, r, p)]
           F == {Share(h, r, p) : p \in S}
<1>1. IsFiniteSet(S)
  BY ResourceAssumption, FS_Subset
<1>2. f \in Surjection(S, F)
  BY DEF Surjection
<1>3. IsFiniteSet(F)
  <2> HIDE DEF f, F
  <2> QED BY <1>1, <1>2, FS_Surjection
<1>4. \A T \in F : IsFiniteSet(T)
  BY ShareSize
<1>5. IsFiniteSet(UNION F)
  <2> HIDE DEF F
  <2> QED BY <1>3, <1>4, FS_UNION
<1> QED BY <1>5, FS_CardinalityType DEF Shares, Amount

\* One process more is its units more.
LEMMA AmountAdds ==
  ASSUME NEW h \in Holdings, NEW r \in Resource, NEW S \in SUBSET Process, NEW p \in S
  PROVE  Amount(h, r, S) = Amount(h, r, S \ {p}) + h[p][r]
<1> DEFINE T == S \ {p}
<1>1. IsFiniteSet(Shares(h, r, T)) /\ Amount(h, r, T) \in Nat
  BY SharesFinite
<1>2. IsFiniteSet(Share(h, r, p)) /\ Cardinality(Share(h, r, p)) = h[p][r] /\ h[p][r] \in Nat
  BY ShareSize DEF Holdings
<1>3. Shares(h, r, S) = Shares(h, r, T) \cup Share(h, r, p)
  BY Zenon DEF Shares
<1>4. Shares(h, r, T) \cap Share(h, r, p) = {}
  BY DEF Shares, Share
<1>5. ASSUME NEW A, NEW B, IsFiniteSet(A), IsFiniteSet(B), A \cap B = {}
      PROVE  Cardinality(A \cup B) = Cardinality(A) + Cardinality(B)
  <2>1. Cardinality(A \cup B) = Cardinality(A) + Cardinality(B) - Cardinality(A \cap B)
    BY <1>5, FS_Union
  <2>2. Cardinality(A \cap B) = 0 /\ Cardinality(A) \in Nat /\ Cardinality(B) \in Nat
    BY <1>5, FS_EmptySet, FS_CardinalityType
  <2> QED BY <2>1, <2>2
<1>6. Cardinality(Shares(h, r, S)) = Cardinality(Shares(h, r, T)) + Cardinality(Share(h, r, p))
  BY <1>1, <1>2, <1>3, <1>4, <1>5
<1> QED BY <1>2, <1>6 DEF Amount

\* What changes at one process changes the sum by as much.
LEMMA AmountChanges ==
  ASSUME NEW h \in Holdings, NEW g \in Holdings, NEW r \in Resource, NEW p \in Process,
         \A q \in Process : q # p => g[q][r] = h[q][r]
  PROVE  Amount(g, r, Process) = Amount(h, r, Process) + g[p][r] - h[p][r]
<1>1. Shares(g, r, Process \ {p}) = Shares(h, r, Process \ {p})
  BY DEF Shares, Share
<1>2. /\ Amount(h, r, Process) = Amount(h, r, Process \ {p}) + h[p][r]
      /\ Amount(g, r, Process) = Amount(g, r, Process \ {p}) + g[p][r]
      /\ Amount(h, r, Process \ {p}) \in Nat
  BY AmountAdds, SharesFinite
<1> QED BY <1>1, <1>2 DEF Amount, Holdings

LEMMA AmountBounds ==
  ASSUME NEW h \in Holdings, NEW r \in Resource, NEW p \in Process
  PROVE  /\ h[p][r] <= Amount(h, r, Process)
         /\ \A q \in Process : q # p => h[p][r] + h[q][r] <= Amount(h, r, Process)
<1>1. /\ Amount(h, r, Process) = Amount(h, r, Process \ {p}) + h[p][r]
      /\ Amount(h, r, Process \ {p}) \in Nat /\ h[p][r] \in Nat
  BY AmountAdds, SharesFinite DEF Holdings
<1>2. ASSUME NEW q \in Process, q # p
      PROVE  h[q][r] <= Amount(h, r, Process \ {p})
  <2>1. /\ Amount(h, r, Process \ {p}) = Amount(h, r, (Process \ {p}) \ {q}) + h[q][r]
        /\ Amount(h, r, (Process \ {p}) \ {q}) \in Nat /\ h[q][r] \in Nat
    BY <1>2, AmountAdds, SharesFinite DEF Holdings
  <2> QED BY <2>1
<1>3. ASSUME NEW q \in Process, q # p
      PROVE  h[p][r] + h[q][r] <= Amount(h, r, Process)
  <2>1. h[q][r] \in Nat /\ h[q][r] <= Amount(h, r, Process \ {p})
    BY <1>2, <1>3 DEF Holdings
  <2> QED BY <1>1, <2>1
<1>4. h[p][r] <= Amount(h, r, Process)
  BY <1>1
<1> QED BY <1>3, <1>4

\* The units in passage, thread by thread.
Taking(t, r) == IF res[t] = r /\ pc[t] \in {"grant", "enqueue", "find", "give"} THEN 1 ELSE 0
Returning(t, r) == IF res[t] = r /\ pc[t] \in {"drop", "dropWake"} THEN 1 ELSE 0

LEMMA ThreadCount ==
  ASSUME NEW S \in SUBSET Thread
  PROVE  Cardinality(S) = (IF "stp" \in S THEN 1 ELSE 0) + (IF "console" \in S THEN 1 ELSE 0)
<1>1. IsFiniteSet({}) /\ Cardinality({}) = 0
  BY FS_EmptySet
<1>2. \A x : IsFiniteSet({x}) /\ Cardinality({x}) = 1
  BY FS_Singleton
<1>3. Cardinality({"stp"} \cup {"console"}) = 2
  <2>1. "console" \notin {"stp"} /\ IsFiniteSet({"stp"}) /\ Cardinality({"stp"}) = 1
    BY <1>2
  <2>2. Cardinality({"stp"} \cup {"console"}) = Cardinality({"stp"}) + 1
    BY <2>1, FS_AddElement
  <2> QED BY <2>1, <2>2
<1>4. S = {} \/ S = {"stp"} \/ S = {"console"} \/ S = {"stp"} \cup {"console"}
  BY Zenon DEF Thread
<1>5. CASE S = {}
  BY <1>1, <1>5
<1>6. CASE S = {"stp"}
  BY <1>2, <1>6
<1>7. CASE S = {"console"}
  BY <1>2, <1>7
<1>8. CASE S = {"stp"} \cup {"console"}
  <2>1. "stp" \in S /\ "console" \in S
    BY <1>8
  <2> QED BY <1>3, <1>8, <2>1
<1> QED BY <1>4, <1>5, <1>6, <1>7, <1>8

\* The equation of Conserved for r, as what lies around and what each thread
\* is moving.
Sheet(r) == qty[r] + Units(r) + Len(queue[r]) + lost[r] - extra[r]
Holding(t, r) == Taking(t, r) - Returning(t, r)
Books(r) == Sheet(r) + Holding("stp", r) + Holding("console", r) = MaxQty[r]

LEMMA BookTypes ==
  ASSUME Typing, NEW r \in Resource
  PROVE  /\ qty[r] \in Int /\ lost[r] \in Nat /\ extra[r] \in Nat /\ MaxQty[r] \in Nat
         /\ Units(r) = Amount(held, r, Process) /\ Units(r) \in Nat
         /\ Len(queue[r]) \in Nat
         /\ \A t \in Thread : Taking(t, r) \in 0..1 /\ Returning(t, r) \in 0..1
         /\ \A p \in Process : held[p][r] \in Nat
<1>1. Units(r) = Amount(held, r, Process)
  BY DEF Units, Amount, Shares, Share
<1>2. held \in Holdings
  BY DEF Typing, ProcTypes, Holdings
<1>3. Len(queue[r]) \in Nat
  BY LenProperties DEF Typing, RestTypes
<1>4. Amount(held, r, Process) \in Nat
  BY <1>2, SharesFinite
<1> QED BY <1>1, <1>2, <1>3, <1>4, ResourceAssumption DEF Typing, CountTypes, Taking,
   Returning, Holdings

LEMMA BookTypesNext ==
  ASSUME Typing', NEW r \in Resource
  PROVE  /\ qty'[r] \in Int /\ lost'[r] \in Nat /\ extra'[r] \in Nat
         /\ Units(r)' = Amount(held', r, Process) /\ Units(r)' \in Nat
         /\ Len(queue'[r]) \in Nat
         /\ \A t \in Thread : Taking(t, r)' \in 0..1 /\ Returning(t, r)' \in 0..1
<1>1. Units(r)' = Amount(held', r, Process)
  BY DEF Units, Amount, Shares, Share
<1>2. held' \in Holdings
  BY DEF Typing, ProcTypes, Holdings
<1>3. Len(queue'[r]) \in Nat
  BY LenProperties DEF Typing, RestTypes
<1>4. Amount(held', r, Process) \in Nat
  BY <1>2, SharesFinite
<1> QED BY <1>1, <1>2, <1>3, <1>4 DEF Typing, CountTypes, Taking, Returning

LEMMA BooksConserve ==
  ASSUME Typing
  PROVE  Conserved <=> \A r \in Resource : Books(r)
<1> SUFFICES ASSUME NEW r \in Resource
    PROVE  (qty[r] + Units(r) + Len(queue[r]) + Taken(r) + lost[r]
             = MaxQty[r] + extra[r] + Twice(r)) <=> Books(r)
  BY DEF Conserved
<1> DEFINE A == {t \in Thread : res[t] = r /\ pc[t] \in {"grant", "enqueue", "find", "give"}}
           B == {t \in Thread : res[t] = r /\ pc[t] \in {"drop", "dropWake"}}
<1>1. Taken(r) = Cardinality(A) /\ Twice(r) = Cardinality(B)
  BY DEF Taken, Twice, Passing
<1>2. /\ A \in SUBSET Thread /\ B \in SUBSET Thread
      /\ \A t \in Thread : /\ Taking(t, r) = IF t \in A THEN 1 ELSE 0
                           /\ Returning(t, r) = IF t \in B THEN 1 ELSE 0
  BY DEF Taking, Returning
<1> HIDE DEF A, B
<1>3. /\ Cardinality(A) = (IF "stp" \in A THEN 1 ELSE 0) + (IF "console" \in A THEN 1 ELSE 0)
      /\ Cardinality(B) = (IF "stp" \in B THEN 1 ELSE 0) + (IF "console" \in B THEN 1 ELSE 0)
  BY <1>2, ThreadCount
<1>4. PICK x \in Int, y \in Int, v \in Int, w \in Int :
        /\ x = Taking("stp", r) /\ y = Taking("console", r)
        /\ v = Returning("stp", r) /\ w = Returning("console", r)
  BY BookTypes DEF Thread
<1>5. Taken(r) = x + y /\ Twice(r) = v + w
  BY <1>1, <1>2, <1>3, <1>4 DEF Thread
<1>6. PICK a \in Int, b \in Int, c \in Int, d \in Int, e \in Int, m \in Int :
        /\ a = qty[r] /\ b = Units(r) /\ c = Len(queue[r]) /\ d = lost[r]
        /\ e = extra[r] /\ m = MaxQty[r]
  <2>1. /\ qty[r] \in Int /\ Units(r) \in Int /\ Len(queue[r]) \in Int
        /\ lost[r] \in Int /\ extra[r] \in Int /\ MaxQty[r] \in Int
    BY BookTypes
  <2> QED BY <2>1
<1>7. a + b + c + (x + y) + d = m + e + (v + w)
        <=> (a + b + c + d - e) + (x - v) + (y - w) = m
  OBVIOUS
<1> QED BY <1>4, <1>5, <1>6, <1>7 DEF Books, Sheet, Holding

\* One step: thread t moves units between two places of the books.
LEMMA BooksMove ==
  ASSUME Typing, Typing', NEW r \in Resource, Books(r),
         NEW t \in Thread, NEW u \in Thread, u # t,
         Holding(u, r)' = Holding(u, r),
         Sheet(r)' + Holding(t, r)' = Sheet(r) + Holding(t, r)
  PROVE  Books(r)'
<1>1. Sheet(r) \in Int /\ \A a \in Thread : Holding(a, r) \in Int
  <2>1. /\ qty[r] \in Int /\ Units(r) \in Int /\ Len(queue[r]) \in Int
        /\ lost[r] \in Int /\ extra[r] \in Int
        /\ \A a \in Thread : Taking(a, r) \in Int /\ Returning(a, r) \in Int
    BY BookTypes
  <2>2. Sheet(r) \in Int
    <3>1. PICK n \in Int : n = qty[r] + Units(r) + Len(queue[r])
      BY <2>1
    <3>2. n + lost[r] - extra[r] \in Int
      BY <2>1
    <3> QED BY <3>1, <3>2 DEF Sheet
  <2>3. \A a \in Thread : Holding(a, r) \in Int
    BY <2>1 DEF Holding
  <2> QED BY <2>2, <2>3
<1>2. Sheet(r)' \in Int /\ \A a \in Thread : Holding(a, r)' \in Int
  <2>1. /\ qty'[r] \in Int /\ Units(r)' \in Int /\ Len(queue'[r]) \in Int
        /\ lost'[r] \in Int /\ extra'[r] \in Int
        /\ \A a \in Thread : Taking(a, r)' \in Int /\ Returning(a, r)' \in Int
    BY BookTypesNext
  <2>2. Sheet(r)' \in Int
    <3>1. PICK n \in Int : n = qty'[r] + Units(r)' + Len(queue'[r])
      BY <2>1
    <3>2. n + lost'[r] - extra'[r] \in Int
      BY <2>1
    <3> QED BY <3>1, <3>2 DEF Sheet
  <2>3. \A a \in Thread : Holding(a, r)' \in Int
    BY <2>1 DEF Holding
  <2> QED BY <2>2, <2>3
<1>3. CASE t = "stp" /\ u = "console"
  BY <1>1, <1>2, <1>3 DEF Books
<1>4. CASE t = "console" /\ u = "stp"
  BY <1>1, <1>2, <1>4 DEF Books
<1> QED BY <1>3, <1>4 DEF Thread

------------------------------------------------------------------------------
(* Every step keeps the books.                                              *)

Balanced == \A r \in Resource : Books(r)

\* A thread that does nothing holds what it held.
LEMMA HoldingStays ==
  ASSUME NEW u \in Thread, NEW r \in Resource,
         pc'[u] = pc[u], res'[u] = res[u]
  PROVE  Holding(u, r)' = Holding(u, r)
<1>1. Taking(u, r)' = Taking(u, r) /\ Returning(u, r)' = Returning(u, r)
  BY DEF Taking, Returning
<1> QED BY <1>1 DEF Holding

\* Units given to or taken from one process.
LEMMA UnitsChange ==
  ASSUME Typing, Typing', NEW r \in Resource, NEW p \in Process,
         \A q \in Process : q # p => held'[q] = held[q]
  PROVE  Units(r)' = Units(r) + held'[p][r] - held[p][r]
<1>1. held \in Holdings /\ held' \in Holdings
  BY DEF Typing, ProcTypes, Holdings
<1>2. Amount(held', r, Process) = Amount(held, r, Process) + held'[p][r] - held[p][r]
  BY <1>1, AmountChanges
<1> QED BY <1>2, BookTypes, BookTypesNext

\* A step that moves no units.
LEMMA BooksStay ==
  ASSUME UNCHANGED <<qty, queue, held, extra, lost>>,
         \A u \in Thread : \A r \in Resource : Holding(u, r)' = Holding(u, r)
  PROVE  Balanced => Balanced'
<1>1. \A r \in Resource : Sheet(r)' = Sheet(r)
  BY DEF Sheet, Units
<1> QED BY <1>1 DEF Balanced, Books, Thread

LEMMA DispatchBooks ==
  ASSUME Typing, Balanced, NEW p \in Process, Dispatch(p)
  PROVE  Balanced'
<1>1. UNCHANGED <<qty, queue, held, extra, lost>>
  BY DEF Dispatch, Goto, countVars
<1>2. \A u \in Thread : \A r \in Resource : Holding(u, r)' = Holding(u, r)
  BY DEF Dispatch, Goto, countVars, Holding, Taking, Returning
<1> QED BY <1>1, <1>2, BooksStay

LEMMA PreemptBooks ==
  ASSUME Typing, Balanced, Preempt
  PROVE  Balanced'
<1>1. UNCHANGED <<qty, queue, held, extra, lost>>
  BY DEF Preempt, Running, StpDone, Goto, countVars
<1>2. \A u \in Thread : \A r \in Resource : Holding(u, r)' = Holding(u, r)
  BY DEF Preempt, Running, StpDone, Goto, countVars, Holding, Taking, Returning
<1> QED BY <1>1, <1>2, BooksStay

LEMMA BlockBooks ==
  ASSUME Typing, Balanced, Block
  PROVE  Balanced'
<1>1. UNCHANGED <<qty, queue, held, extra, lost>>
  BY DEF Block, Goto, countVars
<1>2. \A u \in Thread : \A r \in Resource : Holding(u, r)' = Holding(u, r)
  BY DEF Block, Goto, countVars, Holding, Taking, Returning
<1> QED BY <1>1, <1>2, BooksStay

LEMMA MarkBooks ==
  ASSUME Typing, Balanced, Mark
  PROVE  Balanced'
<1>1. UNCHANGED <<qty, queue, held, extra, lost>>
  BY DEF Mark, StpDone, Goto, countVars
<1>2. \A u \in Thread : \A r \in Resource : Holding(u, r)' = Holding(u, r)
  BY DEF Mark, StpDone, Goto, countVars, Holding, Taking, Returning
<1> QED BY <1>1, <1>2, BooksStay

LEMMA BadNameBooks ==
  ASSUME Typing, Balanced, BadName
  PROVE  Balanced'
<1>1. UNCHANGED <<qty, queue, held, extra, lost>>
  BY DEF BadName, Running, Goto, countVars, procVars
<1>2. \A u \in Thread : \A r \in Resource : Holding(u, r)' = Holding(u, r)
  BY DEF BadName, Running, Goto, countVars, procVars, Holding, Taking, Returning
<1> QED BY <1>1, <1>2, BooksStay

LEMMA ExitBooks ==
  ASSUME Typing, Balanced, Exit
  PROVE  Balanced'
<1>1. UNCHANGED <<qty, queue, held, extra, lost>>
  BY DEF Exit, Running, StartExit, Goto, countVars, procVars
<1>2. \A u \in Thread : \A r \in Resource : Holding(u, r)' = Holding(u, r)
  BY DEF Exit, Running, StartExit, Goto, countVars, procVars, Holding, Taking, Returning
<1> QED BY <1>1, <1>2, BooksStay

LEMMA LoopBooks ==
  ASSUME Typing, Balanced, Loop
  PROVE  Balanced'
<1>1. UNCHANGED <<qty, queue, held, extra, lost>>
  BY DEF Loop, StpDone, Goto, procVars, countVars
<1>2. \A u \in Thread : \A r \in Resource : Holding(u, r)' = Holding(u, r)
  BY DEF Loop, StpDone, Goto, procVars, countVars, Holding, Taking, Returning,
     Typing, FlowTypes
<1> QED BY <1>1, <1>2, BooksStay

LEMMA KillFindBooks ==
  ASSUME Typing, Balanced, NEW p \in Process, KillFind(p)
  PROVE  Balanced'
<1>1. UNCHANGED <<qty, queue, held, extra, lost>>
  BY DEF KillFind, Goto, countVars, procVars
<1>2. \A u \in Thread : \A r \in Resource : Holding(u, r)' = Holding(u, r)
  BY DEF KillFind, Goto, countVars, procVars, Holding, Taking, Returning,
     Typing, FlowTypes
<1> QED BY <1>1, <1>2, BooksStay

LEMMA KillJudgeBooks ==
  ASSUME Typing, Balanced, KillJudge
  PROVE  Balanced'
<1>1. UNCHANGED <<qty, queue, held, extra, lost>>
  BY DEF KillJudge, Goto, countVars, procVars
<1>2. \A u \in Thread : \A r \in Resource : Holding(u, r)' = Holding(u, r)
  BY DEF KillJudge, Goto, countVars, procVars, Holding, Taking, Returning,
     Typing, FlowTypes
<1> QED BY <1>1, <1>2, BooksStay

LEMMA KillStartBooks ==
  ASSUME Typing, Balanced, KillStart
  PROVE  Balanced'
<1>1. UNCHANGED <<qty, queue, held, extra, lost>>
  BY DEF KillStart, StartExit, Goto, countVars, procVars
<1>2. \A u \in Thread : \A r \in Resource : Holding(u, r)' = Holding(u, r)
  BY DEF KillStart, StartExit, Goto, countVars, procVars, Holding, Taking, Returning,
     Typing, FlowTypes
<1> QED BY <1>1, <1>2, BooksStay

LEMMA WakeBooks ==
  ASSUME Typing, Balanced, NEW t \in Thread, Wake(t)
  PROVE  Balanced'
<1>1. UNCHANGED <<qty, queue, held, extra, lost>>
  BY DEF Wake, countVars
<1>2. \A u \in Thread : \A r \in Resource : Holding(u, r)' = Holding(u, r)
  BY DEF Wake, Goto, Holding, Taking, Returning, Typing, FlowTypes
<1> QED BY <1>1, <1>2, BooksStay

\* The change of a sheet, place by place.
LEMMA SheetMoves ==
  ASSUME Typing, Typing', NEW r \in Resource, NEW t \in Thread,
         (qty'[r] - qty[r]) + (Units(r)' - Units(r)) + (Len(queue'[r]) - Len(queue[r]))
           + (lost'[r] - lost[r]) - (extra'[r] - extra[r])
           + (Holding(t, r)' - Holding(t, r)) = 0
  PROVE  Sheet(r)' + Holding(t, r)' = Sheet(r) + Holding(t, r)
<1>1. PICK a \in Int, b \in Int, c \in Int, d \in Int, e \in Int, h \in Int :
        /\ a = qty[r] /\ b = Units(r) /\ c = Len(queue[r]) /\ d = lost[r] /\ e = extra[r]
        /\ h = Holding(t, r)
  <2>1. /\ qty[r] \in Int /\ Units(r) \in Int /\ Len(queue[r]) \in Int
        /\ lost[r] \in Int /\ extra[r] \in Int
    BY BookTypes
  <2>2. Holding(t, r) \in Int
    BY DEF Holding, Taking, Returning
  <2> QED BY <2>1, <2>2
<1>2. PICK u \in Int, v \in Int, w \in Int, x \in Int, y \in Int, k \in Int :
        /\ u = qty'[r] /\ v = Units(r)' /\ w = Len(queue'[r]) /\ x = lost'[r]
        /\ y = extra'[r] /\ k = Holding(t, r)'
  <2>1. /\ qty'[r] \in Int /\ Units(r)' \in Int /\ Len(queue'[r]) \in Int
        /\ lost'[r] \in Int /\ extra'[r] \in Int
    BY BookTypesNext
  <2>2. Holding(t, r)' \in Int
    BY DEF Holding, Taking, Returning
  <2> QED BY <2>1, <2>2
<1>3. (u - a) + (v - b) + (w - c) + (x - d) - (y - e) + (k - h) = 0
  BY <1>1, <1>2
<1>4. (u + v + w + x - y) + k = (a + b + c + d - e) + h
  BY <1>3
<1> QED BY <1>1, <1>2, <1>4 DEF Sheet

\* The places a step leaves alone.
LEMMA PlacesStay ==
  ASSUME Typing, Typing', NEW r \in Resource
  PROVE  /\ qty' = qty => qty'[r] - qty[r] = 0
         /\ held' = held => Units(r)' - Units(r) = 0
         /\ queue' = queue => Len(queue'[r]) - Len(queue[r]) = 0
         /\ lost' = lost => lost'[r] - lost[r] = 0
         /\ extra' = extra => extra'[r] - extra[r] = 0
<1>1. /\ qty[r] \in Int /\ Units(r) \in Int /\ Len(queue[r]) \in Int
      /\ lost[r] \in Int /\ extra[r] \in Int
  BY BookTypes
<1>2. held' = held => Units(r)' = Units(r)
  BY DEF Units
<1> QED BY <1>1, <1>2

LEMMA WaitBooks ==
  ASSUME Typing, Balanced, NEW s \in Resource, Wait(s)
  PROVE  Balanced'
<1> SUFFICES ASSUME NEW r \in Resource PROVE Books(r)'
  BY DEF Balanced
<1>1. Typing' /\ Books(r) /\ "stp" \in Thread /\ "console" \in Thread
  BY WaitTyping DEF Balanced, Thread
<1>2. Holding("console", r)' = Holding("console", r)
  <2>1. pc'["console"] = pc["console"]
    BY DEF Wait, Goto, Typing, FlowTypes, Thread
  <2>2. who' = who /\ held' = held /\ res'["console"] = res["console"]
    BY DEF Wait, procVars, Typing, FlowTypes, Thread
  <2> QED BY <1>1, <2>1, <2>2, HoldingStays
<1>3. Sheet(r)' + Holding("stp", r)' = Sheet(r) + Holding("stp", r)
  <2> DEFINE h == IF r = s THEN 1 ELSE 0
  <2>1. Holding("stp", r)' - Holding("stp", r) = h
    BY DEF Wait, Running, Goto, Typing, FlowTypes, Holding, Taking, Returning, Thread
  <2>2. qty'[r] - qty[r] = 0 - h
    BY DEF Wait, Typing, CountTypes
  <2>3. held' = held /\ queue' = queue /\ lost' = lost /\ extra' = extra
    BY DEF Wait, procVars
  <2>4. (0 - h) + 0 + 0 + 0 - 0 + h = 0
    OBVIOUS
  <2> HIDE DEF h
  <2> QED BY <1>1, <2>1, <2>2, <2>3, <2>4, PlacesStay, SheetMoves
<1> QED BY <1>1, <1>2, <1>3, BooksMove

LEMMA GrantBooks ==
  ASSUME Typing, Balanced, Grant
  PROVE  Balanced'
<1> SUFFICES ASSUME NEW r \in Resource PROVE Books(r)'
  BY DEF Balanced
<1>1. Typing' /\ Books(r) /\ "stp" \in Thread /\ "console" \in Thread
  BY GrantTyping DEF Balanced, Thread
<1>2. PICK p \in Process, s \in Resource : p = who["stp"] /\ s = res["stp"]
  BY DEF Grant, Typing, PcOK, Fits, ResPC, Thread
<1>3. held' = [held EXCEPT ![p][s] = @ + 1] /\ held[p][r] \in Nat
  BY <1>2, BookTypes DEF Grant, Assign, Current
<1>4. Holding("console", r)' = Holding("console", r)
  <2>1. pc'["console"] = pc["console"] /\ res'["console"] = res["console"]
    BY DEF Grant, StpDone, Goto, Typing, FlowTypes, Thread
  <2> QED BY <1>1, <2>1, HoldingStays
<1>5. Sheet(r)' + Holding("stp", r)' = Sheet(r) + Holding("stp", r)
  <2> DEFINE h == IF r = s THEN 1 ELSE 0
  <2>1. Holding("stp", r)' - Holding("stp", r) = 0 - h
    BY <1>2 DEF Grant, StpDone, Goto, Typing, FlowTypes, Holding, Taking, Returning,
       Thread
  <2>2. Units(r)' - Units(r) = h
    <3>1. held'[p][r] = held[p][r] + h
      BY <1>3 DEF Typing, ProcTypes
    <3>2. Units(r)' = Units(r) + held'[p][r] - held[p][r]
      BY <1>1, <1>3, UnitsChange DEF Typing, ProcTypes
    <3>3. Units(r) \in Int
      BY BookTypes
    <3> QED BY <1>3, <3>1, <3>2, <3>3
  <2>3. qty' = qty /\ queue' = queue /\ lost' = lost /\ extra' = extra
    BY DEF Grant, countVars
  <2>4. 0 + h + 0 + 0 - 0 + (0 - h) = 0
    OBVIOUS
  <2> HIDE DEF h
  <2> QED BY <1>1, <2>1, <2>2, <2>3, <2>4, PlacesStay, SheetMoves
<1> QED BY <1>1, <1>4, <1>5, BooksMove

LEMMA EnqueueBooks ==
  ASSUME Typing, Balanced, Enqueue
  PROVE  Balanced'
<1> SUFFICES ASSUME NEW r \in Resource PROVE Books(r)'
  BY DEF Balanced
<1>1. Typing' /\ Books(r) /\ "stp" \in Thread /\ "console" \in Thread
  BY EnqueueTyping DEF Balanced, Thread
<1>2. PICK p \in Process, s \in Resource : p = who["stp"] /\ s = res["stp"]
  BY DEF Enqueue, Typing, PcOK, Fits, ResPC, Thread
<1>3. Holding("console", r)' = Holding("console", r)
  <2>1. pc'["console"] = pc["console"] /\ who' = who /\ res' = res /\ held' = held
    BY DEF Enqueue, Goto, procVars, Typing, FlowTypes, Thread
  <2> QED BY <1>1, <2>1, HoldingStays
<1>4. Sheet(r)' + Holding("stp", r)' = Sheet(r) + Holding("stp", r)
  <2> DEFINE h == IF r = s THEN 1 ELSE 0
  <2>1. Holding("stp", r)' - Holding("stp", r) = 0 - h
    BY <1>2 DEF Enqueue, Goto, Typing, FlowTypes, Holding, Taking, Returning, Thread
  <2>2. Len(queue'[r]) - Len(queue[r]) = h
    <3>1. queue' = [queue EXCEPT ![s] = Append(@, p)] /\ queue \in [Resource -> Seq(Process)]
      BY <1>2 DEF Enqueue, Current, Typing, RestTypes
    <3>2. Len(Append(queue[s], p)) = Len(queue[s]) + 1
      BY <3>1, AppendAdds
    <3>3. Len(queue[r]) \in Int
      BY BookTypes
    <3> QED BY <3>1, <3>2, <3>3
  <2>3. qty' = qty /\ held' = held /\ lost' = lost /\ extra' = extra
    BY DEF Enqueue, countVars, procVars
  <2>4. 0 + 0 + h + 0 - 0 + (0 - h) = 0
    OBVIOUS
  <2> HIDE DEF h
  <2> QED BY <1>1, <2>1, <2>2, <2>3, <2>4, PlacesStay, SheetMoves
<1> QED BY <1>1, <1>3, <1>4, BooksMove

\* release_resource raises the counter, for a unit still to be taken from its
\* holder, or refuses a unit that comes from nowhere.
LEMMA ReleaseBooks ==
  ASSUME Typing, Balanced, Typing', NEW t \in Thread, NEW s \in Resource,
         pc[t] \in {"cpu", "loop"}, Release(t, s), UNCHANGED <<held, queue, lost>>
  PROVE  Balanced'
<1> SUFFICES ASSUME NEW r \in Resource PROVE Books(r)'
  BY DEF Balanced
<1>1. PICK u \in Thread : u # t
  BY DEF Thread
<1>2. Holding(u, r)' = Holding(u, r)
  <2>1. pc'[u] = pc[u] /\ res'[u] = res[u]
    BY <1>1 DEF Release, Goto, Typing, FlowTypes
  <2> QED BY <2>1, HoldingStays
<1>3. Sheet(r)' + Holding(t, r)' = Sheet(r) + Holding(t, r)
  <2> DEFINE h == IF r = s THEN 1 ELSE 0
             x == IF r = s /\ qty[r] + 1 > MaxQty[r] THEN 1 ELSE 0
  <2>1. qty'[r] - qty[r] = h
    BY DEF Release, Typing, CountTypes
  <2>2. extra'[r] - extra[r] = x
    BY DEF Release, Typing, CountTypes
  <2>3. Holding(t, r)' - Holding(t, r) = x - h
    <3>1. Holding(t, r) = 0
      BY DEF Holding, Taking, Returning
    <3>2. Taking(t, r)' = 0 /\ res'[t] = s
      BY DEF Release, Goto, Taking, Typing, FlowTypes
    <3>3. CASE r # s
      BY <3>1, <3>2, <3>3 DEF Holding, Returning
    <3>4. CASE r = s /\ qty[r] + 1 > MaxQty[r]
      <4>1. pc'[t] = "expel"
        BY <3>4 DEF Release, Goto, Typing, FlowTypes
      <4> QED BY <3>1, <3>2, <3>4, <4>1 DEF Holding, Returning
    <3>5. CASE r = s /\ ~(qty[r] + 1 > MaxQty[r])
      <4>1. pc'[t] \in {"drop", "dropWake"}
        BY <3>5 DEF Release, Goto, Typing, FlowTypes
      <4> QED BY <3>1, <3>2, <3>5, <4>1 DEF Holding, Returning
    <3> QED BY <3>3, <3>4, <3>5
  <2>4. h + 0 + 0 + 0 - x + (x - h) = 0
    OBVIOUS
  <2> HIDE DEF h, x
  <2> QED BY <1>1, <2>1, <2>2, <2>3, <2>4, PlacesStay, SheetMoves
<1> QED BY <1>1, <1>2, <1>3, BooksMove DEF Balanced

LEMMA SignalBooks ==
  ASSUME Typing, Balanced, NEW s \in Resource, Signal(s)
  PROVE  Balanced'
<1>1. "stp" \in Thread /\ pc["stp"] = "cpu"
  BY DEF Signal, Running, Thread
<1>2. Release("stp", s) /\ UNCHANGED <<held, queue, lost>>
  BY DEF Signal, procVars
<1> QED BY <1>1, <1>2, SignalTyping, ReleaseBooks

LEMMA ReleaseNextBooks ==
  ASSUME Typing, Balanced, NEW t \in Thread, ReleaseNext(t)
  PROVE  Balanced'
<1>1. PICK s \in Resource : Release(t, s)
  BY DEF ReleaseNext
<1>2. pc[t] = "loop" /\ UNCHANGED <<held, queue, lost>>
  BY DEF ReleaseNext, procVars
<1> QED BY <1>1, <1>2, ReleaseNextTyping, ReleaseBooks

LEMMA DropBooks ==
  ASSUME Typing, Balanced, NEW t \in Thread, Drop(t)
  PROVE  Balanced'
<1> SUFFICES ASSUME NEW r \in Resource PROVE Books(r)'
  BY DEF Balanced
<1>1. Typing' /\ Books(r)
  BY DropTyping DEF Balanced
<1>2. PICK u \in Thread : u # t
  BY DEF Thread
<1>3. PICK p \in Process, s \in Resource : p = who[t] /\ s = res[t]
  BY DEF Drop, Typing, PcOK, Fits, ResPC, ReleasePC
<1>4. /\ held[p][r] \in Nat /\ extra[r] \in Nat
      /\ IF held[p][s] > 0
         THEN held' = [held EXCEPT ![p][s] = @ - 1] /\ extra' = extra
         ELSE held' = held /\ extra' = [extra EXCEPT ![s] = @ + 1]
  BY <1>3, BookTypes DEF Drop
<1>5. Holding(u, r)' = Holding(u, r)
  <2>1. pc'[u] = pc[u] /\ res'[u] = res[u]
    BY <1>2 DEF Drop, Goto, Typing, FlowTypes
  <2> QED BY <2>1, HoldingStays
<1>6. Sheet(r)' + Holding(t, r)' = Sheet(r) + Holding(t, r)
  <2> DEFINE h == IF r = s /\ held[p][r] > 0 THEN 1 ELSE 0
             x == IF r = s /\ ~(held[p][r] > 0) THEN 1 ELSE 0
  <2>1. Holding(t, r)' - Holding(t, r) = h + x
    <3>1. pc'[t] \notin {"drop", "dropWake", "grant", "enqueue", "find", "give"}
      BY DEF Drop, Goto, Typing, FlowTypes
    <3>2. Holding(t, r)' = 0
      BY <3>1 DEF Holding, Taking, Returning
    <3>3. Holding(t, r) = IF r = s THEN 0 - 1 ELSE 0
      BY <1>3 DEF Drop, Holding, Taking, Returning
    <3>4. h + x = IF r = s THEN 1 ELSE 0
      OBVIOUS
    <3> HIDE DEF h, x
    <3> QED BY <3>2, <3>3, <3>4
  <2>2. Units(r)' - Units(r) = 0 - h
    <3>1. held'[p][r] = held[p][r] - h
      <4>1. CASE held[p][s] > 0
        BY <1>4, <4>1 DEF Typing, ProcTypes
      <4>2. CASE ~(held[p][s] > 0)
        BY <1>4, <4>2
      <4> QED BY <4>1, <4>2
    <3>2. Units(r)' = Units(r) + held'[p][r] - held[p][r]
      <4>1. \A q \in Process : q # p => held'[q] = held[q]
        BY <1>4 DEF Typing, ProcTypes
      <4> QED BY <1>1, <4>1, UnitsChange
    <3>3. Units(r) \in Int
      BY BookTypes
    <3> QED BY <1>4, <3>1, <3>2, <3>3
  <2>3. extra'[r] - extra[r] = x
    <3>1. CASE held[p][s] > 0
      BY <1>4, <3>1
    <3>2. CASE ~(held[p][s] > 0)
      BY <1>4, <3>2 DEF Typing, CountTypes
    <3> QED BY <3>1, <3>2
  <2>4. qty' = qty /\ queue' = queue /\ lost' = lost
    BY DEF Drop
  <2>5. 0 + (0 - h) + 0 + 0 - x + (h + x) = 0
    OBVIOUS
  <2> HIDE DEF h, x
  <2> QED BY <1>1, <2>1, <2>2, <2>3, <2>4, <2>5, PlacesStay, SheetMoves
<1> QED BY <1>1, <1>2, <1>5, <1>6, BooksMove

LEMMA PopBooks ==
  ASSUME Typing, Balanced, NEW t \in Thread, Pop(t)
  PROVE  Balanced'
<1> SUFFICES ASSUME NEW r \in Resource PROVE Books(r)'
  BY DEF Balanced
<1>1. Typing' /\ Books(r)
  BY PopTyping DEF Balanced
<1>2. PICK u \in Thread : u # t
  BY DEF Thread
<1>3. PICK s \in Resource : s = res[t]
  BY DEF Pop, Typing, PcOK, Fits, ResPC, ReleasePC
<1>4. Holding(u, r)' = Holding(u, r)
  <2>1. pc'[u] = pc[u] /\ who' = who /\ res' = res /\ held' = held
    BY <1>2 DEF Pop, Goto, procVars, Typing, FlowTypes
  <2> QED BY <2>1, HoldingStays
<1>5. Sheet(r)' + Holding(t, r)' = Sheet(r) + Holding(t, r)
  <2> DEFINE h == IF r = s /\ queue[r] # <<>> THEN 1 ELSE 0
  <2>1. Holding(t, r)' - Holding(t, r) = h
    <3>1. Holding(t, r) = 0
      BY DEF Pop, Holding, Taking, Returning
    <3>2. pc[t] = "pop" /\ after[t] \in {"run", "loop"} /\ res' = res
      BY DEF Pop, Typing, FlowTypes
    <3>3. CASE queue[s] = <<>>
      <4>1. pc'[t] = after[t]
        BY <1>3, <3>3 DEF Pop, Goto, Typing, FlowTypes
      <4>2. Holding(t, r)' = 0 /\ h = 0
        BY <3>2, <3>3, <4>1 DEF Holding, Taking, Returning
      <4> QED BY <3>1, <4>2
    <3>4. CASE queue[s] # <<>>
      <4>1. pc'[t] = "find"
        BY <1>3, <3>4 DEF Pop, Goto, Typing, FlowTypes
      <4>2. Holding(t, r)' = h
        BY <1>3, <3>2, <3>4, <4>1 DEF Holding, Taking, Returning
      <4> QED BY <3>1, <4>2
    <3> QED BY <3>3, <3>4
  <2>2. Len(queue'[r]) - Len(queue[r]) = 0 - h
    <3>1. queue \in [Resource -> Seq(Process)] /\ Len(queue[r]) \in Int
      BY BookTypes DEF Typing, RestTypes
    <3>2. CASE h = 1
      <4>0. r = s /\ queue[r] # <<>>
        BY <3>2
      <4>1. queue'[r] = Tail(queue[r]) /\ queue[r] # <<>> /\ queue[r] \in Seq(Process)
        BY <1>3, <3>1, <4>0 DEF Pop
      <4>2. Len(queue'[r]) = Len(queue[r]) - 1
        BY <4>1, TailRemoves
      <4> QED BY <3>1, <3>2, <4>2
    <3>3. CASE h = 0
      BY <1>3, <3>1, <3>3 DEF Pop
    <3> QED BY <3>2, <3>3
  <2>3. qty' = qty /\ held' = held /\ lost' = lost /\ extra' = extra
    BY DEF Pop, countVars, procVars
  <2>4. 0 + 0 + (0 - h) + 0 - 0 + h = 0
    OBVIOUS
  <2> HIDE DEF h
  <2> QED BY <1>1, <2>1, <2>2, <2>3, <2>4, PlacesStay, SheetMoves
<1> QED BY <1>1, <1>2, <1>4, <1>5, BooksMove

LEMMA FindBooks ==
  ASSUME Typing, Balanced, NEW t \in Thread, Find(t)
  PROVE  Balanced'
<1> SUFFICES ASSUME NEW r \in Resource PROVE Books(r)'
  BY DEF Balanced
<1>1. Typing' /\ Books(r)
  BY FindTyping DEF Balanced
<1>2. PICK u \in Thread : u # t
  BY DEF Thread
<1>3. Holding(u, r)' = Holding(u, r)
  <2>1. pc'[u] = pc[u] /\ res'[u] = res[u]
    BY <1>2 DEF Find, Goto, Typing, FlowTypes
  <2> QED BY <2>1, HoldingStays
<1>4. Sheet(r)' + Holding(t, r)' = Sheet(r) + Holding(t, r)
  <2> DEFINE x == IF res[t] = r /\ ~Alive(popped[t]) THEN 1 ELSE 0
  <2>1. Holding(t, r)' - Holding(t, r) = 0 - x
    <3>1. /\ pc[t] = "find" /\ after[t] \in {"run", "loop"} /\ res' = res
          /\ pc'[t] = IF Alive(popped[t]) THEN "give" ELSE after[t]
      BY DEF Find, Goto, Typing, FlowTypes
    <3>2. Holding(t, r) = IF res[t] = r THEN 1 ELSE 0
      BY <3>1 DEF Holding, Taking, Returning
    <3>3. Holding(t, r)' = IF res[t] = r /\ Alive(popped[t]) THEN 1 ELSE 0
      BY <3>1 DEF Holding, Taking, Returning
    <3> QED BY <3>2, <3>3
  <2>2. lost'[r] - lost[r] = x
    BY BookTypes DEF Find, Typing, CountTypes
  <2>3. qty' = qty /\ queue' = queue /\ held' = held /\ extra' = extra
    BY DEF Find, procVars
  <2>4. 0 + 0 + 0 + x - 0 + (0 - x) = 0
    OBVIOUS
  <2> HIDE DEF x
  <2> QED BY <1>1, <2>1, <2>2, <2>3, <2>4, PlacesStay, SheetMoves
<1> QED BY <1>1, <1>2, <1>3, <1>4, BooksMove

LEMMA GiveBooks ==
  ASSUME Typing, Balanced, NEW t \in Thread, Give(t)
  PROVE  Balanced'
<1> SUFFICES ASSUME NEW r \in Resource PROVE Books(r)'
  BY DEF Balanced
<1>1. Typing' /\ Books(r)
  BY GiveTyping DEF Balanced
<1>2. PICK u \in Thread : u # t
  BY DEF Thread
<1>3. PICK p \in Process, s \in Resource : p = popped[t] /\ s = res[t]
  BY DEF Give, Typing, PcOK, Fits, ResPC, ReleasePC
<1>4. /\ pc[t] = "give" /\ held[p][r] \in Nat
      /\ held' = [held EXCEPT ![p][s] = @ + 1]
  BY <1>3, BookTypes DEF Give, Assign
<1>5. Holding(u, r)' = Holding(u, r)
  <2>1. pc'[u] = pc[u] /\ res'[u] = res[u]
    BY <1>2 DEF Give, Goto, Typing, FlowTypes
  <2> QED BY <2>1, HoldingStays
<1>6. Sheet(r)' + Holding(t, r)' = Sheet(r) + Holding(t, r)
  <2> DEFINE h == IF r = s THEN 1 ELSE 0
  <2>1. Holding(t, r)' - Holding(t, r) = 0 - h
    BY <1>3, <1>4 DEF Give, Goto, Typing, FlowTypes, Holding, Taking, Returning
  <2>2. Units(r)' - Units(r) = h
    <3>1. held'[p][r] = held[p][r] + h
      BY <1>4 DEF Typing, ProcTypes
    <3>2. Units(r)' = Units(r) + held'[p][r] - held[p][r]
      BY <1>1, <1>4, UnitsChange DEF Typing, ProcTypes
    <3>3. Units(r) \in Int
      BY BookTypes
    <3> QED BY <1>4, <3>1, <3>2, <3>3
  <2>3. qty' = qty /\ queue' = queue /\ lost' = lost /\ extra' = extra
    BY DEF Give, countVars
  <2>4. 0 + h + 0 + 0 - 0 + (0 - h) = 0
    OBVIOUS
  <2> HIDE DEF h
  <2> QED BY <1>1, <2>1, <2>2, <2>3, <2>4, PlacesStay, SheetMoves
<1> QED BY <1>1, <1>2, <1>5, <1>6, BooksMove

\* A pcb that goes takes its units with it.
LEMMA LeaveBooks ==
  ASSUME Typing, Balanced, Typing', NEW t \in Thread, Leave(who[t]),
         pc[t] \in {"expel", "loop"}, pc'[t] \in {"idle", "prompt", "loop"},
         \A u \in Thread : u # t => pc'[u] = pc[u] /\ res'[u] = res[u],
         UNCHANGED <<qty, queue, extra>>
  PROVE  Balanced'
<1> SUFFICES ASSUME NEW r \in Resource PROVE Books(r)'
  BY DEF Balanced
<1>1. PICK u \in Thread : u # t
  BY DEF Thread
<1>2. PICK p \in Process : p = who[t]
  BY DEF Typing, PcOK, Fits
<1>3. /\ held[p][r] \in Nat /\ held' = [held EXCEPT ![p] = Nothing]
      /\ lost'[r] = lost[r] + held[p][r]
  BY <1>2, BookTypes DEF Leave
<1>4. Holding(u, r)' = Holding(u, r)
  BY <1>1, HoldingStays
<1>5. Sheet(r)' + Holding(t, r)' = Sheet(r) + Holding(t, r)
  <2>1. Holding(t, r) = 0 /\ Holding(t, r)' = 0
    BY DEF Holding, Taking, Returning
  <2>2. Holding(t, r)' - Holding(t, r) = 0
    BY <2>1
  <2>3. PICK h \in Int : h = held[p][r]
    BY <1>3
  <2>4. Units(r)' - Units(r) = 0 - h
    <3>1. held'[p][r] = 0
      BY <1>3 DEF Typing, ProcTypes, Nothing
    <3>2. Units(r)' = Units(r) + held'[p][r] - held[p][r]
      BY <1>3, UnitsChange DEF Typing, ProcTypes
    <3>3. Units(r) \in Int
      BY BookTypes
    <3> QED BY <2>3, <3>1, <3>2, <3>3
  <2>5. lost'[r] - lost[r] = h
    BY <1>3, <2>3, BookTypes
  <2>6. 0 + (0 - h) + 0 + h - 0 + 0 = 0
    OBVIOUS
  <2> QED BY <2>2, <2>4, <2>5, <2>6, PlacesStay, SheetMoves
<1> QED BY <1>1, <1>4, <1>5, BooksMove DEF Balanced

LEMMA ExpelBooks ==
  ASSUME Typing, Balanced, NEW t \in Thread, Expel(t)
  PROVE  Balanced'
<1>1. pc[t] = "expel" /\ Leave(who[t]) /\ UNCHANGED <<qty, queue, extra>>
  BY DEF Expel
<1>2. t = "console" => after[t] = "loop"
  BY <1>1 DEF Typing, PcOK, Fits
<1>3. /\ pc'[t] \in {"idle", "prompt", "loop"}
      /\ \A u \in Thread : u # t => pc'[u] = pc[u] /\ res'[u] = res[u]
  BY <1>2 DEF Expel, StpDone, Goto, Typing, FlowTypes, Thread
<1> QED BY <1>1, <1>3, ExpelTyping, LeaveBooks

LEMMA FinishBooks ==
  ASSUME Typing, Balanced, NEW t \in Thread, Finish(t)
  PROVE  Balanced'
<1>1. pc[t] = "loop" /\ Leave(who[t]) /\ UNCHANGED <<qty, queue, extra>>
  BY DEF Finish
<1>2. /\ pc'[t] \in {"idle", "prompt", "loop"}
      /\ \A u \in Thread : u # t => pc'[u] = pc[u] /\ res'[u] = res[u]
  BY DEF Finish, Goto, Typing, FlowTypes
<1> QED BY <1>1, <1>2, FinishTyping, LeaveBooks

LEMMA NextBooks == Typing /\ Balanced /\ [Next]_vars => Balanced'
<1> SUFFICES ASSUME Typing, Balanced, [Next]_vars PROVE Balanced'
  OBVIOUS
<1>1. CASE Next
  BY <1>1, DispatchBooks, WaitBooks, PreemptBooks, GrantBooks, EnqueueBooks, BlockBooks,
     MarkBooks, BadNameBooks, ExitBooks, LoopBooks, KillFindBooks, KillJudgeBooks,
     KillStartBooks, SignalBooks, ReleaseNextBooks, DropBooks, PopBooks, FindBooks,
     GiveBooks, WakeBooks, ExpelBooks, FinishBooks DEF Next, Releasing
<1>2. CASE UNCHANGED vars
  <2>1. \A u \in Thread : \A r \in Resource : Holding(u, r)' = Holding(u, r)
    BY <1>2 DEF vars, flowVars, procVars, Holding, Taking, Returning
  <2> QED BY <1>2, <2>1, BooksStay DEF vars, countVars, procVars
<1> QED BY <1>1, <1>2

LEMMA InitBooks == Init => Balanced
<1> SUFFICES ASSUME Init, NEW r \in Resource PROVE Books(r)
  BY DEF Balanced
<1>1. Typing
  BY InitTyping
<1>2. Units(r) = 0
  <2>1. Shares(held, r, Process) = {}
    BY DEF Init, Shares, Share, Nothing
  <2> QED BY <1>1, <2>1, BookTypes, FS_EmptySet DEF Amount
<1>3. Holding("stp", r) = 0 /\ Holding("console", r) = 0
  BY DEF Init, Holding, Taking, Returning, Thread
<1>4. qty[r] = MaxQty[r] /\ lost[r] = 0 /\ extra[r] = 0 /\ Len(queue[r]) = 0
  BY DEF Init, Nothing
<1> QED BY <1>1, <1>2, <1>3, <1>4, BookTypes DEF Books, Sheet

LEMMA AlwaysBooks == Spec => []Balanced
<1>1. Init => Balanced
  BY InitBooks
<1>2. Typing /\ Balanced /\ [Next]_vars => Balanced'
  BY NextBooks
<1> QED BY <1>1, <1>2, AlwaysTyping, PTL DEF Spec

\* Whatever WAITs, SIGNALs, exits and kills interleave, crossed kills included,
\* every unit is accounted for.
THEOREM UnitsConserved == Spec => []Conserved
<1>1. Typing /\ Balanced => Conserved
  BY BooksConserve DEF Balanced
<1> QED BY <1>1, AlwaysTyping, AlwaysBooks, PTL

------------------------------------------------------------------------------
(* Without forged SIGNALs and crossed kills nothing is refused.            *)

LEMMA NotRefused ==
  ASSUME Typing, Kept, Tidy, Balanced, NEW t \in Thread, pc[t] \in {"cpu", "loop"},
         NEW p \in Process, p = who[t], NEW r \in Resource, held[p][r] > 0
  PROVE  qty[r] + 1 <= MaxQty[r]
<1>1. PICK u \in Thread : u # t
  BY DEF Thread
<1>2. Holding(t, r) = 0
  BY DEF Holding, Taking, Returning
<1>3. Sheet(r) + Holding(u, r) = MaxQty[r]
  <2>1. Sheet(r) + Holding("stp", r) + Holding("console", r) = MaxQty[r]
    BY DEF Balanced, Books
  <2>2. PICK n \in Int : n = Sheet(r)
    <3>1. /\ qty[r] \in Int /\ Units(r) \in Int /\ Len(queue[r]) \in Int
          /\ lost[r] \in Int /\ extra[r] \in Int
      BY BookTypes
    <3>2. PICK m \in Int : m = qty[r] + Units(r) + Len(queue[r])
      BY <3>1
    <3>3. m + lost[r] - extra[r] \in Int
      BY <3>1
    <3> QED BY <3>2, <3>3 DEF Sheet
  <2>3. Holding(u, r) \in Int
    BY DEF Holding, Taking, Returning
  <2> QED BY <1>1, <1>2, <2>1, <2>2, <2>3 DEF Thread
<1>4. Units(r) + Holding(u, r) >= 1
  <2>1. held \in Holdings /\ Units(r) = Amount(held, r, Process) /\ Units(r) \in Nat
    BY BookTypes DEF Typing, ProcTypes, Holdings
  <2>2. held[p][r] \in Nat /\ held[p][r] <= Units(r)
    BY <2>1, BookTypes, AmountBounds
  <2>3. CASE Returning(u, r) = 1
    <3>1. pc[u] \in {"drop", "dropWake"} /\ held[who[u]][r] > 0 /\ who[u] \in Process
      BY <2>3 DEF Returning, Typing, PcOK, Fits, Tidy, TidyAt
    <3>2. who[u] # p
      BY <1>1, <3>1 DEF Kept, WorkFree, Working, ReleasePC, Killing, Typing, PcOK, Fits, StpPC,
         ConsolePC, Thread
    <3>3. held[p][r] + held[who[u]][r] <= Units(r)
      BY <2>1, <3>1, <3>2, AmountBounds
    <3>4. Units(r) >= 2 /\ Taking(u, r) = 0
      BY <2>1, <2>2, <3>1, <3>3, BookTypes DEF Taking
    <3> QED BY <2>1, <2>3, <3>4 DEF Holding
  <2>4. CASE Returning(u, r) = 0
    <3>1. Taking(u, r) \in 0..1
      BY DEF Taking
    <3> QED BY <2>1, <2>2, <2>4, <3>1 DEF Holding
  <2> QED BY <2>3, <2>4 DEF Returning
<1>5. PICK a \in Int, b \in Int, c \in Nat, d \in Nat, h \in Int, m \in Int :
        /\ a = qty[r] /\ b = Units(r) /\ c = Len(queue[r]) /\ d = lost[r]
        /\ h = Holding(u, r) /\ m = MaxQty[r]
  <2>1. /\ qty[r] \in Int /\ Units(r) \in Int /\ Len(queue[r]) \in Nat
        /\ lost[r] \in Nat /\ MaxQty[r] \in Int
    BY BookTypes
  <2>2. Holding(u, r) \in Int
    BY DEF Holding, Taking, Returning
  <2> QED BY <2>1, <2>2
<1>6. a + b + c + d - 0 + h = m /\ b + h >= 1
  BY <1>3, <1>4, <1>5 DEF Sheet, Tidy, Nothing
<1>7. a + 1 <= m
  BY <1>6
<1> QED BY <1>5, <1>7

\* A step of thread t that moves no unit out of a process and ends none.
LEMMA TidyStays ==
  ASSUME Typing, Tidy, NEW t \in Thread, UNCHANGED <<extra, exits, listed>>,
         \A p \in Process : \A r \in Resource : held[p][r] > 0 => held'[p][r] > 0,
         \A u \in Thread : u # t => /\ pc'[u] = pc[u] /\ who'[u] = who[u]
                                    /\ res'[u] = res[u] /\ after'[u] = after[u],
         TidyAt(t)'
  PROVE  Tidy'
<1>1. ASSUME NEW u \in Thread, u # t PROVE TidyAt(u)'
  <2>1. /\ pc'[u] = pc[u] /\ who'[u] = who[u] /\ res'[u] = res[u] /\ after'[u] = after[u]
        /\ TidyAt(u) /\ listed' = listed
    BY <1>1 DEF Tidy
  <2>2. u = "console" => (Killing' <=> Killing)
    BY <2>1 DEF Killing
  <2>3. Exiting(u)' <=> Exiting(u)
    BY <2>1 DEF Exiting
  <2>4. ASSUME pc[u] \in {"drop", "dropWake"} PROVE held'[who[u]][res[u]] > 0
    <3>1. who[u] \in Process /\ res[u] \in Resource /\ held[who[u]][res[u]] > 0
      BY <2>1, <2>4 DEF TidyAt, Typing, PcOK, Fits, ResPC, ReleasePC
    <3> QED BY <3>1
  <2> QED BY <2>1, <2>2, <2>3, <2>4 DEF TidyAt
<1> QED BY <1>1 DEF Tidy, Nothing

LEMMA DispatchTidy ==
  ASSUME Typing, Kept, Tidy, NEW p \in Process, Dispatch(p)
  PROVE  Tidy'
<1>1. UNCHANGED <<extra, exits, listed>> /\ "stp" \in Thread
  BY DEF Dispatch, countVars, procVars, Thread
<1>2. ASSUME NEW q \in Process, NEW s \in Resource, held[q][s] > 0
      PROVE  held'[q][s] > 0
  BY <1>2 DEF Dispatch, procVars
<1>3. \A u \in Thread : u # "stp" => /\ pc'[u] = pc[u] /\ who'[u] = who[u]
                                  /\ res'[u] = res[u] /\ after'[u] = after[u]
  BY DEF Dispatch, Goto, Typing, FlowTypes
<1>4. TidyAt("stp") /\ Fits("stp", pc["stp"], who["stp"], res["stp"], popped["stp"], after["stp"])
  BY <1>1 DEF Tidy, Typing, PcOK
<1>5. TidyAt("stp")'
  BY <1>4 DEF Dispatch, Goto, procVars, countVars, TidyAt, Fits, Kept, Present, Killing,
     Exiting, Releasers, ReleasePC, Typing, FlowTypes, ProcTypes, Thread
<1> QED BY <1>1, <1>2, <1>3, <1>5, TidyStays

LEMMA LoopTidy ==
  ASSUME Typing, Kept, Tidy, Loop
  PROVE  Tidy'
<1>1. UNCHANGED <<extra, exits, listed>> /\ "stp" \in Thread
  BY DEF Loop, StpDone, countVars, procVars, Thread
<1>2. ASSUME NEW q \in Process, NEW s \in Resource, held[q][s] > 0
      PROVE  held'[q][s] > 0
  BY <1>2 DEF Loop, StpDone, procVars
<1>3. \A u \in Thread : u # "stp" => /\ pc'[u] = pc[u] /\ who'[u] = who[u]
                                  /\ res'[u] = res[u] /\ after'[u] = after[u]
  BY DEF Loop, StpDone, Goto, Typing, FlowTypes
<1>4. TidyAt("stp") /\ Fits("stp", pc["stp"], who["stp"], res["stp"], popped["stp"], after["stp"])
  BY <1>1 DEF Tidy, Typing, PcOK
<1>5. TidyAt("stp")'
  BY <1>4 DEF Loop, StpDone, Goto, procVars, countVars, TidyAt, Fits, Kept, Present, Killing,
     Exiting, Releasers, ReleasePC, Typing, FlowTypes, ProcTypes, Thread
<1> QED BY <1>1, <1>2, <1>3, <1>5, TidyStays

LEMMA PreemptTidy ==
  ASSUME Typing, Kept, Tidy, Preempt
  PROVE  Tidy'
<1>1. UNCHANGED <<extra, exits, listed>> /\ "stp" \in Thread
  BY DEF Preempt, MakeReady, StpDone, countVars, procVars, Thread
<1>2. ASSUME NEW q \in Process, NEW s \in Resource, held[q][s] > 0
      PROVE  held'[q][s] > 0
  BY <1>2 DEF Preempt, MakeReady, StpDone, procVars
<1>3. \A u \in Thread : u # "stp" => /\ pc'[u] = pc[u] /\ who'[u] = who[u]
                                  /\ res'[u] = res[u] /\ after'[u] = after[u]
  BY DEF Preempt, MakeReady, StpDone, Goto, Typing, FlowTypes
<1>4. TidyAt("stp") /\ Fits("stp", pc["stp"], who["stp"], res["stp"], popped["stp"], after["stp"])
  BY <1>1 DEF Tidy, Typing, PcOK
<1>5. TidyAt("stp")'
  BY <1>4 DEF Preempt, MakeReady, StpDone, Goto, procVars, countVars, TidyAt, Fits, Kept, Present, Killing,
     Exiting, Releasers, ReleasePC, Typing, FlowTypes, ProcTypes, Thread
<1> QED BY <1>1, <1>2, <1>3, <1>5, TidyStays

LEMMA WaitTidy ==
  ASSUME Typing, Kept, Tidy, NEW r \in Resource, Wait(r)
  PROVE  Tidy'
<1>1. UNCHANGED <<extra, exits, listed>> /\ "stp" \in Thread
  BY DEF Wait, countVars, procVars, Thread
<1>2. ASSUME NEW q \in Process, NEW s \in Resource, held[q][s] > 0
      PROVE  held'[q][s] > 0
  BY <1>2 DEF Wait, procVars
<1>3. \A u \in Thread : u # "stp" => /\ pc'[u] = pc[u] /\ who'[u] = who[u]
                                  /\ res'[u] = res[u] /\ after'[u] = after[u]
  BY DEF Wait, Goto, Typing, FlowTypes
<1>4. TidyAt("stp") /\ Fits("stp", pc["stp"], who["stp"], res["stp"], popped["stp"], after["stp"])
  BY <1>1 DEF Tidy, Typing, PcOK
<1>5. TidyAt("stp")'
  BY <1>4 DEF Wait, Goto, procVars, countVars, TidyAt, Fits, Kept, Present, Killing,
     Exiting, Releasers, ReleasePC, Typing, FlowTypes, ProcTypes, Thread
<1> QED BY <1>1, <1>2, <1>3, <1>5, TidyStays

LEMMA GrantTidy ==
  ASSUME Typing, Kept, Tidy, Grant
  PROVE  Tidy'
<1>1. UNCHANGED <<extra, exits, listed>> /\ "stp" \in Thread
  BY DEF Grant, Assign, MakeReady, StpDone, countVars, procVars, Thread
<1>2. ASSUME NEW q \in Process, NEW s \in Resource, held[q][s] > 0
      PROVE  held'[q][s] > 0
  <2>1. held \in Holdings /\ held[q][s] \in Nat
    BY BookTypes DEF Typing, ProcTypes, Holdings
  <2>2. held'[q][s] = held[q][s] \/ held'[q][s] = held[q][s] + 1
    BY <2>1 DEF Grant, Assign, Current, Holdings
  <2> QED BY <1>2, <2>1, <2>2
<1>3. \A u \in Thread : u # "stp" => /\ pc'[u] = pc[u] /\ who'[u] = who[u]
                                  /\ res'[u] = res[u] /\ after'[u] = after[u]
  BY DEF Grant, Assign, MakeReady, StpDone, Goto, Typing, FlowTypes
<1>4. TidyAt("stp") /\ Fits("stp", pc["stp"], who["stp"], res["stp"], popped["stp"], after["stp"])
  BY <1>1 DEF Tidy, Typing, PcOK
<1>5. TidyAt("stp")'
  BY <1>4 DEF Grant, Assign, MakeReady, StpDone, Goto, procVars, countVars, TidyAt, Fits, Kept, Present, Killing,
     Exiting, Releasers, ReleasePC, Typing, FlowTypes, ProcTypes, Thread
<1> QED BY <1>1, <1>2, <1>3, <1>5, TidyStays

LEMMA EnqueueTidy ==
  ASSUME Typing, Kept, Tidy, Enqueue
  PROVE  Tidy'
<1>1. UNCHANGED <<extra, exits, listed>> /\ "stp" \in Thread
  BY DEF Enqueue, countVars, procVars, Thread
<1>2. ASSUME NEW q \in Process, NEW s \in Resource, held[q][s] > 0
      PROVE  held'[q][s] > 0
  BY <1>2 DEF Enqueue, procVars
<1>3. \A u \in Thread : u # "stp" => /\ pc'[u] = pc[u] /\ who'[u] = who[u]
                                  /\ res'[u] = res[u] /\ after'[u] = after[u]
  BY DEF Enqueue, Goto, Typing, FlowTypes
<1>4. TidyAt("stp") /\ Fits("stp", pc["stp"], who["stp"], res["stp"], popped["stp"], after["stp"])
  BY <1>1 DEF Tidy, Typing, PcOK
<1>5. TidyAt("stp")'
  BY <1>4 DEF Enqueue, Goto, procVars, countVars, TidyAt, Fits, Kept, Present, Killing,
     Exiting, Releasers, ReleasePC, Typing, FlowTypes, ProcTypes, Thread
<1> QED BY <1>1, <1>2, <1>3, <1>5, TidyStays

LEMMA BlockTidy ==
  ASSUME Typing, Kept, Tidy, Block
  PROVE  Tidy'
<1>1. UNCHANGED <<extra, exits, listed>> /\ "stp" \in Thread
  BY DEF Block, countVars, procVars, Thread
<1>2. ASSUME NEW q \in Process, NEW s \in Resource, held[q][s] > 0
      PROVE  held'[q][s] > 0
  BY <1>2 DEF Block, procVars
<1>3. \A u \in Thread : u # "stp" => /\ pc'[u] = pc[u] /\ who'[u] = who[u]
                                  /\ res'[u] = res[u] /\ after'[u] = after[u]
  BY DEF Block, Goto, Typing, FlowTypes
<1>4. TidyAt("stp") /\ Fits("stp", pc["stp"], who["stp"], res["stp"], popped["stp"], after["stp"])
  BY <1>1 DEF Tidy, Typing, PcOK
<1>5. TidyAt("stp")'
  BY <1>4 DEF Block, Goto, procVars, countVars, TidyAt, Fits, Kept, Present, Killing,
     Exiting, Releasers, ReleasePC, Typing, FlowTypes, ProcTypes, Thread
<1> QED BY <1>1, <1>2, <1>3, <1>5, TidyStays

LEMMA MarkTidy ==
  ASSUME Typing, Kept, Tidy, Mark
  PROVE  Tidy'
<1>1. UNCHANGED <<extra, exits, listed>> /\ "stp" \in Thread
  BY DEF Mark, StpDone, countVars, procVars, Thread
<1>2. ASSUME NEW q \in Process, NEW s \in Resource, held[q][s] > 0
      PROVE  held'[q][s] > 0
  BY <1>2 DEF Mark, StpDone, procVars
<1>3. \A u \in Thread : u # "stp" => /\ pc'[u] = pc[u] /\ who'[u] = who[u]
                                  /\ res'[u] = res[u] /\ after'[u] = after[u]
  BY DEF Mark, StpDone, Goto, Typing, FlowTypes
<1>4. TidyAt("stp") /\ Fits("stp", pc["stp"], who["stp"], res["stp"], popped["stp"], after["stp"])
  BY <1>1 DEF Tidy, Typing, PcOK
<1>5. TidyAt("stp")'
  BY <1>4 DEF Mark, StpDone, Goto, procVars, countVars, TidyAt, Fits, Kept, Present, Killing,
     Exiting, Releasers, ReleasePC, Typing, FlowTypes, ProcTypes, Thread
<1> QED BY <1>1, <1>2, <1>3, <1>5, TidyStays

LEMMA BadNameTidy ==
  ASSUME Typing, Kept, Tidy, BadName
  PROVE  Tidy'
<1>1. UNCHANGED <<extra, exits, listed>> /\ "stp" \in Thread
  BY DEF BadName, countVars, procVars, Thread
<1>2. ASSUME NEW q \in Process, NEW s \in Resource, held[q][s] > 0
      PROVE  held'[q][s] > 0
  BY <1>2 DEF BadName, procVars
<1>3. \A u \in Thread : u # "stp" => /\ pc'[u] = pc[u] /\ who'[u] = who[u]
                                  /\ res'[u] = res[u] /\ after'[u] = after[u]
  BY DEF BadName, Goto, Typing, FlowTypes
<1>4. TidyAt("stp") /\ Fits("stp", pc["stp"], who["stp"], res["stp"], popped["stp"], after["stp"])
  BY <1>1 DEF Tidy, Typing, PcOK
<1>5. TidyAt("stp")'
  BY <1>4 DEF BadName, Goto, procVars, countVars, TidyAt, Fits, Kept, Present, Killing,
     Exiting, Releasers, ReleasePC, Typing, FlowTypes, ProcTypes, Thread
<1> QED BY <1>1, <1>2, <1>3, <1>5, TidyStays

LEMMA ExitTidy ==
  ASSUME Typing, Kept, Tidy, Exit
  PROVE  Tidy'
<1>1. UNCHANGED <<extra, exits, listed>> /\ "stp" \in Thread
  BY DEF Exit, StartExit, Running, Current, countVars, procVars, Thread
<1>2. ASSUME NEW q \in Process, NEW s \in Resource, held[q][s] > 0
      PROVE  held'[q][s] > 0
  BY <1>2 DEF Exit, StartExit, Running, Current, procVars
<1>3. \A u \in Thread : u # "stp" => /\ pc'[u] = pc[u] /\ who'[u] = who[u]
                                  /\ res'[u] = res[u] /\ after'[u] = after[u]
  BY DEF Exit, StartExit, Running, Current, Goto, Typing, FlowTypes
<1>4. TidyAt("stp") /\ Fits("stp", pc["stp"], who["stp"], res["stp"], popped["stp"], after["stp"])
  BY <1>1 DEF Tidy, Typing, PcOK
<1>5. TidyAt("stp")'
  BY <1>4 DEF Exit, StartExit, Running, Current, Goto, procVars, countVars, TidyAt, Fits, Kept, Present, Killing,
     Exiting, Releasers, ReleasePC, Typing, FlowTypes, ProcTypes, Thread
<1> QED BY <1>1, <1>2, <1>3, <1>5, TidyStays

LEMMA KillFindTidy ==
  ASSUME Typing, Kept, Tidy, NEW p \in Process, KillFind(p)
  PROVE  Tidy'
<1>1. UNCHANGED <<extra, exits, listed>> /\ "console" \in Thread
  BY DEF KillFind, Alive, countVars, procVars, Thread
<1>2. ASSUME NEW q \in Process, NEW s \in Resource, held[q][s] > 0
      PROVE  held'[q][s] > 0
  BY <1>2 DEF KillFind, Alive, procVars
<1>3. \A u \in Thread : u # "console" => /\ pc'[u] = pc[u] /\ who'[u] = who[u]
                                  /\ res'[u] = res[u] /\ after'[u] = after[u]
  BY DEF KillFind, Alive, Goto, Typing, FlowTypes
<1>4. TidyAt("console") /\ Fits("console", pc["console"], who["console"], res["console"], popped["console"], after["console"])
  BY <1>1 DEF Tidy, Typing, PcOK
<1>5. TidyAt("console")'
  BY <1>4 DEF KillFind, Alive, Goto, procVars, countVars, TidyAt, Fits, Kept, Present, Killing,
     Exiting, Releasers, ReleasePC, Typing, FlowTypes, ProcTypes, Thread
<1> QED BY <1>1, <1>2, <1>3, <1>5, TidyStays

LEMMA KillJudgeTidy ==
  ASSUME Typing, Kept, Tidy, KillJudge, ~crossed'
  PROVE  Tidy'
<1>1. UNCHANGED <<extra, exits, listed>> /\ "console" \in Thread
  BY DEF KillJudge, Alive, countVars, procVars, Thread
<1>2. ASSUME NEW q \in Process, NEW s \in Resource, held[q][s] > 0
      PROVE  held'[q][s] > 0
  BY <1>2 DEF KillJudge, Alive, procVars
<1>3. \A u \in Thread : u # "console" => /\ pc'[u] = pc[u] /\ who'[u] = who[u]
                                  /\ res'[u] = res[u] /\ after'[u] = after[u]
  BY DEF KillJudge, Alive, Goto, Typing, FlowTypes
<1>4. TidyAt("console") /\ Fits("console", pc["console"], who["console"], res["console"], popped["console"], after["console"])
  BY <1>1 DEF Tidy, Typing, PcOK
<1>5. TidyAt("console")'
  BY <1>4 DEF KillJudge, Alive, Goto, procVars, countVars, TidyAt, Fits, Kept, Present, Killing,
     Exiting, Releasers, ReleasePC, Typing, FlowTypes, ProcTypes, Thread
<1> QED BY <1>1, <1>2, <1>3, <1>5, TidyStays

LEMMA KillStartTidy ==
  ASSUME Typing, Kept, Tidy, KillStart
  PROVE  Tidy'
<1>1. UNCHANGED <<extra, exits, listed>> /\ "console" \in Thread
  BY DEF KillStart, StartExit, countVars, procVars, Thread
<1>2. ASSUME NEW q \in Process, NEW s \in Resource, held[q][s] > 0
      PROVE  held'[q][s] > 0
  BY <1>2 DEF KillStart, StartExit, procVars
<1>3. \A u \in Thread : u # "console" => /\ pc'[u] = pc[u] /\ who'[u] = who[u]
                                  /\ res'[u] = res[u] /\ after'[u] = after[u]
  BY DEF KillStart, StartExit, Goto, Typing, FlowTypes
<1>4. TidyAt("console") /\ Fits("console", pc["console"], who["console"], res["console"], popped["console"], after["console"])
  BY <1>1 DEF Tidy, Typing, PcOK
<1>5. TidyAt("console")'
  BY <1>4 DEF KillStart, StartExit, Goto, procVars, countVars, TidyAt, Fits, Kept, Present, Killing,
     Exiting, Releasers, ReleasePC, Typing, FlowTypes, ProcTypes, Thread
<1> QED BY <1>1, <1>2, <1>3, <1>5, TidyStays

LEMMA PopTidy ==
  ASSUME Typing, Kept, Tidy, NEW t \in Thread, Pop(t)
  PROVE  Tidy'
<1>1. UNCHANGED <<extra, exits, listed>>
  BY DEF Pop, countVars, procVars, Thread
<1>2. ASSUME NEW q \in Process, NEW s \in Resource, held[q][s] > 0
      PROVE  held'[q][s] > 0
  BY <1>2 DEF Pop, procVars
<1>3. \A u \in Thread : u # t => /\ pc'[u] = pc[u] /\ who'[u] = who[u]
                                  /\ res'[u] = res[u] /\ after'[u] = after[u]
  BY DEF Pop, Goto, Typing, FlowTypes
<1>4. TidyAt(t) /\ Fits(t, pc[t], who[t], res[t], popped[t], after[t])
  BY <1>1 DEF Tidy, Typing, PcOK
<1>5. TidyAt(t)'
  BY <1>4 DEF Pop, Goto, procVars, countVars, TidyAt, Fits, Kept, Present, Killing,
     Exiting, Releasers, ReleasePC, Typing, FlowTypes, ProcTypes, Thread
<1> QED BY <1>1, <1>2, <1>3, <1>5, TidyStays

LEMMA FindTidy ==
  ASSUME Typing, Kept, Tidy, NEW t \in Thread, Find(t)
  PROVE  Tidy'
<1>1. UNCHANGED <<extra, exits, listed>>
  BY DEF Find, Alive, countVars, procVars, Thread
<1>2. ASSUME NEW q \in Process, NEW s \in Resource, held[q][s] > 0
      PROVE  held'[q][s] > 0
  BY <1>2 DEF Find, Alive, procVars
<1>3. \A u \in Thread : u # t => /\ pc'[u] = pc[u] /\ who'[u] = who[u]
                                  /\ res'[u] = res[u] /\ after'[u] = after[u]
  BY DEF Find, Alive, Goto, Typing, FlowTypes
<1>4. TidyAt(t) /\ Fits(t, pc[t], who[t], res[t], popped[t], after[t])
  BY <1>1 DEF Tidy, Typing, PcOK
<1>5. TidyAt(t)'
  BY <1>4 DEF Find, Alive, Goto, procVars, countVars, TidyAt, Fits, Kept, Present, Killing,
     Exiting, Releasers, ReleasePC, Typing, FlowTypes, ProcTypes, Thread
<1> QED BY <1>1, <1>2, <1>3, <1>5, TidyStays

LEMMA GiveTidy ==
  ASSUME Typing, Kept, Tidy, NEW t \in Thread, Give(t)
  PROVE  Tidy'
<1>1. UNCHANGED <<extra, exits, listed>>
  BY DEF Give, Assign, countVars, procVars, Thread
<1>2. ASSUME NEW q \in Process, NEW s \in Resource, held[q][s] > 0
      PROVE  held'[q][s] > 0
  <2>1. held \in Holdings /\ held[q][s] \in Nat
    BY BookTypes DEF Typing, ProcTypes, Holdings
  <2>2. held'[q][s] = held[q][s] \/ held'[q][s] = held[q][s] + 1
    BY <2>1 DEF Give, Assign, Current, Holdings
  <2> QED BY <1>2, <2>1, <2>2
<1>3. \A u \in Thread : u # t => /\ pc'[u] = pc[u] /\ who'[u] = who[u]
                                  /\ res'[u] = res[u] /\ after'[u] = after[u]
  BY DEF Give, Assign, Goto, Typing, FlowTypes
<1>4. TidyAt(t) /\ Fits(t, pc[t], who[t], res[t], popped[t], after[t])
  BY <1>1 DEF Tidy, Typing, PcOK
<1>5. TidyAt(t)'
  BY <1>4 DEF Give, Assign, Goto, procVars, countVars, TidyAt, Fits, Kept, Present, Killing,
     Exiting, Releasers, ReleasePC, Typing, FlowTypes, ProcTypes, Thread
<1> QED BY <1>1, <1>2, <1>3, <1>5, TidyStays

LEMMA WakeTidy ==
  ASSUME Typing, Kept, Tidy, NEW t \in Thread, Wake(t)
  PROVE  Tidy'
<1>1. UNCHANGED <<extra, exits, listed>>
  BY DEF Wake, countVars, procVars, Thread
<1>2. ASSUME NEW q \in Process, NEW s \in Resource, held[q][s] > 0
      PROVE  held'[q][s] > 0
  BY <1>2 DEF Wake, procVars
<1>3. \A u \in Thread : u # t => /\ pc'[u] = pc[u] /\ who'[u] = who[u]
                                  /\ res'[u] = res[u] /\ after'[u] = after[u]
  BY DEF Wake, Goto, Typing, FlowTypes
<1>4. TidyAt(t) /\ Fits(t, pc[t], who[t], res[t], popped[t], after[t])
  BY <1>1 DEF Tidy, Typing, PcOK
<1>5. TidyAt(t)'
  BY <1>4 DEF Wake, Goto, procVars, countVars, TidyAt, Fits, Kept, Present, Killing,
     Exiting, Releasers, ReleasePC, Typing, FlowTypes, ProcTypes, Thread
<1> QED BY <1>1, <1>2, <1>3, <1>5, TidyStays

\* Drop takes a unit that is there, and no other thread's.
LEMMA DropTidy ==
  ASSUME Typing, Kept, Tidy, NEW t \in Thread, Drop(t)
  PROVE  Tidy'
<1>1. /\ pc[t] \in {"drop", "dropWake"} /\ held[who[t]][res[t]] > 0 /\ TidyAt(t)
      /\ who[t] \in Process /\ res[t] \in Resource
  BY DEF Drop, Tidy, TidyAt, Typing, PcOK, Fits, ResPC, ReleasePC
<1>2. /\ extra' = extra /\ held' = [held EXCEPT ![who[t]][res[t]] = @ - 1]
      /\ UNCHANGED <<who, res, after, exits, listed>>
      /\ Goto(t, IF pc[t] = "dropWake" THEN "pop" ELSE after[t])
  BY <1>1 DEF Drop
<1>3. TidyAt(t)'
  BY <1>1, <1>2 DEF TidyAt, Goto, Killing, Exiting, Releasers, ReleasePC, Typing,
     FlowTypes, PcOK, Fits, Thread
<1>4. ASSUME NEW u \in Thread, u # t PROVE TidyAt(u)'
  <2>1. TidyAt(u) /\ pc'[u] = pc[u]
    BY <1>2, <1>4 DEF Tidy, Goto, Typing, FlowTypes
  <2>2. ASSUME pc[u] \in {"drop", "dropWake"} PROVE held'[who[u]] = held[who[u]]
    <3>1. who[u] # who[t] /\ who[u] \in Process
      BY <1>1, <1>4, <2>2 DEF Kept, WorkFree, Working, ReleasePC, Killing, Typing, PcOK,
         Fits, Thread
    <3> QED BY <1>2, <3>1 DEF Typing, ProcTypes
  <2>3. Exiting(u)' <=> Exiting(u)
    BY <1>2, <2>1 DEF Exiting
  <2> QED BY <1>2, <2>1, <2>2, <2>3 DEF TidyAt, Killing
<1> QED BY <1>2, <1>3, <1>4 DEF Tidy, Nothing

\* A unit the process holds is accepted.
LEMMA ReleaseTidy ==
  ASSUME Typing, Kept, Tidy, Balanced, NEW t \in Thread, pc[t] \in {"cpu", "loop"},
         who[t] \in Process, NEW r \in Resource, Release(t, r), held[who[t]][r] > 0,
         UNCHANGED <<exits, listed, held, who>>, t = "console" => Killing,
         after'[t] = IF pc[t] = "cpu" THEN "run" ELSE "loop",
         \A u \in Thread : u # t => after'[u] = after[u]
  PROVE  Tidy'
<1>1. qty[r] + 1 <= MaxQty[r]
  BY NotRefused
<1>2. ~(qty[r] + 1 > MaxQty[r])
  BY <1>1, BookTypes
<1>3. /\ extra' = extra /\ res' = [res EXCEPT ![t] = r]
      /\ \E l \in {"drop", "dropWake"} : pc' = [pc EXCEPT ![t] = l]
  BY <1>2 DEF Release, Goto
<1>4. TidyAt(t) /\ res'[t] = r /\ pc'[t] \in {"drop", "dropWake"}
  BY <1>3 DEF Tidy, Typing, FlowTypes
<1>5. TidyAt(t)'
  BY <1>4 DEF TidyAt, Exiting, Killing, Releasers, ReleasePC
<1>6. ASSUME NEW q \in Process, NEW s \in Resource, held[q][s] > 0
      PROVE  held'[q][s] > 0
  BY <1>6
<1>7. \A u \in Thread : u # t => /\ pc'[u] = pc[u] /\ who'[u] = who[u]
                                /\ res'[u] = res[u] /\ after'[u] = after[u]
  BY <1>3 DEF Typing, FlowTypes
<1> QED BY <1>3, <1>5, <1>6, <1>7, TidyStays

LEMMA SignalTidy ==
  ASSUME Typing, Kept, Tidy, Balanced, NEW r \in Resource, Signal(r), forged' = 0
  PROVE  Tidy'
<1>1. /\ held[who["stp"]][r] > 0 /\ who["stp"] \in Process
      /\ pc["stp"] = "cpu" /\ Release("stp", r) /\ "stp" \in Thread
  BY DEF Signal, Running, Current, Typing, CountTypes, PcOK, Fits, Thread
<1>2. UNCHANGED <<exits, listed, held, who>> /\ after' = [after EXCEPT !["stp"] = "run"]
  BY DEF Signal, procVars
<1>3. /\ after'["stp"] = IF pc["stp"] = "cpu" THEN "run" ELSE "loop"
      /\ \A u \in Thread : u # "stp" => after'[u] = after[u]
  BY <1>1, <1>2 DEF Typing, FlowTypes
<1> QED BY <1>1, <1>2, <1>3, ReleaseTidy

LEMMA ReleaseNextTidy ==
  ASSUME Typing, Kept, Tidy, Balanced, NEW t \in Thread, ReleaseNext(t)
  PROVE  Tidy'
<1>1. pc[t] = "loop" /\ who[t] \in Process /\ Exiting(t) /\ who[t] \in listed
  BY DEF ReleaseNext, Typing, PcOK, Fits, Exiting, Tidy, TidyAt
<1>2. PICK r \in Resource : todo[t][r] > 0 /\ Release(t, r)
  BY DEF ReleaseNext
<1>3. held[who[t]][r] > 0
  <2>1. todo[t][r] + Dropping(t, r) <= held[who[t]][r] /\ Dropping(t, r) = 0
    BY <1>1 DEF Kept, LoopHolds, Dropping
  <2>2. todo[t][r] \in Nat /\ held[who[t]][r] \in Nat
    BY <1>1, BookTypes DEF Typing, FlowTypes
  <2> QED BY <1>2, <2>1, <2>2
<1>4. UNCHANGED <<exits, listed, who, held, after>>
  BY DEF ReleaseNext, procVars
<1>5. after[t] = "loop" /\ (t = "console" => Killing)
  BY <1>1 DEF Kept, LoopHolds, Killing
<1> QED BY <1>1, <1>2, <1>3, <1>4, <1>5, ReleaseTidy

\* The process that leaves is there, and no other thread is working for it.
LEMMA LeaveTidy ==
  ASSUME Typing, Kept, Tidy, NEW t \in Thread, Leave(who[t]), who[t] \in listed,
         extra' = extra, pc[t] \in {"expel", "loop"}, pc'[t] = (IF t = "stp" THEN "idle" ELSE "prompt"),
         \A u \in Thread : u # t => /\ pc'[u] = pc[u] /\ who'[u] = who[u]
                                    /\ res'[u] = res[u] /\ after'[u] = after[u]
  PROVE  Tidy'
<1>1. extra' = Nothing /\ \A p \in Process : exits'[p] = IF p \in listed' THEN 0 ELSE 1
  BY DEF Tidy, Leave, Typing, ProcTypes
<1>2. TidyAt(t)'
  BY DEF TidyAt, Killing, Exiting, Releasers, ReleasePC
<1>3. ASSUME NEW u \in Thread, u # t PROVE TidyAt(u)'
  <2>1. /\ TidyAt(u) /\ pc'[u] = pc[u] /\ who'[u] = who[u] /\ res'[u] = res[u]
        /\ after'[u] = after[u] /\ (Exiting(u)' <=> Exiting(u))
    BY <1>3 DEF Tidy, Exiting
  <2>2. ASSUME (u = "console" /\ Killing) \/ Exiting(u) \/ pc[u] \in {"drop", "dropWake"}
        PROVE  who[u] # who[t]
    <3>1. CASE u = "console"
      <4>1. t = "stp" /\ pc["stp"] \in Working
        BY <1>3, <3>1 DEF Thread, Working
      <4>2. Killing
        BY <2>2, <3>1 DEF Killing, Exiting, Releasers, ReleasePC
      <4> QED BY <3>1, <4>1, <4>2 DEF Kept, WorkFree
    <3>2. CASE u = "stp"
      <4>1. t = "console" /\ Killing
        BY <1>3, <3>2 DEF Thread, Killing
      <4>2. pc["stp"] \in Working
        BY <2>2, <3>2 DEF Exiting, Releasers, ReleasePC, Working
      <4> QED BY <3>2, <4>1, <4>2 DEF Kept, WorkFree
    <3> QED BY <3>1, <3>2 DEF Thread
  <2>3. ASSUME who[u] # who[t], pc[u] \in {"drop", "dropWake"}
        PROVE  held'[who[u]] = held[who[u]]
    BY <2>3 DEF Leave, Typing, ProcTypes, PcOK, Fits
  <2> QED BY <2>1, <2>2, <2>3 DEF TidyAt, Leave, Killing
<1> QED BY <1>1, <1>2, <1>3 DEF Tidy

LEMMA ExpelTidy ==
  ASSUME Typing, Kept, Tidy, NEW t \in Thread, Expel(t)
  PROVE  Tidy'
<1>1. t = "stp" /\ after[t] = "run" /\ pc[t] = "expel"
  BY DEF Tidy, TidyAt, Expel
<1>2. who[t] \in listed
  BY <1>1 DEF Kept, Present, Releasers
<1>3. /\ pc'[t] = (IF t = "stp" THEN "idle" ELSE "prompt")
      /\ \A u \in Thread : u # t => /\ pc'[u] = pc[u] /\ who'[u] = who[u]
                                    /\ res'[u] = res[u] /\ after'[u] = after[u]
  BY <1>1 DEF Expel, StpDone, Goto, Typing, FlowTypes
<1> QED BY <1>1, <1>2, <1>3, LeaveTidy DEF Expel

LEMMA FinishTidy ==
  ASSUME Typing, Kept, Tidy, NEW t \in Thread, Finish(t)
  PROVE  Tidy'
<1>1. pc[t] = "loop" /\ who[t] \in listed
  BY DEF Finish, Tidy, TidyAt, Exiting
<1>2. /\ pc'[t] = (IF t = "stp" THEN "idle" ELSE "prompt")
      /\ \A u \in Thread : u # t => /\ pc'[u] = pc[u] /\ who'[u] = who[u]
                                    /\ res'[u] = res[u] /\ after'[u] = after[u]
  BY DEF Finish, Goto, Typing, FlowTypes
<1> QED BY <1>1, <1>2, LeaveTidy DEF Finish

\* The number of forged SIGNALs never falls.
LEMMA ForgingStays == Typing /\ [Next]_vars /\ forged' = 0 => forged = 0
<1>1. [Next]_vars => forged' = forged \/ forged' = forged + 1
  BY DEF vars, countVars, Next, Releasing, Dispatch, Loop, Preempt, Wait, Grant, Enqueue,
     Block, Mark, Signal, BadName, Exit, KillFind, KillJudge, KillStart, ReleaseNext, Drop,
     Pop, Find, Give, Wake, Expel, Finish
<1>2. Typing => forged \in Nat
  BY DEF Typing, CountTypes
<1> QED BY <1>1, <1>2

LEMMA NextClean == Typing /\ Custody /\ Balanced /\ Clean /\ [Next]_vars => Clean'
<1> SUFFICES ASSUME Typing, Kept, Tidy, Balanced, [Next]_vars, ~crossed', forged' = 0
    PROVE Tidy'
  BY CrossingStays, ForgingStays DEF Custody, Clean
<1>1. CASE Next
  BY <1>1, DispatchTidy, WaitTidy, PreemptTidy, GrantTidy, EnqueueTidy, BlockTidy,
     MarkTidy, BadNameTidy, ExitTidy, LoopTidy, KillFindTidy, KillJudgeTidy, KillStartTidy,
     SignalTidy, ReleaseNextTidy, DropTidy, PopTidy, FindTidy, GiveTidy, WakeTidy,
     ExpelTidy, FinishTidy DEF Next, Releasing
<1>2. CASE UNCHANGED vars
  BY <1>2 DEF vars, countVars, procVars, flowVars, Tidy, TidyAt, Killing, Nothing, Exiting
<1> QED BY <1>1, <1>2

LEMMA InitClean == Init => Clean
  BY DEF Init, Clean, Tidy, TidyAt, Killing, Nothing, Exiting, Releasers, ReleasePC, Thread

LEMMA AlwaysClean == Spec => [](Balanced /\ Clean)
<1>1. Init => Clean
  BY InitClean
<1>2. Typing /\ Custody /\ Balanced /\ Clean /\ [Next]_vars => Clean'
  BY NextClean
<1> QED BY <1>1, <1>2, AlwaysCustody, AlwaysBooks, PTL DEF Spec

\* As long as programs only SIGNAL what they hold and no kill crosses the planner,
\* no release is refused, no unit appears and no process is taken out twice.
THEOREM ProcessesExitOnce == Spec => []ExitsOnce
<1>1. Clean => ExitsOnce
  <2>1. ASSUME Clean, forged = 0, ~crossed, NEW p \in Process PROVE exits[p] <= 1
    BY <2>1 DEF Clean, Tidy
  <2> QED BY <2>1 DEF Clean, Tidy, ExitsOnce
<1> QED BY <1>1, AlwaysClean, PTL

------------------------------------------------------------------------------
(* Without kills: whoever waits is blocked.                                 *)

\* The console begins with a kill.
LEMMA QuiescentStays ==
  ASSUME Typing, Quiescent, [Next]_vars, kills' = 0
  PROVE  Quiescent'
<1>1. \A t \in Thread : t = "console" => pc[t] = "prompt"
  BY DEF Quiescent
<1>2. CASE UNCHANGED vars
  BY <1>2 DEF vars, flowVars, killVars, Quiescent
<1>3. CASE \E p \in Process : Dispatch(p) \/ KillFind(p)
  <2>1. CASE \E p \in Process : Dispatch(p)
    BY <2>1 DEF Quiescent, Dispatch, Goto, Typing, FlowTypes, Thread
  <2>2. CASE \E p \in Process : KillFind(p)
    BY <2>2 DEF Quiescent, KillFind
  <2> QED BY <1>3, <2>1, <2>2
<1>4. CASE \/ \E r \in Resource : Wait(r) \/ Signal(r)
           \/ Loop \/ Preempt \/ Grant \/ Enqueue \/ Block \/ Mark \/ BadName \/ Exit
           \/ KillJudge \/ KillStart
  BY <1>4 DEF Quiescent, Wait, Signal, Release, Loop, Preempt, Grant, Enqueue, Block, Mark,
     BadName, Exit, StartExit, KillJudge, KillStart, StpDone, Goto, killVars, Typing,
     FlowTypes, Thread
<1>5. CASE \E t \in Thread : Releasing(t)
  BY <1>5 DEF Quiescent, Releasing, ReleaseNext, Release, Drop, Pop, Find, Give, Wake,
     Expel, Finish, StpDone, Goto, killVars, Typing, FlowTypes, Thread
<1> QED BY <1>2, <1>3, <1>4, <1>5 DEF Next

LEMMA DispatchQueued ==
  ASSUME Typing, Kept, Quiescent, Queued, NEW p \in Process, Dispatch(p)
  PROVE  Queued'
<1>1. queue' = queue /\ pc["console"] = "prompt"
  BY DEF Dispatch, Goto, Quiescent
<1>2. pc'["stp"] # "wake"
  BY <1>1 DEF Dispatch, Goto, Typing, FlowTypes, Thread
<1>3. ASSUME NEW s \in Resource, NEW q \in ToSet(queue[s])
      PROVE  BlockedAt(q, s)'
  <2>1. q \in Process /\ Waiting(q) /\ BlockedAt(q, s)
    BY <1>3, Members DEF Typing, RestTypes, Waiting, Queued
  <2> QED BY <1>1, <2>1, ResourceAssumption DEF Dispatch, Goto, BlockedAt, Kept, WorkFree,
     Working, ReleasePC, ReadyFree, Typing, FlowTypes, ProcTypes, PcOK, Fits, Thread
<1> QED BY <1>1, <1>2, <1>3 DEF Queued

LEMMA LoopQueued ==
  ASSUME Typing, Kept, Quiescent, Queued, Loop
  PROVE  Queued'
<1>1. queue' = queue /\ pc["console"] = "prompt"
  BY DEF Loop, StpDone, procVars, Goto, Quiescent
<1>2. pc'["stp"] # "wake"
  BY <1>1 DEF Loop, StpDone, procVars, Goto, Typing, FlowTypes, Thread
<1>3. ASSUME NEW s \in Resource, NEW q \in ToSet(queue[s])
      PROVE  BlockedAt(q, s)'
  <2>1. q \in Process /\ Waiting(q) /\ BlockedAt(q, s)
    BY <1>3, Members DEF Typing, RestTypes, Waiting, Queued
  <2> QED BY <1>1, <2>1, ResourceAssumption DEF Loop, StpDone, procVars, Goto, BlockedAt, Kept, WorkFree,
     Working, ReleasePC, ReadyFree, Typing, FlowTypes, ProcTypes, PcOK, Fits, Thread
<1> QED BY <1>1, <1>2, <1>3 DEF Queued

LEMMA PreemptQueued ==
  ASSUME Typing, Kept, Quiescent, Queued, Preempt
  PROVE  Queued'
<1>1. queue' = queue /\ pc["console"] = "prompt"
  BY DEF Preempt, Running, Current, MakeReady, StpDone, Goto, Quiescent
<1>2. pc'["stp"] # "wake"
  BY <1>1 DEF Preempt, Running, Current, MakeReady, StpDone, Goto, Typing, FlowTypes, Thread
<1>3. ASSUME NEW s \in Resource, NEW q \in ToSet(queue[s])
      PROVE  BlockedAt(q, s)'
  <2>1. q \in Process /\ Waiting(q) /\ BlockedAt(q, s)
    BY <1>3, Members DEF Typing, RestTypes, Waiting, Queued
  <2> QED BY <1>1, <2>1, ResourceAssumption DEF Preempt, Running, Current, MakeReady, StpDone, Goto, BlockedAt, Kept, WorkFree,
     Working, ReleasePC, ReadyFree, Typing, FlowTypes, ProcTypes, PcOK, Fits, Thread
<1> QED BY <1>1, <1>2, <1>3 DEF Queued

LEMMA WaitQueued ==
  ASSUME Typing, Kept, Quiescent, Queued, NEW r \in Resource, Wait(r)
  PROVE  Queued'
<1>1. queue' = queue /\ pc["console"] = "prompt"
  BY DEF Wait, Running, Goto, procVars, Quiescent
<1>2. pc'["stp"] # "wake"
  BY <1>1 DEF Wait, Running, Goto, procVars, Typing, FlowTypes, Thread
<1>3. ASSUME NEW s \in Resource, NEW q \in ToSet(queue[s])
      PROVE  BlockedAt(q, s)'
  <2>1. q \in Process /\ Waiting(q) /\ BlockedAt(q, s)
    BY <1>3, Members DEF Typing, RestTypes, Waiting, Queued
  <2> QED BY <1>1, <2>1, ResourceAssumption DEF Wait, Running, Goto, procVars, BlockedAt, Kept, WorkFree,
     Working, ReleasePC, ReadyFree, Typing, FlowTypes, ProcTypes, PcOK, Fits, Thread
<1> QED BY <1>1, <1>2, <1>3 DEF Queued

LEMMA GrantQueued ==
  ASSUME Typing, Kept, Quiescent, Queued, Grant
  PROVE  Queued'
<1>1. queue' = queue /\ pc["console"] = "prompt"
  BY DEF Grant, Current, Assign, MakeReady, StpDone, Goto, Quiescent
<1>2. pc'["stp"] # "wake"
  BY <1>1 DEF Grant, Current, Assign, MakeReady, StpDone, Goto, Typing, FlowTypes, Thread
<1>3. ASSUME NEW s \in Resource, NEW q \in ToSet(queue[s])
      PROVE  BlockedAt(q, s)'
  <2>1. q \in Process /\ Waiting(q) /\ BlockedAt(q, s)
    BY <1>3, Members DEF Typing, RestTypes, Waiting, Queued
  <2> QED BY <1>1, <2>1, ResourceAssumption DEF Grant, Current, Assign, MakeReady, StpDone, Goto, BlockedAt, Kept, WorkFree,
     Working, ReleasePC, ReadyFree, Typing, FlowTypes, ProcTypes, PcOK, Fits, Thread
<1> QED BY <1>1, <1>2, <1>3 DEF Queued

LEMMA BlockQueued ==
  ASSUME Typing, Kept, Quiescent, Queued, Block
  PROVE  Queued'
<1>1. queue' = queue /\ pc["console"] = "prompt"
  BY DEF Block, Current, Goto, Quiescent
<1>2. pc'["stp"] # "wake"
  BY <1>1 DEF Block, Current, Goto, Typing, FlowTypes, Thread
<1>3. ASSUME NEW s \in Resource, NEW q \in ToSet(queue[s])
      PROVE  BlockedAt(q, s)'
  <2>1. q \in Process /\ Waiting(q) /\ BlockedAt(q, s)
    BY <1>3, Members DEF Typing, RestTypes, Waiting, Queued
  <2> QED BY <1>1, <2>1, ResourceAssumption DEF Block, Current, Goto, BlockedAt, Kept, WorkFree,
     Working, ReleasePC, ReadyFree, Typing, FlowTypes, ProcTypes, PcOK, Fits, Thread
<1> QED BY <1>1, <1>2, <1>3 DEF Queued

LEMMA MarkQueued ==
  ASSUME Typing, Kept, Quiescent, Queued, Mark
  PROVE  Queued'
<1>1. queue' = queue /\ pc["console"] = "prompt"
  BY DEF Mark, Current, StpDone, Goto, Quiescent
<1>2. pc'["stp"] # "wake"
  BY <1>1 DEF Mark, Current, StpDone, Goto, Typing, FlowTypes, Thread
<1>3. ASSUME NEW s \in Resource, NEW q \in ToSet(queue[s])
      PROVE  BlockedAt(q, s)'
  <2>1. q \in Process /\ Waiting(q) /\ BlockedAt(q, s)
    BY <1>3, Members DEF Typing, RestTypes, Waiting, Queued
  <2> QED BY <1>1, <2>1, ResourceAssumption DEF Mark, Current, StpDone, Goto, BlockedAt, Kept, WorkFree,
     Working, ReleasePC, ReadyFree, Typing, FlowTypes, ProcTypes, PcOK, Fits, Thread
<1> QED BY <1>1, <1>2, <1>3 DEF Queued

LEMMA BadNameQueued ==
  ASSUME Typing, Kept, Quiescent, Queued, BadName
  PROVE  Queued'
<1>1. queue' = queue /\ pc["console"] = "prompt"
  BY DEF BadName, Running, Goto, procVars, Quiescent
<1>2. pc'["stp"] # "wake"
  BY <1>1 DEF BadName, Running, Goto, procVars, Typing, FlowTypes, Thread
<1>3. ASSUME NEW s \in Resource, NEW q \in ToSet(queue[s])
      PROVE  BlockedAt(q, s)'
  <2>1. q \in Process /\ Waiting(q) /\ BlockedAt(q, s)
    BY <1>3, Members DEF Typing, RestTypes, Waiting, Queued
  <2> QED BY <1>1, <2>1, ResourceAssumption DEF BadName, Running, Goto, procVars, BlockedAt, Kept, WorkFree,
     Working, ReleasePC, ReadyFree, Typing, FlowTypes, ProcTypes, PcOK, Fits, Thread
<1> QED BY <1>1, <1>2, <1>3 DEF Queued

LEMMA ExitQueued ==
  ASSUME Typing, Kept, Quiescent, Queued, Exit
  PROVE  Queued'
<1>1. queue' = queue /\ pc["console"] = "prompt"
  BY DEF Exit, Running, StartExit, Goto, procVars, Quiescent
<1>2. pc'["stp"] # "wake"
  BY <1>1 DEF Exit, Running, StartExit, Goto, procVars, Typing, FlowTypes, Thread
<1>3. ASSUME NEW s \in Resource, NEW q \in ToSet(queue[s])
      PROVE  BlockedAt(q, s)'
  <2>1. q \in Process /\ Waiting(q) /\ BlockedAt(q, s)
    BY <1>3, Members DEF Typing, RestTypes, Waiting, Queued
  <2> QED BY <1>1, <2>1, ResourceAssumption DEF Exit, Running, StartExit, Goto, procVars, BlockedAt, Kept, WorkFree,
     Working, ReleasePC, ReadyFree, Typing, FlowTypes, ProcTypes, PcOK, Fits, Thread
<1> QED BY <1>1, <1>2, <1>3 DEF Queued

LEMMA DropQueued ==
  ASSUME Typing, Kept, Quiescent, Queued, NEW t \in Thread, Drop(t)
  PROVE  Queued'
<1>1. queue' = queue /\ pc["console"] = "prompt"
  BY DEF Drop, Goto, Quiescent
<1>2. pc'["stp"] # "wake"
  BY <1>1 DEF Drop, Goto, Typing, FlowTypes, Thread
<1>3. ASSUME NEW s \in Resource, NEW q \in ToSet(queue[s])
      PROVE  BlockedAt(q, s)'
  <2>1. q \in Process /\ Waiting(q) /\ BlockedAt(q, s)
    BY <1>3, Members DEF Typing, RestTypes, Waiting, Queued
  <2> QED BY <1>1, <2>1, ResourceAssumption DEF Drop, Goto, BlockedAt, Kept, WorkFree,
     Working, ReleasePC, ReadyFree, Typing, FlowTypes, ProcTypes, PcOK, Fits, Thread
<1> QED BY <1>1, <1>2, <1>3 DEF Queued

LEMMA FindQueued ==
  ASSUME Typing, Kept, Quiescent, Queued, NEW t \in Thread, Find(t)
  PROVE  Queued'
<1>1. queue' = queue /\ pc["console"] = "prompt"
  BY DEF Find, Goto, procVars, Quiescent
<1>2. pc'["stp"] # "wake"
  BY <1>1 DEF Find, Goto, procVars, Typing, FlowTypes, Thread
<1>3. ASSUME NEW s \in Resource, NEW q \in ToSet(queue[s])
      PROVE  BlockedAt(q, s)'
  <2>1. q \in Process /\ Waiting(q) /\ BlockedAt(q, s)
    BY <1>3, Members DEF Typing, RestTypes, Waiting, Queued
  <2> QED BY <1>1, <2>1, ResourceAssumption DEF Find, Goto, procVars, BlockedAt, Kept, WorkFree,
     Working, ReleasePC, ReadyFree, Typing, FlowTypes, ProcTypes, PcOK, Fits, Thread
<1> QED BY <1>1, <1>2, <1>3 DEF Queued

LEMMA SignalQueued ==
  ASSUME Typing, Kept, Quiescent, Queued, NEW r \in Resource, Signal(r)
  PROVE  Queued'
<1>1. queue' = queue /\ pc["console"] = "prompt"
  BY DEF Signal, Running, Release, Goto, procVars, Quiescent
<1>2. pc'["stp"] # "wake"
  BY <1>1 DEF Signal, Running, Release, Goto, procVars, Typing, FlowTypes, Thread
<1>3. ASSUME NEW s \in Resource, NEW q \in ToSet(queue[s])
      PROVE  BlockedAt(q, s)'
  <2>1. q \in Process /\ Waiting(q) /\ BlockedAt(q, s)
    BY <1>3, Members DEF Typing, RestTypes, Waiting, Queued
  <2> QED BY <1>1, <2>1, ResourceAssumption DEF Signal, Running, Release, Goto, procVars, BlockedAt, Kept, WorkFree,
     Working, ReleasePC, ReadyFree, Typing, FlowTypes, ProcTypes, PcOK, Fits, Thread
<1> QED BY <1>1, <1>2, <1>3 DEF Queued

LEMMA ReleaseNextQueued ==
  ASSUME Typing, Kept, Quiescent, Queued, NEW t \in Thread, ReleaseNext(t)
  PROVE  Queued'
<1>1. queue' = queue /\ pc["console"] = "prompt"
  BY DEF ReleaseNext, Release, Goto, procVars, Quiescent
<1>2. pc'["stp"] # "wake"
  BY <1>1 DEF ReleaseNext, Release, Goto, procVars, Typing, FlowTypes, Thread
<1>3. ASSUME NEW s \in Resource, NEW q \in ToSet(queue[s])
      PROVE  BlockedAt(q, s)'
  <2>1. q \in Process /\ Waiting(q) /\ BlockedAt(q, s)
    BY <1>3, Members DEF Typing, RestTypes, Waiting, Queued
  <2> QED BY <1>1, <2>1, ResourceAssumption DEF ReleaseNext, Release, Goto, procVars, BlockedAt, Kept, WorkFree,
     Working, ReleasePC, ReadyFree, Typing, FlowTypes, ProcTypes, PcOK, Fits, Thread
<1> QED BY <1>1, <1>2, <1>3 DEF Queued

LEMMA ExpelQueued ==
  ASSUME Typing, Kept, Quiescent, Queued, NEW t \in Thread, Expel(t)
  PROVE  Queued'
<1>1. queue' = queue /\ pc["console"] = "prompt"
  BY DEF Expel, Leave, StpDone, Goto, Quiescent
<1>2. pc'["stp"] # "wake"
  BY <1>1 DEF Expel, Leave, StpDone, Goto, Typing, FlowTypes, Thread
<1>3. ASSUME NEW s \in Resource, NEW q \in ToSet(queue[s])
      PROVE  BlockedAt(q, s)'
  <2>1. q \in Process /\ Waiting(q) /\ BlockedAt(q, s)
    BY <1>3, Members DEF Typing, RestTypes, Waiting, Queued
  <2> QED BY <1>1, <2>1, ResourceAssumption DEF Expel, Leave, StpDone, Goto, BlockedAt, Kept, WorkFree,
     Working, ReleasePC, ReadyFree, Typing, FlowTypes, ProcTypes, PcOK, Fits, Thread
<1> QED BY <1>1, <1>2, <1>3 DEF Queued

LEMMA FinishQueued ==
  ASSUME Typing, Kept, Quiescent, Queued, NEW t \in Thread, Finish(t)
  PROVE  Queued'
<1>1. queue' = queue /\ pc["console"] = "prompt"
  BY DEF Finish, Leave, Goto, Quiescent
<1>2. pc'["stp"] # "wake"
  BY <1>1 DEF Finish, Leave, Goto, Typing, FlowTypes, Thread
<1>3. ASSUME NEW s \in Resource, NEW q \in ToSet(queue[s])
      PROVE  BlockedAt(q, s)'
  <2>1. q \in Process /\ Waiting(q) /\ BlockedAt(q, s)
    BY <1>3, Members DEF Typing, RestTypes, Waiting, Queued
  <2> QED BY <1>1, <2>1, ResourceAssumption DEF Finish, Leave, Goto, BlockedAt, Kept, WorkFree,
     Working, ReleasePC, ReadyFree, Typing, FlowTypes, ProcTypes, PcOK, Fits, Thread
<1> QED BY <1>1, <1>2, <1>3 DEF Queued

LEMMA EnqueueQueued ==
  ASSUME Typing, Kept, Quiescent, Queued, Enqueue
  PROVE  Queued'
<1>1. PICK p \in Process, r \in Resource : p = who["stp"] /\ r = res["stp"]
  BY DEF Enqueue, Typing, PcOK, Fits, ResPC, Thread
<1>2. /\ queue \in [Resource -> Seq(Process)] /\ queue' = [queue EXCEPT ![r] = Append(@, p)]
      /\ ToSet(Append(queue[r], p)) = ToSet(queue[r]) \cup {p}
      /\ pc["stp"] = "enqueue" /\ pc' = [pc EXCEPT !["stp"] = "block"]
      /\ UNCHANGED <<status, blockedBy, who, res>>
  BY <1>1, AppendAdds DEF Enqueue, Current, Goto, procVars, Typing, RestTypes
<1>3. pc'["stp"] # "wake"
  BY <1>2 DEF Typing, FlowTypes, Thread
<1>4. ASSUME NEW s \in Resource, NEW q \in ToSet(queue'[s])
      PROVE  BlockedAt(q, s)'
  <2>1. CASE q \in ToSet(queue[s])
    <3>1. BlockedAt(q, s)
      BY <2>1 DEF Queued
    <3>2. q # p
      BY <1>1, <1>2, <2>1 DEF Kept, WorkFree, Working, Waiting
    <3> QED BY <1>1, <1>2, <3>1, <3>2 DEF BlockedAt
  <2>2. CASE q \notin ToSet(queue[s])
    <3>1. s = r /\ q = p
      BY <1>2, <1>4, <2>2
    <3> QED BY <1>1, <1>2, <3>1 DEF BlockedAt, Typing, FlowTypes, Thread
  <2> QED BY <2>1, <2>2
<1> QED BY <1>3, <1>4 DEF Queued

LEMMA PopQueued ==
  ASSUME Typing, Kept, Quiescent, Queued, NEW t \in Thread, Pop(t)
  PROVE  Queued'
<1>1. pc["console"] = "prompt" /\ pc[t] = "pop" /\ t = "stp"
  BY DEF Quiescent, Pop, Thread
<1>2. PICK r \in Resource : r = res[t]
  BY <1>1 DEF Typing, PcOK, Fits, ResPC, ReleasePC
<1>3. pc'["stp"] # "wake" /\ UNCHANGED <<status, blockedBy, who, res>>
  <2>1. UNCHANGED <<status, blockedBy, who, res>>
    BY DEF Pop, procVars
  <2>2. Goto(t, after[t]) \/ Goto(t, "find")
    BY DEF Pop
  <2> QED BY <1>1, <2>1, <2>2 DEF Goto, Typing, FlowTypes, Thread
<1>4. \A s \in Resource : ToSet(queue'[s]) \subseteq ToSet(queue[s])
  <2>1. queue \in [Resource -> Seq(Process)]
    BY DEF Typing, RestTypes
  <2>2. CASE queue[r] = <<>>
    BY <1>2, <2>2 DEF Pop
  <2>3. CASE queue[r] # <<>>
    <3>1. queue' = [queue EXCEPT ![r] = Tail(@)]
      BY <1>2, <2>3 DEF Pop
    <3>2. ToSet(Tail(queue[r])) \subseteq ToSet(queue[r])
      BY <2>1, <2>3, TailRemoves
    <3> QED BY <2>1, <3>1, <3>2
  <2> QED BY <2>2, <2>3
<1>5. ASSUME NEW s \in Resource, NEW q \in ToSet(queue[s])
      PROVE  BlockedAt(q, s)'
  <2>1. Waiting(q) /\ BlockedAt(q, s) /\ who["stp"] # q
    BY <1>1, <1>5 DEF Waiting, Queued, Kept, WorkFree, Working,
       ReleasePC
  <2> QED BY <1>3, <2>1 DEF BlockedAt
<1> QED BY <1>3, <1>4, <1>5 DEF Queued

LEMMA GiveQueued ==
  ASSUME Typing, Kept, Quiescent, Queued, NEW t \in Thread, Give(t)
  PROVE  Queued'
<1>1. pc["console"] = "prompt" /\ pc[t] = "give" /\ t = "stp" /\ queue' = queue
  BY DEF Quiescent, Give, Thread
<1>2. UNCHANGED <<who, res, popped, status>>
  BY DEF Give
<1>3. \A s \in Resource : popped["stp"] \notin ToSet(queue[s])
  BY <1>1 DEF Kept, OnePlace, InHand
<1>4. ASSUME NEW s \in Resource, NEW q \in ToSet(queue[s])
      PROVE  BlockedAt(q, s)'
  <2>1. Waiting(q) /\ BlockedAt(q, s) /\ who["stp"] # q /\ q # popped[t]
    BY <1>1, <1>3, <1>4 DEF Waiting, Queued, Kept, WorkFree, Working, ReleasePC
  <2>2. q \in Process
    BY <1>4, Members DEF Typing, RestTypes
  <2>3. blockedBy'[q] = blockedBy[q]
    BY <2>1, <2>2 DEF Give, Assign, Typing, ProcTypes
  <2> QED BY <1>2, <2>1, <2>3 DEF BlockedAt
<1> QED BY <1>1, <1>2, <1>3, <1>4 DEF Queued

LEMMA WakeQueued ==
  ASSUME Typing, Kept, Quiescent, Queued, NEW t \in Thread, Wake(t)
  PROVE  Queued'
<1>1. pc["console"] = "prompt" /\ pc[t] = "wake" /\ t = "stp" /\ queue' = queue
  BY DEF Quiescent, Wake, Thread
<1>2. pc'["stp"] # "wake" /\ UNCHANGED <<who, res, blockedBy>>
  BY <1>1 DEF Wake, Goto, Typing, FlowTypes
<1>3. \A s \in Resource : popped["stp"] \notin ToSet(queue[s])
  BY <1>1 DEF Queued
<1>4. ASSUME NEW s \in Resource, NEW q \in ToSet(queue[s])
      PROVE  BlockedAt(q, s)'
  <2>1. Waiting(q) /\ BlockedAt(q, s) /\ who["stp"] # q /\ q # popped[t]
    BY <1>1, <1>3, <1>4 DEF Waiting, Queued, Kept, WorkFree, Working, ReleasePC
  <2>2. q \in Process
    BY <1>4, Members DEF Typing, RestTypes
  <2>3. status'[q] = status[q]
    BY <2>1, <2>2 DEF Wake, Typing, ProcTypes
  <2> QED BY <1>2, <2>1, <2>3 DEF BlockedAt
<1> QED BY <1>1, <1>2, <1>4 DEF Queued

\* The number of kills never falls.
LEMMA KillingStays == Typing /\ [Next]_vars /\ kills' = 0 => kills = 0
<1>1. [Next]_vars => kills' = kills \/ kills' = kills + 1
  BY DEF vars, killVars, Next, Releasing, Dispatch, Loop, Preempt, Wait, Grant, Enqueue,
     Block, Mark, Signal, BadName, Exit, KillFind, KillJudge, KillStart, ReleaseNext,
     Drop, Pop, Find, Give, Wake, Expel, Finish
<1>2. Typing => kills \in Nat
  BY DEF Typing, RestTypes
<1> QED BY <1>1, <1>2

LEMMA NextBlocked == Typing /\ Custody /\ Blocked /\ [Next]_vars => Blocked'
<1> SUFFICES ASSUME Typing, Custody, Blocked, [Next]_vars, kills' = 0
    PROVE Quiescent' /\ Queued'
  BY DEF Blocked
<1>1. kills = 0
  BY KillingStays
<1>2. Quiescent /\ Queued /\ Kept
  BY <1>1 DEF Blocked, Quiescent, Custody
<1>3. Quiescent'
  BY <1>2, QuiescentStays
<1>4. Queued'
  <2>1. CASE UNCHANGED vars
    BY <1>2, <2>1 DEF vars, procVars, flowVars, Queued, BlockedAt
  <2>2. CASE \E p \in Process : KillFind(p)
    BY <1>1, <2>2 DEF KillFind, Typing, RestTypes
  <2>3. ~KillJudge /\ ~KillStart
    BY <1>2 DEF Quiescent, KillJudge, KillStart
  <2> QED BY <1>2, <2>1, <2>2, <2>3, DispatchQueued, LoopQueued, WaitQueued, PreemptQueued,
     GrantQueued, EnqueueQueued, BlockQueued, MarkQueued, BadNameQueued, ExitQueued,
     SignalQueued, ReleaseNextQueued, DropQueued, PopQueued, FindQueued, GiveQueued,
     WakeQueued, ExpelQueued, FinishQueued DEF Next, Releasing
<1> QED BY <1>3, <1>4

LEMMA InitBlocked == Init => Blocked
<1> SUFFICES ASSUME Init PROVE Blocked
  OBVIOUS
<1>1. \A r \in Resource : ToSet(queue[r]) = {}
  BY EmptySeq DEF Init, ToSet
<1> QED BY <1>1 DEF Init, Blocked, Quiescent, Queued, Thread

LEMMA AlwaysBlocked == Spec => []Blocked
<1>1. Init => Blocked
  BY InitBlocked
<1>2. Typing /\ Custody /\ Blocked /\ [Next]_vars => Blocked'
  BY NextBlocked
<1> QED BY <1>1, <1>2, AlwaysCustody, PTL DEF Spec

\* Until the first kill a process in a queue is blocked, marked with the resource of that queue, not
\* ready, and in no other place of any queue.
THEOREM WaitersAreBlocked == Spec => []WaiterIsBlocked
<1>1. Typing /\ Custody /\ Blocked => WaiterIsBlocked
  <2> SUFFICES ASSUME Typing, Kept, Queued, NEW r \in Resource,
                      NEW i \in DOMAIN queue[r], who["stp"] # queue[r][i]
      PROVE  /\ status[queue[r][i]] = "BLOCK" /\ blockedBy[queue[r][i]] = r
             /\ queue[r][i] \notin ready
             /\ \A s \in Resource : \A j \in DOMAIN queue[s] :
                  queue[s][j] = queue[r][i] => s = r /\ i = j
    BY DEF WaiterIsBlocked, Blocked, Quiescent, Custody
  <2>1. \A s \in Resource : \A j \in DOMAIN queue[s] : queue[s][j] \in ToSet(queue[s])
    BY DEF ToSet
  <2>2. BlockedAt(queue[r][i], r) /\ Waiting(queue[r][i])
    BY <2>1 DEF Queued, Waiting
  <2>3. queue[r][i] \notin ready
    BY <2>2 DEF Kept, ReadyFree
  <2>4. ASSUME NEW s \in Resource, NEW j \in DOMAIN queue[s], queue[s][j] = queue[r][i]
        PROVE  s = r /\ i = j
    <3>1. s = r
      BY <2>1, <2>4 DEF Kept, OnePlace
    <3>2. IsInjective(queue[r])
      BY DEF Kept, OnePlace
    <3> QED BY <2>4, <3>1, <3>2 DEF IsInjective
  <2> QED BY <2>2, <2>3, <2>4 DEF BlockedAt
<1> QED BY <1>1, AlwaysCustody, AlwaysBlocked, PTL

------------------------------------------------------------------------------
(* Without kills nor forged SIGNALs: who is served, and when.               *)

LEMMA DispatchLine ==
  ASSUME Typing, Kept, Quiescent, Tidy, Balanced, Lines, NEW p \in Process, Dispatch(p), NEW s \in Resource
  PROVE  Line(s)'
<1>1. Line(s) /\ Units(s)' = Units(s)
  BY DEF Lines, Units, Dispatch, Goto, countVars
<1> QED BY <1>1, ResourceAssumption DEF Line, Dispatch, Goto, countVars, Nothing

LEMMA LoopLine ==
  ASSUME Typing, Kept, Quiescent, Tidy, Balanced, Lines, Loop, NEW s \in Resource
  PROVE  Line(s)'
<1>1. Line(s) /\ Units(s)' = Units(s)
  BY DEF Lines, Units, Loop, StpDone, Goto, countVars, procVars
<1>2. /\ pc["stp"] = "run" /\ pc'["stp"] \in {"cpu", "idle"}
      /\ res'["stp"] = res["stp"] \/ res'["stp"] = NoResource
      /\ UNCHANGED <<qty, queue, lost>>
  BY DEF Loop, StpDone, Goto, countVars, Typing, FlowTypes, Thread
<1> QED BY <1>1, <1>2, ResourceAssumption DEF Line, Nothing

LEMMA PreemptLine ==
  ASSUME Typing, Kept, Quiescent, Tidy, Balanced, Lines, Preempt, NEW s \in Resource
  PROVE  Line(s)'
<1>1. Line(s) /\ Units(s)' = Units(s)
  BY DEF Lines, Units, Preempt, Running, StpDone, Goto, countVars
<1> QED BY <1>1, ResourceAssumption DEF Line, Preempt, Running, StpDone, Goto, countVars, Nothing

LEMMA BlockLine ==
  ASSUME Typing, Kept, Quiescent, Tidy, Balanced, Lines, Block, NEW s \in Resource
  PROVE  Line(s)'
<1>1. Line(s) /\ Units(s)' = Units(s)
  BY DEF Lines, Units, Block, Goto, countVars
<1> QED BY <1>1, ResourceAssumption DEF Line, Block, Goto, countVars, Nothing

LEMMA MarkLine ==
  ASSUME Typing, Kept, Quiescent, Tidy, Balanced, Lines, Mark, NEW s \in Resource
  PROVE  Line(s)'
<1>1. Line(s) /\ Units(s)' = Units(s)
  BY DEF Lines, Units, Mark, StpDone, Goto, countVars
<1> QED BY <1>1, ResourceAssumption DEF Line, Mark, StpDone, Goto, countVars, Nothing

LEMMA BadNameLine ==
  ASSUME Typing, Kept, Quiescent, Tidy, Balanced, Lines, BadName, NEW s \in Resource
  PROVE  Line(s)'
<1>1. Line(s) /\ Units(s)' = Units(s)
  BY DEF Lines, Units, BadName, Running, Goto, countVars, procVars
<1> QED BY <1>1, ResourceAssumption DEF Line, BadName, Running, Goto, countVars, procVars, Nothing

LEMMA ExitLine ==
  ASSUME Typing, Kept, Quiescent, Tidy, Balanced, Lines, Exit, NEW s \in Resource
  PROVE  Line(s)'
<1>1. Line(s) /\ Units(s)' = Units(s)
  BY DEF Lines, Units, Exit, Running, StartExit, Goto, countVars, procVars
<1> QED BY <1>1, ResourceAssumption DEF Line, Exit, Running, StartExit, Goto, countVars, procVars, Nothing

LEMMA WakeLine ==
  ASSUME Typing, Kept, Quiescent, Tidy, Balanced, Lines, NEW t \in Thread, Wake(t), NEW s \in Resource
  PROVE  Line(s)'
<1>1. Line(s) /\ Units(s)' = Units(s)
  BY DEF Lines, Units, Wake, Goto, countVars
<1>2. t = "stp" /\ pc["stp"] = "wake" /\ pc'["stp"] \in {"run", "loop"}
  BY DEF Wake, Goto, Quiescent, Typing, FlowTypes, Thread
<1> QED BY <1>1, <1>2 DEF Line, Wake, countVars, Nothing

LEMMA WaitLine ==
  ASSUME Typing, Kept, Quiescent, Tidy, Balanced, Lines, NEW s \in Resource, Wait(s), NEW r \in Resource
  PROVE  Line(r)'
<1>1. Line(r) /\ Units(r)' = Units(r) /\ qty[r] \in Int
  BY BookTypes DEF Lines, Units, Wait, procVars
<1>2. /\ pc["stp"] = "cpu" /\ res'["stp"] = s /\ queue' = queue /\ lost' = lost
      /\ qty'[r] = IF r = s THEN qty[r] - 1 ELSE qty[r]
      /\ pc'["stp"] = IF qty[s] - 1 >= 0 THEN "grant" ELSE "enqueue"
  BY DEF Wait, Running, Goto, Typing, FlowTypes, CountTypes, Thread
<1> QED BY <1>1, <1>2 DEF Line, Nothing

LEMMA GrantLine ==
  ASSUME Typing, Kept, Quiescent, Tidy, Balanced, Lines, Grant, NEW r \in Resource
  PROVE  Line(r)'
<1>1. Line(r) /\ qty[r] \in Int /\ Units(r) \in Nat
  BY BookTypes DEF Lines
<1>2. PICK p \in Process, s \in Resource : p = who["stp"] /\ s = res["stp"]
  BY DEF Grant, Typing, PcOK, Fits, ResPC, Thread
<1>3. Units(r)' >= Units(r)
  <2>1. held' = [held EXCEPT ![p][s] = @ + 1]
    BY <1>2 DEF Grant, Assign, Current
  <2>2. Units(r)' = Units(r) + held'[p][r] - held[p][r]
    BY <2>1, GrantTyping, UnitsChange DEF Typing, ProcTypes
  <2>3. held'[p][r] >= held[p][r] /\ held[p][r] \in Nat /\ held'[p][r] \in Nat
    BY <2>1 DEF Typing, ProcTypes
  <2> QED BY <1>1, <2>2, <2>3
<1>4. Units(r)' \in Nat
  BY GrantTyping, BookTypesNext
<1>5. /\ pc["stp"] = "grant" /\ pc'["stp"] = "idle"
      /\ UNCHANGED <<qty, queue, lost>>
  BY DEF Grant, StpDone, Goto, countVars, Typing, FlowTypes, Thread
<1> QED BY <1>1, <1>3, <1>4, <1>5 DEF Line, Nothing

LEMMA EnqueueLine ==
  ASSUME Typing, Kept, Quiescent, Tidy, Balanced, Lines, Enqueue, NEW r \in Resource
  PROVE  Line(r)'
<1>1. Line(r) /\ qty[r] \in Int /\ Units(r)' = Units(r)
  BY BookTypes DEF Lines, Units, Enqueue, procVars
<1>2. /\ pc["stp"] = "enqueue" /\ pc'["stp"] = "block" /\ UNCHANGED <<qty, lost, res>>
      /\ r # res["stp"] => queue'[r] = queue[r]
  BY DEF Enqueue, Goto, countVars, Typing, FlowTypes, RestTypes, Thread
<1>3. CASE r = res["stp"]
  BY <1>1, <1>2, <1>3 DEF Line
<1>4. CASE r # res["stp"]
  BY <1>1, <1>2, <1>4 DEF Line, Nothing
<1> QED BY <1>3, <1>4

LEMMA DropLine ==
  ASSUME Typing, Kept, Quiescent, Tidy, Balanced, Lines, NEW t \in Thread, Drop(t), NEW r \in Resource
  PROVE  Line(r)'
<1>1. Line(r) /\ qty[r] \in Int /\ Units(r) \in Nat /\ t = "stp"
  BY BookTypes DEF Lines, Quiescent, Drop, Thread
<1>2. PICK p \in Process, s \in Resource : p = who[t] /\ s = res[t]
  BY DEF Drop, Typing, PcOK, Fits, ResPC, ReleasePC
<1>3. r # s => Units(r)' = Units(r)
  <2>1. held' = IF held[p][s] > 0 THEN [held EXCEPT ![p][s] = @ - 1] ELSE held
    BY <1>2 DEF Drop
  <2>2. Units(r)' = Units(r) + held'[p][r] - held[p][r]
    BY <2>1, DropTyping, UnitsChange DEF Typing, ProcTypes
  <2>3. r # s => held'[p][r] = held[p][r] /\ held[p][r] \in Nat
    BY <2>1 DEF Typing, ProcTypes
  <2> QED BY <1>1, <2>2, <2>3
<1>4. /\ UNCHANGED <<qty, queue, lost, res>> /\ after["stp"] \in {"run", "loop"}
      /\ \/ pc["stp"] = "dropWake" /\ pc'["stp"] = "pop"
         \/ pc["stp"] = "drop" /\ pc'["stp"] = after["stp"]
  BY <1>1 DEF Drop, Goto, countVars, Typing, FlowTypes, Thread
<1> QED BY <1>1, <1>2, <1>3, <1>4 DEF Line, Nothing

LEMMA PopLine ==
  ASSUME Typing, Kept, Quiescent, Tidy, Balanced, Lines, NEW t \in Thread, Pop(t), NEW r \in Resource
  PROVE  Line(r)'
<1>1. Line(r) /\ qty[r] \in Int /\ t = "stp" /\ Units(r)' = Units(r)
  BY ZenonT(40), BookTypes DEF Lines, Quiescent, Pop, procVars, Units, Thread
<1>2. PICK s \in Resource : s = res["stp"]
  BY <1>1 DEF Pop, Typing, PcOK, Fits, ResPC, ReleasePC
<1>3. /\ UNCHANGED <<qty, lost, res>> /\ after["stp"] \in {"run", "loop"}
      /\ pc["stp"] = "pop" /\ queue \in [Resource -> Seq(Process)]
  BY <1>1 DEF Pop, countVars, Typing, FlowTypes, RestTypes, Thread
<1>4. CASE queue[s] = <<>>
  <2>1. queue' = queue /\ pc'["stp"] = after["stp"]
    BY <1>1, <1>2, <1>4 DEF Pop, Goto, Typing, FlowTypes, Thread
  <2> QED BY <1>1, <1>2, <1>3, <1>4, <2>1 DEF Line, Nothing
<1>5. CASE queue[s] # <<>>
  <2>1. queue' = [queue EXCEPT ![s] = Tail(@)] /\ pc'["stp"] = "find"
    BY <1>1, <1>2, <1>5 DEF Pop, Goto, Typing, FlowTypes, Thread
  <2>2. CASE r = s
    <3>1. /\ queue'[r] = Tail(queue[r]) /\ Len(queue[r]) \in Nat
          /\ Tail(queue[r]) \in Seq(Process) /\ Len(Tail(queue[r])) = Len(queue[r]) - 1
      BY <1>3, <1>5, <2>1, <2>2, TailRemoves, LenProperties
    <3>2. Len(queue[r]) = 1 => queue'[r] = <<>>
      <4>1. Len(queue[r]) = 1 => Len(Tail(queue[r])) = 0
        BY <3>1
      <4>2. Len(Tail(queue[r])) = 0 => Tail(queue[r]) = <<>>
        BY <3>1, EmptySeq
      <4> QED BY <3>1, <4>1, <4>2
    <3> QED BY <1>1, <1>2, <1>3, <1>5, <2>1, <2>2, <3>2 DEF Line
  <2>3. CASE r # s
    <3>1. queue'[r] = queue[r]
      BY <1>3, <2>1, <2>3
    <3> QED BY <1>1, <1>2, <1>3, <2>1, <2>3, <3>1 DEF Line, Nothing
  <2> QED BY <2>2, <2>3
<1> QED BY <1>4, <1>5

LEMMA FindLine ==
  ASSUME Typing, Kept, Quiescent, Tidy, Balanced, Lines, NEW t \in Thread, Find(t), NEW r \in Resource
  PROVE  Line(r)'
<1>1. Line(r) /\ t = "stp" /\ Units(r)' = Units(r) /\ qty[r] \in Int
  BY BookTypes DEF Lines, Quiescent, Find, procVars, Units, Thread
<1>2. PICK p \in Process, s \in Resource : p = popped["stp"] /\ s = res["stp"]
  BY <1>1 DEF Find, Typing, PcOK, Fits, ResPC, ReleasePC
<1>3. /\ UNCHANGED <<qty, queue, res>> /\ after["stp"] \in {"run", "loop"}
      /\ pc["stp"] = "find"
  BY <1>1 DEF Find, Typing, FlowTypes, Thread
<1>4. CASE p \in listed
  <2>1. pc'["stp"] = "give" /\ lost' = lost
    BY <1>1, <1>2, <1>4 DEF Find, Alive, Goto, Typing, FlowTypes, Thread
  <2> QED BY <1>1, <1>3, <2>1 DEF Line, Nothing
<1>5. CASE p \notin listed
  <2>1. lost' = [lost EXCEPT ![s] = @ + 1] /\ pc'["stp"] = after["stp"]
    BY <1>1, <1>2, <1>5 DEF Find, Alive, Goto, Typing, FlowTypes, Thread
  <2>2. lost'[s] = lost[s] + 1 /\ lost[s] \in Nat
    BY <2>1 DEF Typing, CountTypes
  <2>3. lost' # Nothing
    BY <2>2 DEF Nothing
  <2>4. Nothing' = Nothing
    BY DEF Nothing
  <2> QED BY <1>1, <1>3, <2>1, <2>3, <2>4 DEF Line
<1> QED BY <1>4, <1>5

LEMMA GiveLine ==
  ASSUME Typing, Kept, Quiescent, Tidy, Balanced, Lines, NEW t \in Thread, Give(t), NEW r \in Resource
  PROVE  Line(r)'
<1>1. Line(r) /\ qty[r] \in Int /\ t = "stp" /\ Units(r) \in Nat
  BY BookTypes DEF Lines, Quiescent, Give, Thread
<1>2. PICK p \in Process, s \in Resource : p = popped["stp"] /\ s = res["stp"]
  BY <1>1 DEF Give, Typing, PcOK, Fits, ResPC, ReleasePC
<1>3. /\ UNCHANGED <<qty, queue, res, lost>> /\ pc["stp"] = "give" /\ pc'["stp"] = "wake"
  BY <1>1 DEF Give, Goto, countVars, Typing, FlowTypes, Thread
<1>4. held' = [held EXCEPT ![p][s] = @ + 1]
  BY <1>1, <1>2 DEF Give, Assign
<1>5. Units(r)' = Units(r) + held'[p][r] - held[p][r]
  BY <1>4, GiveTyping, UnitsChange DEF Typing, ProcTypes
<1>6. /\ held[p][r] \in Nat
      /\ held'[p][r] = IF r = s THEN held[p][r] + 1 ELSE held[p][r]
  BY <1>4 DEF Typing, ProcTypes
<1>7. Units(r)' = IF r = s THEN Units(r) + 1 ELSE Units(r)
  BY <1>1, <1>5, <1>6
<1> QED BY <1>1, <1>2, <1>3, <1>7 DEF Line, Nothing

LEMMA ReleaseLine ==
  ASSUME Typing, Kept, Quiescent, Tidy, Balanced, Lines, pc["stp"] \in {"cpu", "loop"},
         NEW p \in Process, p = who["stp"], NEW s \in Resource, Release("stp", s),
         held[p][s] > 0, UNCHANGED <<held, queue, lost>>, NEW r \in Resource
  PROVE  Line(r)'
<1>1. /\ Line(r) /\ qty[r] \in Int /\ qty[s] \in Int /\ Units(r)' = Units(r)
      /\ pc["console"] = "prompt" /\ extra = Nothing
  <2>1. qty[r] \in Int /\ qty[s] \in Int
    BY BookTypes
  <2>2. Units(r)' = Units(r)
    BY DEF Units
  <2> QED BY <2>1, <2>2 DEF Lines, Quiescent, Tidy
<1>2. /\ qty'[r] = (IF r = s THEN qty[r] + 1 ELSE qty[r]) /\ res'["stp"] = s
      /\ \E l \in {"drop", "dropWake"} : pc' = [pc EXCEPT !["stp"] = l]
  <2>1. ~(qty[s] + 1 > MaxQty[s])
    <3>1. "stp" \in Thread
      BY DEF Thread
    <3>2. qty[s] + 1 <= MaxQty[s] /\ MaxQty[s] \in Int
      BY <3>1, NotRefused, BookTypes
    <3> QED BY <1>1, <3>2
  <2> QED BY <2>1 DEF Release, Goto, Typing, FlowTypes, CountTypes, Thread
<1>3. pc'["stp"] = IF qty[s] + 1 >= 0 THEN "dropWake" ELSE "drop"
  <2>1. pc'["stp"] \in {"drop", "dropWake"}
    BY <1>2 DEF Typing, FlowTypes, Thread
  <2> QED BY <2>1 DEF Release, Goto, Typing, FlowTypes, Thread
<1>4. Units(s) >= 1 /\ Units(s) \in Nat
  <2>1. held \in Holdings /\ Units(s) = Amount(held, s, Process) /\ Units(s) \in Nat
    BY BookTypes DEF Typing, ProcTypes, Holdings
  <2>2. held[p][s] <= Units(s) /\ held[p][s] \in Nat
    BY <2>1, BookTypes, AmountBounds
  <2> QED BY <2>1, <2>2
<1>5. qty[s] = 0 => Len(queue[s]) <= MaxQty[s] - 1
  <2>1. Holding("stp", s) = 0 /\ Holding("console", s) = 0
    BY <1>1 DEF Holding, Taking, Returning
  <2>2. Sheet(s) + 0 + 0 = MaxQty[s]
    BY <2>1 DEF Balanced, Books
  <2>3. PICK b \in Nat, c \in Nat, d \in Nat, m \in Nat :
          b = Units(s) /\ c = Len(queue[s]) /\ d = lost[s] /\ m = MaxQty[s]
    BY BookTypes
  <2>4. qty[s] = 0 => 0 + b + c + d - 0 = m
    BY <1>1, <2>2, <2>3 DEF Sheet, Nothing
  <2>5. 0 + b + c + d - 0 = m /\ b >= 1 => c <= m - 1
    OBVIOUS
  <2> QED BY <1>4, <2>3, <2>4, <2>5
<1>6. CASE r # s
  BY <1>1, <1>2, <1>3, <1>6 DEF Line, Nothing
<1>7. CASE r = s
  <2>1. MaxQty[r] <= 2 /\ queue[r] # <<>> =>
          qty[r] + 1 <= 0 \/ (Len(queue[r]) = 1 /\ pc'["stp"] = "dropWake")
    <3>1. ASSUME MaxQty[r] <= 2, queue[r] # <<>>, ~(qty[r] + 1 <= 0)
          PROVE  Len(queue[r]) = 1 /\ pc'["stp"] = "dropWake"
      <4>1. qty[r] <= 0
        BY <1>1, <3>1 DEF Line
      <4>2. qty[r] = 0
        BY <1>1, <3>1, <4>1
      <4>3. Len(queue[r]) \in Nat /\ Len(queue[r]) # 0 /\ MaxQty[r] \in Nat
        BY <3>1, BookTypes, EmptySeq DEF Typing, RestTypes
      <4>4. Len(queue[r]) = 1
        <5>1. Len(queue[r]) <= MaxQty[r] - 1
          BY <1>5, <1>7, <4>2
        <5>2. \A n, m \in Nat : n # 0 /\ m <= 2 /\ n <= m - 1 => n = 1
          OBVIOUS
        <5> QED BY <3>1, <4>3, <5>1, <5>2
      <4> QED BY <1>3, <1>7, <4>2, <4>4
    <3> QED BY <3>1
  <2> QED BY <1>1, <1>2, <1>3, <1>4, <1>7, <2>1 DEF Line, Nothing
<1> QED BY <1>6, <1>7

LEMMA SignalLine ==
  ASSUME Typing, Kept, Quiescent, Tidy, Balanced, Lines, NEW s \in Resource, Signal(s), forged' = 0, NEW r \in Resource
  PROVE  Line(r)'
<1>1. /\ who["stp"] \in Process /\ pc["stp"] = "cpu" /\ Release("stp", s)
      /\ held[who["stp"]][s] > 0 /\ UNCHANGED <<held, queue, lost>>
  BY DEF Signal, Running, Current, procVars, Typing, CountTypes, PcOK, Fits, Thread
<1> QED BY <1>1, ReleaseLine

LEMMA ReleaseNextLine ==
  ASSUME Typing, Kept, Quiescent, Tidy, Balanced, Lines, NEW t \in Thread, ReleaseNext(t), NEW r \in Resource
  PROVE  Line(r)'
<1>1. /\ pc[t] = "loop" /\ t = "stp" /\ who[t] \in Process /\ who[t] \in listed
      /\ Exiting(t)
  BY DEF ReleaseNext, Quiescent, Thread, Typing, PcOK, Fits, Tidy, TidyAt, Exiting
<1>2. PICK s \in Resource : todo[t][s] > 0 /\ Release(t, s)
  BY DEF ReleaseNext
<1>3. held[who[t]][s] > 0
  <2>1. todo[t][s] + Dropping(t, s) <= held[who[t]][s] /\ Dropping(t, s) = 0
    BY <1>1 DEF Kept, LoopHolds, Dropping
  <2>2. todo[t][s] \in Nat /\ held[who[t]][s] \in Nat
    BY <1>1, BookTypes DEF Typing, FlowTypes
  <2> QED BY <1>2, <2>1, <2>2
<1>4. UNCHANGED <<held, queue, lost>>
  BY DEF ReleaseNext, procVars
<1> QED BY <1>1, <1>2, <1>3, <1>4, ReleaseLine

\* A pcb that goes with units of its own makes the loss visible.

\* A pcb that goes with units of its own makes the loss visible.
LEMMA LeaveLine ==
  ASSUME Typing, Typing', Lines, NEW p \in Process, Leave(p),
         pc["stp"] \in {"expel", "loop"}, pc'["stp"] \in {"idle", "loop"},
         UNCHANGED <<qty, queue>>, NEW r \in Resource
  PROVE  Line(r)'
<1>1. Line(r) /\ qty[r] \in Int /\ Units(r) \in Nat
  BY BookTypes DEF Lines
<1>2. lost' = Nothing => lost = Nothing /\ Units(r)' = Units(r)
  <2>1. lost' = [s \in Resource |-> lost[s] + held[p][s]] /\ held' = [held EXCEPT ![p] = Nothing]
    BY DEF Leave
  <2>2. ASSUME lost' = Nothing
        PROVE  \A s \in Resource : lost[s] = 0 /\ held[p][s] = 0
    <3> TAKE s \in Resource
    <3>1. lost[s] + held[p][s] = 0
      BY <2>1, <2>2 DEF Nothing
    <3>2. lost[s] \in Nat /\ held[p][s] \in Nat
      BY DEF Typing, CountTypes, ProcTypes
    <3> QED BY <3>1, <3>2
  <2>3. lost' = Nothing => lost = Nothing
    BY <2>2 DEF Nothing, Typing, CountTypes
  <2>4. Units(r)' = Units(r) + held'[p][r] - held[p][r]
    BY <2>1, UnitsChange DEF Typing, ProcTypes
  <2>5. held'[p][r] = 0
    BY <2>1 DEF Nothing, Typing, ProcTypes
  <2> QED BY <1>1, <2>2, <2>3, <2>4, <2>5
<1>3. Nothing' = Nothing
  BY DEF Nothing
<1> QED BY <1>1, <1>2, <1>3 DEF Line

LEMMA ExpelLine ==
  ASSUME Typing, Kept, Quiescent, Tidy, Balanced, Lines, NEW t \in Thread, Expel(t), NEW r \in Resource
  PROVE  Line(r)'
<1>1. /\ t = "stp" /\ pc["stp"] \in {"expel", "loop"} /\ who[t] \in Process /\ Leave(who[t])
      /\ UNCHANGED <<qty, queue>>
  BY DEF Expel, Quiescent, Thread, Typing, PcOK, Fits
<1>2. pc'["stp"] \in {"idle", "loop"}
  BY <1>1 DEF Expel, StpDone, Goto, Typing, FlowTypes, Thread
<1> QED BY <1>1, <1>2, ExpelTyping, LeaveLine

LEMMA FinishLine ==
  ASSUME Typing, Kept, Quiescent, Tidy, Balanced, Lines, NEW t \in Thread, Finish(t), NEW r \in Resource
  PROVE  Line(r)'
<1>1. /\ t = "stp" /\ pc["stp"] \in {"expel", "loop"} /\ who[t] \in Process /\ Leave(who[t])
      /\ UNCHANGED <<qty, queue>>
  BY DEF Finish, Quiescent, Thread, Typing, PcOK, Fits
<1>2. pc'["stp"] \in {"idle", "loop"}
  BY <1>1 DEF Finish, StpDone, Goto, Typing, FlowTypes, Thread
<1> QED BY <1>1, <1>2, FinishTyping, LeaveLine

LEMMA NextLine ==
  Typing /\ Custody /\ Balanced /\ Clean /\ Blocked /\ InLine /\ [Next]_vars => InLine'
<1> SUFFICES ASSUME Typing, Custody, Balanced, Clean, Blocked, InLine, [Next]_vars,
                    kills' = 0, forged' = 0, NEW r \in Resource
    PROVE  Line(r)'
  BY DEF InLine, Lines
<1>1. kills = 0 /\ forged = 0
  BY ForgingStays, KillingStays
<1>2. Quiescent /\ Kept /\ Tidy /\ Lines
  BY <1>1 DEF Blocked, Quiescent, Custody, Clean, InLine
<1>3. CASE UNCHANGED vars
  BY <1>2, <1>3 DEF vars, countVars, procVars, flowVars, Lines, Line, Units, Nothing
<1>4. CASE \E p \in Process : KillFind(p)
  BY <1>1, <1>4 DEF KillFind, Typing, RestTypes
<1>5. ~KillJudge /\ ~KillStart
  BY <1>2 DEF Quiescent, KillJudge, KillStart
<1> QED BY <1>2, <1>3, <1>4, <1>5, DispatchLine, LoopLine, WaitLine, PreemptLine,
   GrantLine, EnqueueLine, BlockLine, MarkLine, BadNameLine, ExitLine, SignalLine,
   ReleaseNextLine, DropLine, PopLine, FindLine, GiveLine, WakeLine, ExpelLine, FinishLine
   DEF Next, Releasing

LEMMA AlwaysInLine == Spec => []InLine
<1>1. Init => InLine
  BY DEF Init, InLine, Lines, Line, Thread
<1>2. Typing /\ Custody /\ Balanced /\ Clean /\ Blocked /\ InLine /\ [Next]_vars => InLine'
  BY NextLine
<1> QED BY <1>1, <1>2, AlwaysCustody, AlwaysClean, AlwaysBlocked, PTL DEF Spec

\* Without kills a WAIT for a resource of at most two units is granted only when
\* nobody is waiting for it.
THEOREM NobodyBarges == Spec => []NoBarging
<1>1. Typing /\ InLine => NoBarging
  BY DEF InLine, Lines, Line, NoBarging, Typing, PcOK, Fits, ResPC, Thread
<1> QED BY <1>1, AlwaysCustody, AlwaysInLine, PTL

\* Without kills, and as long as no more processes wait than there are units,
\* whoever waits has somebody to wait for.
THEOREM NobodyIsStranded == Spec => []NotStranded
<1>1. Typing /\ Balanced /\ Clean /\ Blocked /\ InLine => NotStranded
  <2> SUFFICES ASSUME Typing, Balanced, Clean, Blocked, InLine, Honest, NEW r \in Resource, Quiet(r),
                      queue[r] # <<>>, Len(queue[r]) <= MaxQty[r], ~(Units(r) > 0)
      PROVE  FALSE
    BY DEF NotStranded
  <2>1. qty[r] < 0
    BY DEF InLine, Lines, Line, Honest, Quiet, Thread
  <2>2. Holding("stp", r) = 0 /\ Holding("console", r) = 0
    BY DEF Quiet, Holding, Taking, Returning, Thread
  <2>3. Sheet(r) + 0 + 0 = MaxQty[r]
    BY <2>2 DEF Balanced, Books
  <2>4. PICK a \in Int, c \in Nat, m \in Nat : a = qty[r] /\ c = Len(queue[r]) /\ m = MaxQty[r]
    BY BookTypes
  <2>5. Units(r) = 0 /\ lost[r] = 0 /\ extra[r] = 0
    BY BookTypes DEF Honest, Clean, Tidy, Blocked, Quiescent, Nothing
  <2>6. a + 0 + c + 0 - 0 = m /\ a < 0 /\ c <= m
    BY <2>1, <2>3, <2>4, <2>5 DEF Sheet
  <2> QED BY <2>6
<1> QED BY <1>1, AlwaysCustody, AlwaysClean, AlwaysBlocked, AlwaysInLine, PTL

=============================================================================
