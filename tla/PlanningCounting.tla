--------------------------- MODULE PlanningCounting ---------------------------
(* Proofs about what Planning counts: the wake-ups of its planners and the   *)
(* slots of the multiprogramming degree.                                     *)
EXTENDS PlanningProofs

------------------------------------------------------------------------------
\* The steps of the threads, those they share once for all.
LEMMA NextCases ==
  Next => \/ \E t \in Thread : ReadyProcess(t)
          \/ \E t \in {"stp", "console"} : ExitProcess(t)
          \/ LtpWaitNew \/ LtpWaitSlot \/ LtpCheckPause \/ LtpGate \/ LtpAllocate
          \/ Handle
          \/ StpWaitReady \/ StpCheckPause \/ StpGate \/ StpPick \/ StpPicked
          \/ StpExecute \/ StpLoop \/ StpReply \/ WakeNext \/ WakeDone
          \/ StpBlock \/ StpFault
          \/ LoadAnswered \/ LoadDone \/ (\E s \in Sleeper : SleepEnds(s))
          \/ Pause \/ StartLtp \/ StartStp \/ StartClear \/ Raise \/ Lower
          \/ (\E n \in Degrees : SetDegree(n))
          \/ (\E p \in Process : NewProcess(p))
          \/ KillJudge \/ \E p \in Process : KillFind(p)
  BY DEF Next, Ltp, Stp, Loader, Sleeping, Command, Operator, Thread, Core

------------------------------------------------------------------------------
(* Without kills the console ends no process.                                *)

QuietConsole == {"prompt", "raise", "lower", "startStp", "startClear"}
KillOK == kills = 0 => pc["console"] \in QuietConsole

LEMMA NextKill ==
  ASSUME Typing, KillOK, [Next]_vars
  PROVE  /\ KillOK' /\ (kills' = 0 => kills = 0)
         /\ kills' = kills \/ kills < MaxKills
<1> USE ThreadAssumption
    DEF Typing, TypeOK, PcOK, RefOK, StpPC, LtpPC, ConsolePC, LoaderPC,
        SleeperPC, ReadyPC, ExitPC, Thread, Core, Goto, KillOK, QuietConsole
<1>0. kills \in Nat
  OBVIOUS
<1>1. CASE \E t \in Thread : ReadyProcess(t)
  BY <1>1 DEF ReadyProcess, Push, SetReady, Post
<1>2. CASE \E t \in {"stp", "console"} : ExitProcess(t)
  BY <1>2 DEF ExitProcess, ReleaseNext, ReleaseDone, RemoveReady, Delist, SetExit,
     GiveSlot, WakeWaiter
<1>3. CASE LtpWaitNew \/ LtpWaitSlot \/ LtpCheckPause \/ LtpGate \/ LtpAllocate
  BY <1>3 DEF LtpWaitNew, LtpWaitSlot, LtpCheckPause, LtpGate, LtpAllocate
<1>4. CASE Handle
  BY <1>4 DEF Handle, Yield, HandleContinue, HandleSignal, HandleRequeue,
     HandleEvicted, HandleFileIO, HandleSleep, HandleWait, HandleSleepForever,
     HandlePageFault, HandleExit, ReadyCurrent
<1>5. CASE StpWaitReady \/ StpCheckPause \/ StpGate \/ StpPick \/ StpPicked
           \/ StpExecute \/ StpLoop \/ StpReply \/ WakeNext \/ WakeDone \/ StpBlock
           \/ StpFault
  BY <1>5 DEF StpWaitReady, StpCheckPause, StpGate, StpPick, StpPicked, StpExecute,
     StpLoop, StpReply, WakeNext, WakeWaiter, WakeDone, StpBlock, StpFault
<1>6. CASE LoadAnswered \/ LoadDone \/ \E s \in Sleeper : SleepEnds(s)
  BY <1>6 DEF LoadAnswered, LoadDone, SleepEnds
<1>7. CASE \/ Pause \/ StartLtp \/ StartStp \/ StartClear \/ Raise \/ Lower
           \/ (\E n \in Degrees : SetDegree(n)) \/ \E p \in Process : NewProcess(p)
  BY <1>7 DEF Pause, StartLtp, StartStp, StartClear, Raise, Lower, SetDegree,
              DegreeStep, NewProcess
<1>8. CASE KillJudge \/ \E p \in Process : KillFind(p)
  BY <1>8 DEF KillJudge, KillFind
<1>9. CASE UNCHANGED vars
  BY <1>9 DEF vars
<1> QED BY <1>1, <1>2, <1>3, <1>4, <1>5, <1>6, <1>7, <1>8, <1>9, NextCases

------------------------------------------------------------------------------
(* Queued processes and wake-ups.                                            *)

\* A step that neither queues nor wakes.
SameQueues ==
  /\ UNCHANGED <<newQ, readyQ, newEvents, readyEvents>>
  /\ Posting' = Posting /\ Woken' = Woken /\ Admitting' = Admitting

LEMMA PostingFinite ==
  /\ IsFiniteSet(Thread)
  /\ IsFiniteSet(Posting) /\ Cardinality(Posting) \in Nat
  /\ IsFiniteSet(Posting') /\ Cardinality(Posting') \in Nat
<1>1. IsFiniteSet(Core)
  <2>1. IsFiniteSet({"stp"})
    BY FS_Singleton
  <2>2. IsFiniteSet({"stp"} \cup {"ltp"})
    BY <2>1, FS_AddElement
  <2>3. IsFiniteSet(({"stp"} \cup {"ltp"}) \cup {"console"})
    BY <2>2, FS_AddElement
  <2>4. IsFiniteSet((({"stp"} \cup {"ltp"}) \cup {"console"}) \cup {"loader"})
    BY <2>3, FS_AddElement
  <2>5. Core = (({"stp"} \cup {"ltp"}) \cup {"console"}) \cup {"loader"}
    BY DEF Core
  <2> QED BY <2>4, <2>5
<1>2. IsFiniteSet(Thread)
  BY <1>1, ThreadAssumption, FS_Union DEF Thread
<1>3. Posting \in SUBSET Thread /\ Posting' \in SUBSET Thread
  BY DEF Posting
<1> QED BY <1>2, <1>3, FS_Subset, FS_CardinalityType

\* No thread starts or ends announcing a READY process, and neither planner
\* starts or ends serving a wake-up.
Announcing == {"status", "post"}
Steady ==
  /\ \A t \in Thread : pc[t] \in Announcing <=> pc'[t] \in Announcing
  /\ pc["stp"] \in {"check", "gate", "pick"} <=> pc'["stp"] \in {"check", "gate", "pick"}
  /\ pc["ltp"] \in {"slot", "check", "gate", "alloc"}
       <=> pc'["ltp"] \in {"slot", "check", "gate", "alloc"}

LEMMA SteadyCounts ==
  Steady => Posting' = Posting /\ Woken' = Woken /\ Admitting' = Admitting
  BY DEF Steady, Announcing, Posting, Woken, Admitting

LEMMA QueueInit == Init => QueueBacked
<1> SUFFICES ASSUME Init PROVE QueueBacked
  OBVIOUS
<1>1. Posting = {}
  BY ThreadAssumption DEF Init, Posting, Thread, Core
<1>2. Len(newQ) = 0 /\ Len(readyQ) = 0
  BY DEF Init
<1>3. pc["stp"] = "ready" /\ pc["ltp"] = "new"
  BY DEF Init, Thread, Core
<1>4. Cardinality(Posting) = 0 /\ Woken = 0 /\ Admitting = 0
  BY <1>1, <1>3, FS_EmptySet DEF Woken, Admitting
<1> QED BY <1>2, <1>4 DEF Init, QueueBacked

LEMMA QueueReady ==
  ASSUME Ownership, QueueBacked, NEW t \in Thread, ReadyProcess(t)
  PROVE  QueueBacked'
<1> USE ThreadAssumption
    DEF Ownership, Typing, TypeOK, PcOK, RefOK, StpPC, LtpPC, ConsolePC, LoaderPC,
        SleeperPC, ReadyPC, ExitPC, Thread, Core, Goto,
        semVars, queueVars, planVars, flowVars
<1>1. CASE Push(t)
  <2>1. /\ subject[t] \in Process /\ readyQ \in Seq(Process) /\ pc[t] = "push"
        /\ pc' = [pc EXCEPT ![t] = "status"] /\ readyQ' = OnReady(readyQ, subject[t])
        /\ UNCHANGED <<newQ, newEvents, readyEvents, kills>>
    BY <1>1 DEF Push
  <2>2. Len(readyQ') = Len(readyQ) + 1 /\ Len(readyQ) \in Nat
    BY <2>1, OnReadyAdds, LenProperties
  <2>3. Posting' = Posting \cup {t} /\ t \notin Posting
    BY <2>1 DEF Posting
  <2>4. Cardinality(Posting') = Cardinality(Posting) + 1
    BY <2>3, PostingFinite, FS_AddElement
  <2>5. Woken' = Woken /\ Admitting' = Admitting
    BY <2>1 DEF Woken, Admitting
  <2>6. Woken \in {0, 1} /\ Admitting \in {0, 1}
    BY DEF Woken, Admitting
  <2> QED BY <2>1, <2>2, <2>4, <2>5, <2>6, PostingFinite DEF QueueBacked
<1>2. CASE SetReady(t)
  <2>1. SameQueues /\ kills' = kills
    BY <1>2 DEF SetReady, SameQueues, Posting, Woken, Admitting
  <2> QED BY <2>1 DEF SameQueues, QueueBacked
<1>3. CASE Post(t)
  <2>1. /\ pc[t] = "post" /\ pc' = [pc EXCEPT ![t] = Resume(t)]
        /\ readyEvents' = readyEvents + 1 /\ readyEvents \in Nat
        /\ UNCHANGED <<newQ, readyQ, newEvents, kills>>
    BY <1>3 DEF Post
  <2>2. Resume(t) \in {"loop", "wake", "release", "new", "freePage", "idle"}
        /\ (t = "stp" => Resume(t) \in {"loop", "wake", "release"})
        /\ (t = "ltp" => Resume(t) = "new")
    BY DEF Resume
  <2>3. Posting' = Posting \ {t} /\ t \in Posting
    BY <2>1, <2>2 DEF Posting
  <2>4. Cardinality(Posting') = Cardinality(Posting) - 1
    BY <2>3, PostingFinite, FS_RemoveElement
  <2>5. Woken' = Woken /\ Admitting' = Admitting
    BY <2>1, <2>2 DEF Woken, Admitting
  <2>6. Woken \in {0, 1} /\ Admitting \in {0, 1}
    BY DEF Woken, Admitting
  <2> QED BY <2>1, <2>4, <2>5, <2>6, PostingFinite DEF QueueBacked
<1> QED BY <1>1, <1>2, <1>3 DEF ReadyProcess

\* A kill may take a queued process away and leave its wake-up behind; a process
\* that exits by itself is not queued.
LEMMA QueueExit ==
  ASSUME Ownership, KillOK, QueueBacked, NEW t \in {"stp", "console"}, ExitProcess(t)
  PROVE  QueueBacked'
<1> USE ThreadAssumption
    DEF Ownership, Typing, TypeOK, PcOK, RefOK, StpPC, LtpPC, ConsolePC, LoaderPC,
        SleeperPC, ReadyPC, ExitPC, Thread, Core, Goto,
        semVars, queueVars, planVars, flowVars
<1>1. CASE RemoveReady(t)
  <2>1. /\ own[t] \in Process /\ readyQ \in Seq(Process) /\ pc[t] = "remove"
        /\ readyQ' = Without(readyQ, own[t]) /\ pc' = [pc EXCEPT ![t] = "delist"]
        /\ UNCHANGED <<newQ, newEvents, readyEvents, kills>>
    BY <1>1 DEF RemoveReady
  <2>2. /\ readyQ' \in Seq(Process) /\ Len(readyQ') <= Len(readyQ)
        /\ Len(readyQ) \in Nat /\ Len(readyQ') \in Nat
    BY <2>1, WithoutRemoves, LenProperties
  <2>3. Posting' = Posting /\ Woken' = Woken /\ Admitting' = Admitting
    BY <2>1 DEF Posting, Woken, Admitting
  <2>4. kills = 0 => Len(readyQ') = Len(readyQ)
    <3> SUFFICES ASSUME kills = 0 PROVE Len(readyQ') = Len(readyQ)
      OBVIOUS
    <3>1. t = "stp"
      BY <2>1 DEF KillOK, QuietConsole
    <3>2. "hand" \in Places /\ At("hand", own[t])
      BY <2>1, <3>1 DEF Places, At, InHand
    <3>3. own[t] \notin ToSet(readyQ)
      BY <2>1, <3>2, Elsewhere DEF Only
    <3> QED BY <2>1, <3>3, WithoutRemoves
  <2>5. Woken \in {0, 1} /\ Admitting \in {0, 1}
    BY DEF Woken, Admitting
  <2> QED BY <2>1, <2>2, <2>3, <2>4, <2>5, PostingFinite DEF QueueBacked
<1>2. CASE ReleaseNext(t) \/ ReleaseDone(t) \/ Delist(t) \/ SetExit(t) \/ GiveSlot(t)
  <2>0. /\ UNCHANGED <<newQ, readyQ, newEvents, readyEvents, kills>>
        /\ pc[t] \in ExitPC
        /\ \E l \in ExitPC \cup {"push", "loop", "prompt"} : pc' = [pc EXCEPT ![t] = l]
    BY <1>2 DEF ReleaseNext, WakeWaiter, ReleaseDone, Delist, SetExit, GiveSlot
  <2>1. SameQueues /\ kills' = kills
    BY <2>0 DEF SameQueues, Posting, Woken, Admitting
  <2> QED BY <2>1 DEF SameQueues, QueueBacked
<1> QED BY <1>1, <1>2 DEF ExitProcess

LEMMA QueueNext ==
  ASSUME Ownership, KillOK, QueueBacked, [Next]_vars
  PROVE  QueueBacked'
<1> USE ThreadAssumption
    DEF Ownership, Typing, TypeOK, PcOK, RefOK, StpPC, LtpPC, ConsolePC, LoaderPC,
        SleeperPC, ReadyPC, ExitPC, Thread, Core, Goto,
        semVars, queueVars, planVars, flowVars
<1>0. /\ newEvents \in Nat /\ readyEvents \in Nat
      /\ newQ \in Seq(Process) /\ readyQ \in Seq(Process)
      /\ Len(newQ) \in Nat /\ Len(readyQ) \in Nat
      /\ (kills' = 0 => kills = 0)
  BY NextKill, LenProperties
<1>a. SameQueues => QueueBacked'
  BY <1>0 DEF SameQueues, QueueBacked
<1>1. CASE LtpWaitNew
  <2>1. /\ newEvents' = newEvents - 1 /\ Admitting = 0 /\ Admitting' = 1
        /\ UNCHANGED <<newQ, readyQ, readyEvents>>
        /\ Posting' = Posting /\ Woken' = Woken
    BY <1>1 DEF LtpWaitNew, Admitting, Posting, Woken
  <2> QED BY <1>0, <2>1, PostingFinite DEF QueueBacked
<1>2. CASE LtpAllocate
  <2>1. /\ newQ # <<>> /\ newQ' = Tail(newQ)
        /\ Admitting = 1 /\ Admitting' = 0
        /\ UNCHANGED <<newEvents, readyQ, readyEvents>>
        /\ Posting' = Posting /\ Woken' = Woken
    BY <1>2 DEF LtpAllocate, Admitting, Posting, Woken
  <2>2. Len(newQ') = Len(newQ) - 1
    BY <1>0, <2>1, TailRemoves
  <2> QED BY <1>0, <2>1, <2>2, PostingFinite DEF QueueBacked
<1>3. CASE \E p \in Process : NewProcess(p)
  <2>1. PICK p \in Process : NewProcess(p)
    BY <1>3
  <2>2. /\ newQ' = Append(newQ, p) /\ newEvents' = newEvents + 1
        /\ UNCHANGED <<readyQ, readyEvents>>
        /\ Posting' = Posting /\ Woken' = Woken /\ Admitting' = Admitting
    BY <2>1 DEF NewProcess, Admitting, Posting, Woken
  <2>3. Len(newQ') = Len(newQ) + 1
    BY <1>0, <2>2, AppendAdds
  <2>4. Admitting \in {0, 1}
    BY DEF Admitting
  <2> QED BY <1>0, <2>2, <2>3, <2>4, PostingFinite DEF QueueBacked
<1>4. CASE StpWaitReady
  <2>1. /\ readyEvents' = readyEvents - 1 /\ Woken = 0 /\ Woken' = 1
        /\ UNCHANGED <<newQ, readyQ, newEvents>>
        /\ Posting' = Posting /\ Admitting' = Admitting
    BY <1>4 DEF StpWaitReady, Admitting, Posting, Woken
  <2> QED BY <1>0, <2>1, PostingFinite DEF QueueBacked
<1>5. CASE StpPick
  <2>1. /\ Woken = 1 /\ Woken' = 0
        /\ readyQ # <<>> => readyQ' = Tail(readyQ)
        /\ readyQ = <<>> => readyQ' = readyQ
        /\ UNCHANGED <<newQ, newEvents, readyEvents>>
        /\ Posting' = Posting /\ Admitting' = Admitting
    BY <1>5 DEF StpPick, Admitting, Posting, Woken
  <2>2. CASE readyQ # <<>>
    <3>1. Len(readyQ') = Len(readyQ) - 1
      BY <1>0, <2>1, <2>2, TailRemoves
    <3> QED BY <1>0, <2>1, <3>1, PostingFinite DEF QueueBacked
  <2>3. CASE readyQ = <<>>
    <3>1. Len(readyQ) = 0 /\ readyQ' = readyQ
      BY <2>1, <2>3
    <3> QED BY <1>0, <2>1, <3>1, PostingFinite DEF QueueBacked
  <2> QED BY <2>2, <2>3
<1>6. CASE \E t \in Thread : ReadyProcess(t)
  BY <1>6, QueueReady
<1>7. CASE \E t \in {"stp", "console"} : ExitProcess(t)
  BY <1>7, QueueExit
<1>8. CASE LtpWaitSlot \/ LtpCheckPause \/ LtpGate
  BY <1>8, <1>a DEF LtpWaitSlot, LtpCheckPause, LtpGate, SameQueues, Posting, Woken, Admitting
<1>9. CASE Handle
  <2>1. UNCHANGED <<newQ, readyQ, newEvents, readyEvents>>
    BY <1>9 DEF Handle, Yield, HandleContinue, HandleSignal, HandleRequeue,
     HandleEvicted, HandleFileIO, HandleSleep, HandleWait, HandleSleepForever,
     HandlePageFault, HandleExit, ReadyCurrent
  <2>2. Posting' = Posting /\ Woken' = Woken /\ Admitting' = Admitting
    BY ZenonT(60), <1>9 DEF Handle, Yield, HandleContinue, HandleSignal, HandleRequeue,
     HandleEvicted, HandleFileIO, HandleSleep, HandleWait, HandleSleepForever,
     HandlePageFault, HandleExit, ReadyCurrent, Handling, Posting, Woken, Admitting
  <2> QED BY <1>a, <2>1, <2>2 DEF SameQueues
<1>10. CASE \/ StpCheckPause \/ StpGate \/ StpPicked \/ StpExecute \/ StpLoop
            \/ StpReply \/ WakeNext \/ WakeDone \/ StpBlock \/ StpFault
  <2>1. UNCHANGED <<newQ, readyQ, newEvents, readyEvents>>
    BY <1>10 DEF StpCheckPause, StpGate, StpPicked, StpExecute, StpLoop, StpReply,
       WakeNext, WakeWaiter, WakeDone, StpBlock, StpFault
  <2>2. Posting' = Posting /\ Woken' = Woken /\ Admitting' = Admitting
    <3>1. CASE StpCheckPause \/ StpGate
      BY <1>10, <3>1 DEF StpCheckPause, StpGate, Posting, Woken, Admitting
    <3>2. CASE StpFault
      <4>1. /\ pc' = [pc EXCEPT !["stp"] = "loop", !["loader"] = "load"]
            /\ pc["stp"] = "fault" /\ pc["loader"] = "idle"
        BY <3>2 DEF StpFault, Rest, LoaderOK
      <4>2. Steady
        BY <4>1 DEF Steady, Announcing
      <4> QED BY <4>2, SteadyCounts
    <3>3. CASE \/ StpPicked \/ StpExecute \/ StpLoop \/ StpReply
               \/ WakeNext \/ WakeDone \/ StpBlock
      <4>1. /\ pc["stp"] \notin {"check", "gate", "pick", "status", "post"}
            /\ \/ Goto("stp", "ready") \/ Goto("stp", "exec") \/ Goto("stp", "loop")
               \/ Goto("stp", "cpu") \/ Goto("stp", "replyGate") \/ Goto("stp", "handle")
               \/ Goto("stp", "push") \/ Goto("stp", "wake")
        BY <3>3 DEF StpPicked, StpExecute, StpLoop, StpReply, WakeNext, WakeWaiter,
           WakeDone, StpBlock
      <4>2. Steady
        BY <4>1 DEF Steady, Announcing
      <4> QED BY <4>2, SteadyCounts
    <3> QED BY <1>10, <3>1, <3>2, <3>3
  <2> QED BY <1>a, <2>1, <2>2 DEF SameQueues
<1>11. CASE \/ LoadAnswered \/ LoadDone \/ (\E s \in Sleeper : SleepEnds(s))
            \/ Pause \/ StartLtp \/ StartStp \/ StartClear \/ Raise \/ Lower
            \/ (\E n \in Degrees : SetDegree(n))
            \/ KillJudge \/ \E p \in Process : KillFind(p)
  <2>1. UNCHANGED <<newQ, readyQ, newEvents, readyEvents>>
    BY <1>11 DEF LoadAnswered, LoadDone, SleepEnds, Pause, StartLtp, StartStp, StartClear,
       Raise, Lower, SetDegree, DegreeStep, KillJudge, KillFind
  <2>2. Posting' = Posting /\ Woken' = Woken /\ Admitting' = Admitting
    <3>1. CASE LoadAnswered \/ LoadDone
      <4>1. /\ pc["loader"] \in {"load", "freePage"}
            /\ \/ Goto("loader", "push") \/ Goto("loader", "freePage")
               \/ Goto("loader", "idle")
        BY <3>1 DEF LoadAnswered, LoadDone
      <4>2. Steady
        BY <4>1 DEF Steady, Announcing
      <4> QED BY <4>2, SteadyCounts
    <3>2. CASE \E s \in Sleeper : SleepEnds(s)
      <4>1. Steady
        BY <3>2 DEF SleepEnds, Steady, Announcing
      <4> QED BY <4>1, SteadyCounts
    <3>3. CASE \/ Pause \/ StartLtp \/ StartStp \/ StartClear \/ Raise \/ Lower
               \/ (\E n \in Degrees : SetDegree(n))
               \/ KillJudge \/ \E p \in Process : KillFind(p)
      <4>1. /\ pc["console"] \notin {"status", "post"}
            /\ \/ pc' = pc
               \/ Goto("console", "prompt") \/ Goto("console", "startStp")
               \/ Goto("console", "startClear") \/ Goto("console", "raise")
               \/ Goto("console", "lower") \/ Goto("console", "judge")
               \/ Goto("console", "release")
        BY <3>3 DEF Pause, StartLtp, StartStp, StartClear, Raise, Lower, SetDegree,
           DegreeStep, KillJudge, KillFind, Prompt
      <4>2. Steady
        BY <4>1 DEF Steady, Announcing
      <4> QED BY <4>2, SteadyCounts
    <3> QED BY <1>11, <3>1, <3>2, <3>3
  <2> QED BY <1>a, <2>1, <2>2 DEF SameQueues
<1>12. CASE UNCHANGED vars
  BY <1>12, <1>a DEF vars, SameQueues, Posting, Woken, Admitting
<1> QED BY <1>1, <1>2, <1>3, <1>4, <1>5, <1>6, <1>7, <1>8, <1>9, <1>10, <1>11, <1>12,
           NextCases

------------------------------------------------------------------------------
(* Slots.  Without kills, who is anywhere but in NEW holds one.              *)

Placed(p) ==
  \/ p \in ToSet(readyQ) \/ p \in waiting \/ InHand(p)
  \/ \E t \in Thread : Carries(t, p)

ActiveOK ==
  kills = 0 =>
    \A p \in Process : /\ Placed(p) => p \in active
                       /\ p \in ToSet(newQ) => p \notin active

Slotted == KillOK /\ ActiveOK /\ SlotsConserved

\* A step that neither admits nor lets go.
SameSlots ==
  /\ UNCHANGED <<newQ, slots, degree, delta, active>>
  /\ LtpHolds' = LtpHolds
  /\ \A p \in Process : Placed(p)' => Placed(p)

LEMMA SameSlotsKeep ==
  ASSUME Ownership, Slotted, [Next]_vars, SameSlots
  PROVE  ActiveOK' /\ SlotsConserved'
<1>1. kills' = 0 => kills = 0
  BY NextKill DEF Slotted, Ownership
<1> QED BY <1>1 DEF SameSlots, Slotted, ActiveOK, SlotsConserved

LEMMA SlotsInit == Init => KillOK /\ ActiveOK /\ SlotsConserved
<1> SUFFICES ASSUME Init PROVE KillOK /\ ActiveOK /\ SlotsConserved
  OBVIOUS
<1>1. pc["stp"] = "ready" /\ pc["ltp"] = "new" /\ pc["console"] = "prompt"
  BY DEF Init, Thread, Core
<1>2. ToSet(<<>>) = {}
  BY DEF ToSet
<1>3. ASSUME NEW p \in Process PROVE ~Placed(p) /\ p \notin ToSet(newQ)
  BY <1>2, ThreadAssumption DEF Init, Placed, InHand, Carries, Thread, Core, ReadyPC, ExitPC
<1>4. Cardinality(active) = 0 /\ LtpHolds = 0
  BY <1>1, FS_EmptySet DEF Init, LtpHolds
<1>5. SlotsConserved
  BY <1>4, BoundAssumption DEF Init, SlotsConserved
<1> QED BY <1>1, <1>3, <1>5 DEF KillOK, QuietConsole, ActiveOK

LEMMA SameSlotsReady ==
  ASSUME Ownership, NEW t \in Thread, ReadyProcess(t)
  PROVE  SameSlots
<1> USE ThreadAssumption
    DEF Ownership, Typing, TypeOK, PcOK, RefOK, StpPC, LtpPC, ConsolePC, LoaderPC,
        SleeperPC, ReadyPC, ExitPC, Thread, Core, Goto,
        semVars, queueVars, planVars, flowVars, Rest, Placed, InHand, Carries
<1>1. CASE Push(t)
  <2>1. /\ subject[t] \in Process /\ pc[t] = "push" /\ pc' = [pc EXCEPT ![t] = "status"]
        /\ readyQ' = OnReady(readyQ, subject[t])
        /\ UNCHANGED <<status, semVars, newQ, actual, running, waiting, planVars,
                       flowVars, kills, active>>
    BY <1>1 DEF Push
  <2>2. ToSet(readyQ') = ToSet(readyQ) \cup {subject[t]}
    BY <2>1, OnReadyAdds
  <2>3. \A p \in Process : Placed(p)' => Placed(p)
    BY <2>1, <2>2
  <2> QED BY <2>1, <2>3 DEF SameSlots, LtpHolds
<1>2. CASE SetReady(t)
  <2>1. /\ subject[t] \in Process /\ pc[t] = "status" /\ pc' = [pc EXCEPT ![t] = "post"]
        /\ status' = [status EXCEPT ![subject[t]] = "READY"]
        /\ UNCHANGED <<semVars, queueVars, planVars, flowVars, kills, active>>
    BY <1>2 DEF SetReady
  <2>2. \A p \in Process : Placed(p)' => Placed(p)
    BY <2>1
  <2> QED BY <2>1, <2>2 DEF SameSlots, LtpHolds
<1>3. CASE Post(t)
  <2>1. /\ pc[t] = "post" /\ pc' = [pc EXCEPT ![t] = Resume(t)]
        /\ subject' = [subject EXCEPT ![t] = NoProcess]
        /\ UNCHANGED <<status, newEvents, slots, ltpGate, stpGate, pageSem,
                       queueVars, planVars, own, next, kills, active>>
    BY <1>3 DEF Post
  <2>2. /\ t = "stp" => Resume(t) = next
        /\ t = "ltp" => Resume(t) = "new"
        /\ Resume(t) \in {"loop", "wake", "release", "new", "freePage", "idle"}
    BY DEF Resume
  <2>3. \A p \in Process : Placed(p)' => Placed(p)
    BY <2>1, <2>2 DEF ExecOK, FlowOK
  <2> QED BY <2>1, <2>2, <2>3 DEF SameSlots, LtpHolds
<1> QED BY <1>1, <1>2, <1>3 DEF ReadyProcess

LEMMA SameSlotsWake ==
  ASSUME Ownership, NEW t \in {"stp", "console"}, NEW q, NEW after \in {"wake", "release"},
         after = "wake" => t = "stp",
         pc[t] = after, WakeWaiter(t, q, after)
  PROVE  SameSlots
<1> USE ThreadAssumption
    DEF Ownership, Typing, TypeOK, PcOK, RefOK, StpPC, LtpPC, ConsolePC, LoaderPC,
        SleeperPC, ReadyPC, ExitPC, Thread, Core, Goto,
        semVars, queueVars, planVars, flowVars, Rest, Placed, InHand, Carries
<1>0. /\ q \in Process /\ q \in waiting /\ waiting' = waiting \ {q}
      /\ UNCHANGED <<status, semVars, newQ, readyQ, actual, running, planVars,
                     own, kills, active>>
  BY DEF WakeWaiter
<1>1. \/ subject' = [subject EXCEPT ![t] = q] /\ pc' = [pc EXCEPT ![t] = "push"]
      \/ subject' = subject /\ pc' = [pc EXCEPT ![t] = after]
  BY DEF WakeWaiter
<1>2. \A p \in Process : Placed(p)' => Placed(p)
  BY <1>0, <1>1
<1> QED BY <1>0, <1>1, <1>2 DEF SameSlots, LtpHolds

LEMMA SameSlotsExit ==
  ASSUME Ownership, NEW t \in {"stp", "console"}, ExitProcess(t), ~GiveSlot(t)
  PROVE  SameSlots
<1> USE ThreadAssumption
    DEF Ownership, Typing, TypeOK, PcOK, RefOK, StpPC, LtpPC, ConsolePC, LoaderPC,
        SleeperPC, ReadyPC, ExitPC, Thread, Core, Goto,
        semVars, queueVars, planVars, flowVars, Rest, Placed, InHand, Carries
<1>1. CASE ReleaseNext(t)
  BY <1>1, SameSlotsWake DEF ReleaseNext
<1>2. CASE RemoveReady(t)
  <2>1. ToSet(readyQ') \subseteq ToSet(readyQ)
    BY <1>2, WithoutRemoves DEF RemoveReady
  <2>2. \A p \in Process : Placed(p)' => Placed(p)
    BY <1>2, <2>1 DEF RemoveReady
  <2> QED BY <1>2, <2>2 DEF RemoveReady, SameSlots, LtpHolds
<1>3. CASE ReleaseDone(t) \/ Delist(t) \/ SetExit(t)
  <2>1. /\ pc[t] \in ExitPC
        /\ \/ pc' = [pc EXCEPT ![t] = "remove"] /\ status' = status
           \/ pc' = [pc EXCEPT ![t] = "exit"] /\ status' = status
           \/ /\ pc' = [pc EXCEPT ![t] = "give"]
              /\ status' = [status EXCEPT ![own[t]] = "EXIT"]
        /\ UNCHANGED <<semVars, newQ, readyQ, waiting, planVars, flowVars, active>>
    BY <1>3 DEF ReleaseDone, Delist, SetExit
  <2>2. \A p \in Process : Placed(p)' => Placed(p)
    BY <2>1
  <2> QED BY <2>1, <2>2 DEF SameSlots, LtpHolds
<1> QED BY <1>1, <1>2, <1>3 DEF ExitProcess

LEMMA SameSlotsHandle ==
  ASSUME Ownership, Handle
  PROVE  SameSlots
<1> USE ThreadAssumption
    DEF Ownership, Typing, TypeOK, PcOK, RefOK, StpPC, LtpPC, ConsolePC, LoaderPC,
        SleeperPC, ReadyPC, ExitPC, Thread, Core, Goto, Handling, Current,
        semVars, queueVars, planVars, flowVars, Rest, Placed, InHand, Carries
<1>0. /\ pc["stp"] = "handle" /\ own["stp"] \in Process /\ own' = own
      /\ UNCHANGED <<newQ, readyQ, slots, degree, delta, active>>
  BY DEF Handle, Yield, HandleContinue, HandleSignal, HandleRequeue, HandleEvicted,
     HandleFileIO, HandleSleep, HandleWait, HandleSleepForever, HandlePageFault,
     HandleExit, ReadyCurrent
<1>1. CASE HandleSleep
  <2>1. PICK s \in Sleeper :
          /\ pc[s] = "idle" /\ pc' = [pc EXCEPT !["stp"] = "loop", ![s] = "sleep"]
          /\ subject' = [subject EXCEPT ![s] = own["stp"]]
    BY <1>1 DEF HandleSleep
  <2>2. status' = [status EXCEPT ![own["stp"]] = "BLOCK"] /\ waiting' = waiting
    BY <1>1 DEF HandleSleep
  <2>3. /\ pc'["stp"] = "loop" /\ pc'["ltp"] = pc["ltp"]
        /\ \A t \in Thread : t # "stp" /\ t # s => pc'[t] = pc[t]
        /\ \A t \in Thread : subject'[t] = IF t = s THEN own["stp"] ELSE subject[t]
    BY <2>1
  <2>4. \A p \in Process : Placed(p)' => Placed(p)
    BY <1>0, <2>2, <2>3
  <2> QED BY <1>0, <2>3, <2>4 DEF SameSlots, LtpHolds
<1>2. CASE ~HandleSleep
  <2>1. /\ pc'["ltp"] = pc["ltp"]
        /\ \A t \in Thread \ {"stp"} : pc'[t] = pc[t] /\ subject'[t] = subject[t]
        /\ waiting' \subseteq waiting \cup {own["stp"]}
        /\ pc'["stp"] \in {"loop", "wake", "block", "fault", "release", "remove", "push"}
        /\ pc'["stp"] = "push" => subject'["stp"] = own["stp"]
    BY <1>0, <1>2 DEF Handle, Yield, HandleContinue, HandleSignal, HandleRequeue,
       HandleEvicted, HandleFileIO, HandleWait, HandleSleepForever, HandlePageFault,
       HandleExit, ReadyCurrent
  <2>2. \A p \in Process : Placed(p)' => Placed(p)
    BY <1>0, <2>1
  <2> QED BY <1>0, <2>1, <2>2 DEF SameSlots, LtpHolds
<1> QED BY <1>1, <1>2

LEMMA SameSlotsStp ==
  ASSUME Ownership,
         \/ StpWaitReady \/ StpCheckPause \/ StpGate \/ StpPick \/ StpPicked
         \/ StpExecute \/ StpLoop \/ StpReply \/ WakeNext \/ WakeDone
         \/ StpBlock \/ StpFault
  PROVE  SameSlots
<1> USE ThreadAssumption
    DEF Ownership, Typing, TypeOK, PcOK, RefOK, StpPC, LtpPC, ConsolePC, LoaderPC,
        SleeperPC, ReadyPC, ExitPC, Thread, Core, Goto, Current,
        semVars, queueVars, planVars, flowVars, Rest, Placed, InHand, Carries
<1>1. CASE StpWaitReady \/ StpCheckPause \/ StpGate \/ StpReply \/ WakeDone
  <2>1. /\ UNCHANGED <<status, queueVars, planVars, flowVars, slots, active>>
        /\ \/ /\ pc["stp"] \in {"ready", "check", "gate"}
              /\ \E l \in {"check", "gate", "pick"} : pc' = [pc EXCEPT !["stp"] = l]
           \/ /\ pc["stp"] \in {"replyGate", "cpu", "wake"}
              /\ \E l \in {"replyGate", "handle", "loop"} :
                   pc' = [pc EXCEPT !["stp"] = l]
    BY <1>1 DEF StpWaitReady, StpCheckPause, StpGate, StpReply, WakeDone
  <2>2. \A p \in Process : Placed(p)' => Placed(p)
    BY <2>1
  <2> QED BY <2>1, <2>2 DEF SameSlots, LtpHolds
<1>2. CASE StpPick
  <2>1. /\ pc["stp"] = "pick" /\ pc' = [pc EXCEPT !["stp"] = "picked"]
        /\ own["stp"] = NoProcess
        /\ UNCHANGED <<status, semVars, newQ, actual, running, waiting, planVars,
                       subject, next, kills, active>>
    BY <1>2 DEF StpPick, StpIdle
  <2>2. CASE readyQ = <<>>
    <3>1. UNCHANGED <<own, readyQ>>
      BY <1>2, <2>2 DEF StpPick
    <3>2. \A p \in Process : Placed(p)' => Placed(p)
      BY <2>1, <3>1
    <3> QED BY <2>1, <3>2 DEF SameSlots, LtpHolds
  <2>3. CASE readyQ # <<>>
    <3>1. own' = [own EXCEPT !["stp"] = Head(readyQ)] /\ readyQ' = Tail(readyQ)
      BY <1>2, <2>3 DEF StpPick
    <3>2. Head(readyQ) \in ToSet(readyQ) /\ ToSet(Tail(readyQ)) \subseteq ToSet(readyQ)
      BY <2>3, TailRemoves
    <3>3. \A p \in Process : Placed(p)' => Placed(p)
      BY <2>1, <3>1, <3>2
    <3> QED BY <2>1, <3>3 DEF SameSlots, LtpHolds
  <2> QED BY <2>2, <2>3
<1>3. CASE StpPicked
  <2>1. /\ pc["stp"] = "picked"
        /\ \/ own["stp"] = NoProcess /\ pc' = [pc EXCEPT !["stp"] = "ready"]
           \/ own["stp"] # NoProcess /\ pc' = [pc EXCEPT !["stp"] = "exec"]
        /\ UNCHANGED <<status, semVars, newQ, readyQ, running, waiting, planVars,
                       flowVars, kills, active>>
    BY <1>3 DEF StpPicked
  <2>2. \A p \in Process : Placed(p)' => Placed(p)
    BY <2>1
  <2> QED BY <2>1, <2>2 DEF SameSlots, LtpHolds
<1>4. CASE StpExecute \/ StpBlock
  <2>1. /\ \/ pc["stp"] = "exec" /\ status' = [status EXCEPT ![own["stp"]] = "EXEC"]
           \/ pc["stp"] = "block" /\ status' = [status EXCEPT ![own["stp"]] = "BLOCK"]
        /\ pc' = [pc EXCEPT !["stp"] = "loop"]
        /\ UNCHANGED <<semVars, queueVars, planVars, flowVars, kills, active>>
    BY <1>4 DEF StpExecute, StpBlock
  <2>2. \A p \in Process : Placed(p)' => Placed(p)
    BY <2>1
  <2> QED BY <2>1, <2>2 DEF SameSlots, LtpHolds
<1>5. CASE StpLoop
  <2>1. /\ pc["stp"] = "loop"
        /\ UNCHANGED <<status, semVars, queueVars, planVars, subject, next, kills,
                       active>>
        /\ \/ /\ status[own["stp"]] = "EXEC" /\ own' = own
              /\ pc' = [pc EXCEPT !["stp"] = "cpu"]
           \/ /\ own' = [own EXCEPT !["stp"] = NoProcess]
              /\ pc' = [pc EXCEPT !["stp"] = "ready"]
    BY <1>5 DEF StpLoop
  <2>2. \A p \in Process : Placed(p)' => Placed(p)
    BY <2>1
  <2> QED BY <2>1, <2>2 DEF SameSlots, LtpHolds
<1>6. CASE WakeNext
  BY <1>6, SameSlotsWake DEF WakeNext
<1>7. CASE StpFault
  <2>1. /\ pc["stp"] = "fault" /\ pc["loader"] = "idle"
        /\ status' = [status EXCEPT ![own["stp"]] = "BLOCK"]
        /\ pc' = [pc EXCEPT !["stp"] = "loop", !["loader"] = "load"]
        /\ subject' = [subject EXCEPT !["loader"] = own["stp"]]
        /\ UNCHANGED <<slots, queueVars, planVars, own, next, kills, active>>
    BY <1>7 DEF StpFault, LoaderOK
  <2>2. /\ pc'["stp"] = "loop" /\ pc'["ltp"] = pc["ltp"]
        /\ \A t \in Thread : t # "stp" /\ t # "loader" => pc'[t] = pc[t]
        /\ \A t \in Thread : subject'[t] = IF t = "loader" THEN own["stp"] ELSE subject[t]
    BY <2>1
  <2>3. \A p \in Process : Placed(p)' => Placed(p)
    BY <2>1, <2>2
  <2> QED BY <2>1, <2>2, <2>3 DEF SameSlots, LtpHolds
<1> QED BY <1>1, <1>2, <1>3, <1>4, <1>5, <1>6, <1>7

LEMMA SameSlotsOther ==
  ASSUME Ownership,
         \/ LoadAnswered \/ LoadDone \/ (\E s \in Sleeper : SleepEnds(s))
         \/ Pause \/ StartLtp \/ StartStp \/ StartClear
         \/ (\E n \in Degrees : SetDegree(n))
         \/ KillJudge \/ (\E p \in Process : KillFind(p))
         \/ LtpWaitNew \/ LtpCheckPause \/ LtpGate \/ UNCHANGED vars
  PROVE  SameSlots
<1> USE ThreadAssumption
    DEF Ownership, Typing, TypeOK, PcOK, RefOK, StpPC, LtpPC, ConsolePC, LoaderPC,
        SleeperPC, ReadyPC, ExitPC, Thread, Core, Goto, Prompt,
        semVars, queueVars, planVars, flowVars, Rest, Placed, InHand, Carries
<1>1. CASE LoadAnswered \/ LoadDone
  <2>1. /\ UNCHANGED <<status, queueVars, planVars, own, next, active, slots>>
        /\ \/ /\ pc["loader"] = "load" /\ pc' = [pc EXCEPT !["loader"] = "push"]
              /\ subject' = subject
           \/ /\ pc' = [pc EXCEPT !["loader"] = "freePage"]
              /\ subject' = [subject EXCEPT !["loader"] = NoProcess]
           \/ pc' = [pc EXCEPT !["loader"] = "idle"] /\ subject' = subject
    BY <1>1 DEF LoadAnswered, LoadDone
  <2>2. \A p \in Process : Placed(p)' => Placed(p)
    BY <2>1
  <2> QED BY <2>1, <2>2 DEF SameSlots, LtpHolds
<1>2. CASE \E s \in Sleeper : SleepEnds(s)
  <2>1. PICK s \in Sleeper : SleepEnds(s)
    BY <1>2
  <2>2. \A p \in Process : Placed(p)' => Placed(p)
    BY <2>1 DEF SleepEnds
  <2> QED BY <2>1, <2>2 DEF SleepEnds, SameSlots, LtpHolds
<1>3. CASE \/ Pause \/ StartLtp \/ StartStp \/ StartClear \/ KillJudge
           \/ (\E n \in Degrees : SetDegree(n))
           \/ (\E p \in Process : KillFind(p))
  <2>1. /\ UNCHANGED <<status, queueVars, subject, next, slots, degree, delta, active>>
        /\ own'["stp"] = own["stp"]
        /\ pc' = pc \/ \E l \in ConsolePC \ ReadyPC : pc' = [pc EXCEPT !["console"] = l]
    BY <1>3 DEF Pause, StartLtp, StartStp, StartClear, KillJudge, SetDegree, KillFind
  <2>2. /\ \A t \in Thread : t # "console" => pc'[t] = pc[t]
        /\ pc'["console"] = pc["console"] \/ pc'["console"] \notin {"push", "sleep", "load"}
    BY <2>1
  <2>3. \A p \in Process : Placed(p)' => Placed(p)
    BY <2>1, <2>2
  <2> QED BY <2>1, <2>2, <2>3 DEF SameSlots, LtpHolds
<1>4. CASE LtpWaitNew \/ LtpCheckPause \/ LtpGate
  <2>1. /\ UNCHANGED <<status, queueVars, flowVars, planVars, active, slots>>
        /\ \/ /\ pc["ltp"] = "new" /\ pc' = [pc EXCEPT !["ltp"] = "slot"]
           \/ /\ pc["ltp"] \in {"check", "gate"}
              /\ \E l \in {"gate", "alloc"} : pc' = [pc EXCEPT !["ltp"] = l]
    BY <1>4 DEF LtpWaitNew, LtpCheckPause, LtpGate
  <2>2. \A p \in Process : Placed(p)' => Placed(p)
    BY ZenonT(60), <2>1
  <2> QED BY <2>1, <2>2 DEF SameSlots, LtpHolds
<1>5. CASE UNCHANGED vars
  BY <1>5 DEF vars, SameSlots, LtpHolds
<1> QED BY <1>1, <1>2, <1>3, <1>4, <1>5

------------------------------------------------------------------------------
(* The steps that move slots, and what each is for Admission.                *)

LEMMA ActiveFinite ==
  ASSUME Typing
  PROVE  IsFiniteSet(active) /\ Cardinality(active) \in Nat
  BY ThreadAssumption, FS_Subset, FS_CardinalityType DEF Typing, TypeOK

\* Admission counts with the same Cardinality.
LEMMA SlotsCardinality ==
  ASSUME NEW S
  PROVE  Slots!Cardinality(S) = Cardinality(S)
  BY DEF Slots!Cardinality, Cardinality

\* An abstract step, or none.
Abstract == Slots!AdmissionNext \/ UNCHANGED <<newQ, active, degree + delta>>

SlotsStep == ActiveOK' /\ SlotsConserved' /\ (kills = 0 => Abstract)

LEMMA SameSlotsStep ==
  ASSUME Ownership, Slotted, [Next]_vars, SameSlots
  PROVE  SlotsStep
  BY SameSlotsKeep DEF SlotsStep, Abstract, SameSlots

LEMMA StepWaitSlot ==
  ASSUME Ownership, Slotted, LtpWaitSlot
  PROVE  SlotsStep
<1> USE ThreadAssumption DEF Ownership, Typing, TypeOK, Thread, Core, Goto,
        semVars, queueVars, planVars, flowVars
<1>1. /\ pc["ltp"] = "slot" /\ pc' = [pc EXCEPT !["ltp"] = "check"]
      /\ slots' = slots - 1 /\ UNCHANGED <<status, queueVars, planVars, flowVars, kills, active>>
  BY DEF LtpWaitSlot
<1>2. LtpHolds = 0 /\ LtpHolds' = 1
  BY <1>1 DEF LtpHolds
<1>3. \A p \in Process : Placed(p)' => Placed(p)
  BY <1>1 DEF Placed, InHand, Carries, ReadyPC, ExitPC
<1>4. ActiveOK'
  BY <1>1, <1>3 DEF ActiveOK, Slotted
<1>5. SlotsConserved'
  BY <1>1, <1>2, ActiveFinite DEF SlotsConserved, Slotted
<1>6. Abstract
  BY <1>1 DEF Abstract
<1> QED BY <1>4, <1>5, <1>6 DEF SlotsStep

LEMMA StepAllocate ==
  ASSUME Ownership, Slotted, LtpAllocate
  PROVE  SlotsStep
<1> USE ThreadAssumption DEF Ownership, Typing, TypeOK, Thread, Core, Goto,
        semVars, queueVars, planVars, flowVars
<1>0. PICK p \in Process : p = Head(newQ)
  BY TailRemoves DEF LtpAllocate
<1>1. /\ newQ # <<>> /\ newQ' = Tail(newQ) /\ active' = active \cup {p}
      /\ pc["ltp"] = "alloc" /\ pc'["ltp"] \in {"push", "new"}
      /\ \A t \in Thread \ {"ltp"} : pc'[t] = pc[t] /\ subject'[t] = subject[t]
      /\ pc'["ltp"] = "push" => subject'["ltp"] = p
      /\ UNCHANGED <<status, semVars, readyQ, actual, waiting, planVars, own,
                     next, kills>>
  BY <1>0 DEF LtpAllocate
<1>2. /\ p \in ToSet(newQ) /\ IsInjective(newQ)
      /\ ToSet(newQ') \subseteq ToSet(newQ) /\ p \notin ToSet(newQ')
  BY <1>0, <1>1, Injective, TailRemoves
<1>3. LtpHolds = 1 /\ LtpHolds' = 0
  BY <1>1 DEF LtpHolds
<1>4. \A r \in Process : Placed(r)' => Placed(r) \/ r = p
  BY <1>1 DEF Placed, InHand, Carries, ReadyPC, ExitPC
<1>5. ActiveOK'
  BY <1>1, <1>2, <1>4 DEF ActiveOK, Slotted
<1>6. kills = 0 => Cardinality(active') = Cardinality(active) + 1
  <2>1. kills = 0 => p \notin active
    BY <1>2 DEF ActiveOK, Slotted
  <2> QED BY <1>1, <2>1, ActiveFinite, FS_AddElement
<1>a. kills = 0 => slots + 1 + Cardinality(active) = degree + delta
  BY <1>3 DEF SlotsConserved, Slotted
<1>b. slots \in Nat /\ degree \in Nat /\ delta \in Int /\ Cardinality(active) \in Nat
  BY ActiveFinite
<1>7. SlotsConserved'
  <2>1. kills = 0 => slots + 0 + Cardinality(active') = degree + delta
    BY <1>6, <1>a, <1>b
  <2> QED BY <1>1, <1>3, <2>1 DEF SlotsConserved
<1>8. ASSUME kills = 0 PROVE Slots!Admit
  <2>1. Cardinality(active) < degree + delta
    BY <1>8, <1>a, <1>b
  <2>2. newQ # <<>> /\ newQ' = Tail(newQ) /\ active' = active \cup {Head(newQ)}
    BY <1>0, <1>1
  <2>3. UNCHANGED (degree + delta)
    BY <1>1
  <2> QED BY <2>1, <2>2, <2>3, SlotsCardinality DEF Slots!Admit
<1> QED BY <1>5, <1>7, <1>8 DEF SlotsStep, Abstract, Slots!AdmissionNext

LEMMA StepGive ==
  ASSUME Ownership, Slotted, NEW t \in {"stp", "console"}, GiveSlot(t)
  PROVE  SlotsStep
<1> USE ThreadAssumption DEF Ownership, Typing, TypeOK, Thread, Core, Goto,
        semVars, queueVars, planVars, flowVars
<1>0. /\ slots' = slots + 1 /\ active' = active \ {own[t]} /\ pc[t] = "give"
      /\ UNCHANGED <<status, newQ, readyQ, waiting, degree, delta, subject, kills>>
  BY DEF GiveSlot
<1>1. ASSUME kills = 0
      PROVE  ActiveOK' /\ SlotsConserved' /\ Slots!AdmissionNext
  <2>1. t = "stp"
    BY <1>0, <1>1 DEF KillOK, QuietConsole, Slotted
  <2>2. PICK p \in Process : p = own["stp"]
    BY <1>0, <2>1 DEF RefOK, ExitPC, ReadyPC
  <2>3. /\ pc["stp"] = "give" /\ pc' = [pc EXCEPT !["stp"] = "loop"] /\ own' = own
        /\ active' = active \ {p}
    BY <2>1, <2>2 DEF GiveSlot
  <2>4. InHand(p) /\ "hand" \in Places /\ At("hand", p)
    BY <2>2, <2>3 DEF InHand, ExitPC, Places, At
  <2>5. Only("hand", p)
    BY <2>4, Elsewhere
  <2>6. p \in active
    BY <1>1, <2>4 DEF ActiveOK, Slotted, Placed
  <2>7. status[p] # "EXEC"
    BY <2>3 DEF Rest, ExecOK, ExecPC, ReadyPC
  <2>8. ~Placed(p)'
    BY <1>0, <2>2, <2>3, <2>5, <2>7, PlacesAreNot
       DEF Only, Placed, InHand, Carries, ReadyPC, ExitPC
  <2>9. \A r \in Process : Placed(r)' => Placed(r) /\ r # p
    <3>1. \A r \in Process \ {p} : Placed(r)' => Placed(r)
      BY <1>0, <2>2, <2>3 DEF Placed, InHand, Carries, ReadyPC, ExitPC
    <3> QED BY <2>8, <3>1
  <2>10. ActiveOK'
    BY <1>0, <1>1, <2>3, <2>9 DEF ActiveOK, Slotted
  <2>11. Cardinality(active') = Cardinality(active) - 1
    BY <2>3, <2>6, ActiveFinite, FS_RemoveElement
  <2>12. LtpHolds' = LtpHolds /\ LtpHolds \in {0, 1}
    BY <2>3 DEF LtpHolds
  <2>13. SlotsConserved'
    BY <1>0, <1>1, <2>11, <2>12, ActiveFinite DEF SlotsConserved, Slotted
  <2>14. Slots!Leave(p)
    BY <1>0, <2>3 DEF Slots!Leave
  <2> QED BY <2>10, <2>13, <2>14 DEF Slots!AdmissionNext
<1> QED BY <1>0, <1>1 DEF SlotsStep, Abstract, ActiveOK, SlotsConserved

LEMMA StepDegree ==
  ASSUME Ownership, Slotted, Raise \/ Lower
  PROVE  SlotsStep
<1> USE ThreadAssumption DEF Ownership, Typing, TypeOK, Thread, Core, Goto,
        semVars, queueVars, planVars, flowVars
<1>1. PICK d \in {1, -1} :
        /\ DegreeStep(d) /\ pc["console"] \in {"raise", "lower"}
        /\ d = -1 => slots > 0
  BY DEF Raise, Lower
<1>2. /\ slots' = slots + d /\ degree' + delta' = degree + delta + d
      /\ pc' = pc \/ pc' = [pc EXCEPT !["console"] = "prompt"]
      /\ UNCHANGED <<status, newQ, readyQ, waiting, subject, own, kills, active>>
  <2>1. /\ slots' = slots + d
        /\ \/ degree + delta + d = wanted /\ degree' = wanted /\ delta' = 0
           \/ delta' = delta + d /\ degree' = degree
        /\ pc' = pc \/ pc' = [pc EXCEPT !["console"] = "prompt"]
        /\ UNCHANGED <<status, newQ, readyQ, waiting, subject, own, kills, active>>
    BY <1>1 DEF DegreeStep
  <2>2. degree \in Int /\ delta \in Int /\ wanted \in Int /\ d \in Int
    OBVIOUS
  <2>3. degree' + delta' = degree + delta + d
    <3>1. CASE degree + delta + d = wanted /\ degree' = wanted /\ delta' = 0
      BY <2>2, <3>1
    <3>2. CASE delta' = delta + d /\ degree' = degree
      BY <2>2, <3>2
    <3> QED BY <2>1, <3>1, <3>2
  <2> QED BY <2>1, <2>3
<1>3. LtpHolds' = LtpHolds /\ LtpHolds \in {0, 1}
  BY <1>2 DEF LtpHolds
<1>4. \A p \in Process : Placed(p)' => Placed(p)
  BY <1>1, <1>2 DEF Placed, InHand, Carries, ReadyPC, ExitPC
<1>5. ActiveOK'
  BY <1>2, <1>4 DEF ActiveOK, Slotted
<1>6. SlotsConserved'
  BY <1>2, <1>3, ActiveFinite DEF SlotsConserved, Slotted
<1>7. ASSUME kills = 0 PROVE Slots!RaiseLimit \/ Slots!LowerLimit
  <2>1. d = -1 => Cardinality(active) < degree + delta
    BY <1>1, <1>3, <1>7, ActiveFinite DEF SlotsConserved, Slotted
  <2>2. UNCHANGED <<newQ, active>> /\ (degree + delta)' = (degree + delta) + d
    BY <1>2
  <2>3. CASE d = 1
    BY <2>2, <2>3 DEF Slots!RaiseLimit
  <2>4. CASE d = -1
    <3>1. (degree + delta)' = (degree + delta) - 1
      <4>1. degree \in Int /\ delta \in Int
        OBVIOUS
      <4> QED BY <2>2, <2>4, <4>1
    <3> QED BY <2>1, <2>2, <2>4, <3>1, SlotsCardinality DEF Slots!LowerLimit
  <2> QED BY <2>3, <2>4
<1> QED BY <1>5, <1>6, <1>7 DEF SlotsStep, Abstract, Slots!AdmissionNext

LEMMA StepNew ==
  ASSUME Ownership, Slotted, NEW p \in Process, NewProcess(p)
  PROVE  SlotsStep
<1> USE ThreadAssumption DEF Ownership, Typing, TypeOK, Thread, Core, Goto,
        semVars, queueVars, planVars, flowVars
<1>1. /\ status[p] = "NONE" /\ newQ' = Append(newQ, p)
      /\ status' = [status EXCEPT ![p] = "NEW"]
      /\ UNCHANGED <<slots, readyQ, waiting, planVars, flowVars, pc, kills, active>>
  BY DEF NewProcess
<1>2. p \notin active
  BY <1>1 DEF Rest, Created
<1>3. ToSet(newQ') = ToSet(newQ) \cup {p}
  BY <1>1, AppendAdds
<1>4. \A r \in Process : Placed(r)' => Placed(r)
  BY <1>1 DEF Placed, InHand, Carries
<1>5. ActiveOK'
  BY <1>1, <1>2, <1>3, <1>4 DEF ActiveOK, Slotted
<1>6. SlotsConserved'
  BY <1>1 DEF SlotsConserved, Slotted, LtpHolds
<1>7. Slots!Arrive(p)
  BY <1>1 DEF Slots!Arrive
<1> QED BY <1>5, <1>6, <1>7 DEF SlotsStep, Abstract, Slots!AdmissionNext

LEMMA SlotsNext ==
  ASSUME Ownership, Slotted, [Next]_vars
  PROVE  SlotsStep
<1>1. CASE \E t \in Thread : ReadyProcess(t)
  BY <1>1, SameSlotsReady, SameSlotsStep
<1>2. CASE \E t \in {"stp", "console"} : ExitProcess(t)
  BY <1>2, SameSlotsExit, SameSlotsStep, StepGive
<1>3. CASE LtpWaitSlot \/ LtpAllocate
  BY <1>3, StepWaitSlot, StepAllocate
<1>4. CASE Handle
  BY <1>4, SameSlotsHandle, SameSlotsStep
<1>5. CASE \/ StpWaitReady \/ StpCheckPause \/ StpGate \/ StpPick \/ StpPicked
           \/ StpExecute \/ StpLoop \/ StpReply \/ WakeNext \/ WakeDone
           \/ StpBlock \/ StpFault
  BY <1>5, SameSlotsStp, SameSlotsStep
<1>6. CASE Raise \/ Lower \/ \E p \in Process : NewProcess(p)
  BY <1>6, StepDegree, StepNew
<1>7. CASE \/ LoadAnswered \/ LoadDone \/ (\E s \in Sleeper : SleepEnds(s))
           \/ Pause \/ StartLtp \/ StartStp \/ StartClear
           \/ (\E n \in Degrees : SetDegree(n))
           \/ KillJudge \/ (\E p \in Process : KillFind(p))
           \/ LtpWaitNew \/ LtpCheckPause \/ LtpGate \/ UNCHANGED vars
  BY <1>7, SameSlotsOther, SameSlotsStep
<1> QED BY <1>1, <1>2, <1>3, <1>4, <1>5, <1>6, <1>7, NextCases

------------------------------------------------------------------------------
(* The theorems.                                                             *)

Counting == Ownership /\ Slotted /\ QueueBacked

LEMMA AlwaysCounting == Spec => []Counting
<1>1. Init => Counting
  BY InitOwnership, SlotsInit, QueueInit DEF Counting, Slotted
<1>2. Counting /\ [Next]_vars => Counting'
  <2> SUFFICES ASSUME Counting, [Next]_vars PROVE Counting'
    OBVIOUS
  <2>1. Ownership'
    BY NextOwnership DEF Counting
  <2>2. KillOK'
    BY NextKill DEF Counting, Ownership, Slotted
  <2>3. ActiveOK' /\ SlotsConserved'
    BY SlotsNext DEF Counting, SlotsStep
  <2>4. QueueBacked'
    BY QueueNext DEF Counting, Slotted
  <2> QED BY <2>1, <2>2, <2>3, <2>4 DEF Counting, Slotted
<1> QED BY <1>1, <1>2, PTL DEF Spec

\* Every queued process is backed by a wake-up of its planner, and without kills
\* the short-term planner is never woken for nothing.
THEOREM QueuesAreBacked == Spec => []QueueBacked
  BY AlwaysCounting, PTL DEF Counting

\* Until the first kill no slot of the multiprogramming degree is lost or made.
THEOREM NoSlotIsLost == Spec => []SlotsConserved
  BY AlwaysCounting, PTL DEF Counting, Slotted

\* With an operator who kills nobody the planners admit processes as Admission
\* says: in order of creation and never more than the degree.
THEOREM AdmissionImplemented ==
  ASSUME MaxKills = 0
  PROVE  Spec => ImplementsAdmission
<1> DEFINE Unkilled == kills = 0
<1>1. Spec => []Unkilled
  <2>1. Init => Unkilled
    BY DEF Init
  <2>2. Counting /\ Unkilled /\ [Next]_vars => Unkilled'
    BY NextKill DEF Counting, Ownership, Slotted
  <2> QED BY <2>1, <2>2, AlwaysCounting, PTL DEF Spec
<1>2. Init => Slots!AdmissionInit
  BY BoundAssumption DEF Init, Slots!AdmissionInit
<1>3. Counting /\ Unkilled /\ [Next]_vars => [Slots!AdmissionNext]_(Slots!admissionVars)
  BY SlotsNext DEF Counting, SlotsStep, Abstract, Slots!admissionVars
<1> QED BY <1>1, <1>2, <1>3, AlwaysCounting, PTL
        DEF Spec, ImplementsAdmission, Slots!AdmissionSpec
=============================================================================
