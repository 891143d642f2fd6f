--------------------------- MODULE PlanningProofs ---------------------------
(* Proofs about Planning, for every set of processes and of SLEEP threads,  *)
(* every planner, degree and number of kills.                               *)
EXTENDS Planning, QueueLemmas, FiniteSetTheorems

------------------------------------------------------------------------------
(* The ready structures.                                                    *)

\* list_add_sorted inserts at a position of the list.
LEMMA SortedIndexInRange ==
  ASSUME NEW q \in Seq(Process), NEW p \in Process
  PROVE  SortedIndex(q, p) \in 1..(Len(q) + 1)
<1> DEFINE S == {i \in DOMAIN q : \A j \in 1..i : Priority[q[j]] < Priority[p]}
<1>1. Len(q) \in Nat /\ DOMAIN q = 1..Len(q)
  BY LenProperties
<1>2. IsFiniteSet(1..Len(q)) /\ Cardinality(1..Len(q)) = Len(q)
  BY SMTT(30), <1>1, FS_Interval
<1>3. S \in SUBSET (1..Len(q))
  BY <1>1
<1> HIDE DEF S
<1>4. IsFiniteSet(S) /\ Cardinality(S) <= Len(q) /\ Cardinality(S) \in Nat
  BY <1>2, <1>3, FS_Subset, FS_CardinalityType
<1>5. 1 + Cardinality(S) \in 1..(Len(q) + 1)
  BY <1>1, <1>4
<1> QED BY <1>5 DEF SortedIndex, S

\* planner->process_on_ready adds exactly the process, wherever it puts it.
LEMMA OnReadyAdds ==
  ASSUME NEW q \in Seq(Process), NEW p \in Process
  PROVE  /\ OnReady(q, p) \in Seq(Process)
         /\ Len(OnReady(q, p)) = Len(q) + 1
         /\ ToSet(OnReady(q, p)) = ToSet(q) \cup {p}
         /\ IsInjective(q) /\ p \notin ToSet(q) => IsInjective(OnReady(q, p))
<1>1. CASE Planner # "PRIORIDADES"
  BY <1>1, AppendAdds DEF OnReady
<1>2. CASE Planner = "PRIORIDADES" /\ actual # NoProcess
           /\ Priority[p] < Priority[actual]
  <2>1. Len(q) \in Nat
    BY LenProperties
  <2>2. <<p>> \in Seq(Process) /\ Len(<<p>>) = 1 /\ <<p>>[1] = p
    OBVIOUS
  <2> DEFINE r == <<p>> \o q
  <2>3. /\ r \in Seq(Process) /\ Len(r) = Len(q) + 1
        /\ \A i \in 1..(1 + Len(q)) : r[i] = IF i <= 1 THEN <<p>>[i] ELSE q[i - 1]
    BY <2>1, <2>2, ConcatProperties
  <2> HIDE DEF r
  <2>4. r[1] = p /\ \A j \in 1..Len(q) : r[j + 1] = q[j]
    BY SMTT(30), <2>1, <2>2, <2>3
  <2>5. /\ ToSet(r) = ToSet(q) \cup {p}
        /\ IsInjective(q) /\ p \notin ToSet(q) => IsInjective(r)
    BY <2>1, <2>3, <2>4, AddAt
  <2> QED BY <1>2, <2>3, <2>5 DEF OnReady, r
<1>3. CASE Planner = "PRIORIDADES"
           /\ ~(actual # NoProcess /\ Priority[p] < Priority[actual])
  <2>1. OnReady(q, p) = InsertAt(q, SortedIndex(q, p), p)
    BY <1>3 DEF OnReady
  <2>2. SortedIndex(q, p) \in 1..(Len(q) + 1)
    BY SortedIndexInRange
  <2> DEFINE k == SortedIndex(q, p)
  <2> HIDE DEF k
  <2>3. /\ InsertAt(q, k, p) \in Seq(Process)
        /\ Len(InsertAt(q, k, p)) = Len(q) + 1
        /\ ToSet(InsertAt(q, k, p)) = ToSet(q) \cup {p}
        /\ IsInjective(q) /\ p \notin ToSet(q) => IsInjective(InsertAt(q, k, p))
    BY <2>2, InsertAdds DEF k
  <2> QED BY <2>1, <2>3 DEF k
<1> QED BY <1>1, <1>2, <1>3

\* planner->remove_process never adds or repeats, and does nothing for a
\* process that is not queued.
LEMMA WithoutRemoves ==
  ASSUME NEW q \in Seq(Process), NEW p \in Process
  PROVE  /\ Without(q, p) \in Seq(Process)
         /\ Len(Without(q, p)) <= Len(q)
         /\ ToSet(Without(q, p)) \subseteq ToSet(q)
         /\ IsInjective(q) => IsInjective(Without(q, p))
         /\ p \notin ToSet(q) => Without(q, p) = q
<1>0. Len(q) \in Nat
  BY LenProperties
<1>1. CASE ~\E i \in DOMAIN q : q[i] = p
  <2>1. Without(q, p) = q
    BY <1>1 DEF Without
  <2> QED BY <1>0, <2>1
<1>2. CASE \E i \in DOMAIN q : q[i] = p
  <2> DEFINE k == CHOOSE i \in DOMAIN q : q[i] = p
  <2>1. k \in 1..Len(q) /\ q[k] = p
    BY <1>2, Members
  <2>2. Without(q, p) = RemoveAt(q, k)
    BY <1>2 DEF Without
  <2> HIDE DEF k
  <2>3. p \in ToSet(q)
    BY <2>1, Members
  <2> QED BY <1>0, <2>1, <2>2, <2>3, RemoveAtRemoves
<1> QED BY <1>1, <1>2

------------------------------------------------------------------------------
(* Types.                                                                   *)

StpPC == {"ready", "check", "gate", "pick", "picked", "exec", "loop", "cpu",
          "replyGate", "handle", "wake", "fault", "block"} \cup ReadyPC \cup ExitPC
LtpPC == {"new", "slot", "check", "gate", "alloc"} \cup ReadyPC
ConsolePC == {"prompt", "judge", "raise", "lower", "startStp", "startClear"}
             \cup ReadyPC \cup ExitPC
LoaderPC == {"idle", "load", "freePage"} \cup ReadyPC
SleeperPC == {"idle", "sleep"} \cup ReadyPC

\* Each thread is at a point of its own code.
PcOK ==
  /\ pc["stp"] \in StpPC /\ pc["ltp"] \in LtpPC
  /\ pc["console"] \in ConsolePC /\ pc["loader"] \in LoaderPC
  /\ \A s \in Sleeper : pc[s] \in SleeperPC

\* Wherever a thread uses a pcb it has one.
RefOK ==
  /\ \A t \in Thread :
       pc[t] \in ReadyPC \cup {"sleep", "load"} => subject[t] \in Process
  /\ pc["stp"] \in {"exec", "loop", "cpu", "replyGate", "handle", "wake", "fault",
                    "block"} \cup ReadyPC \cup ExitPC => own["stp"] \in Process
  /\ pc["console"] \in {"judge"} \cup ReadyPC \cup ExitPC
       => own["console"] \in Process

Typing == TypeOK /\ PcOK /\ RefOK

LEMMA InitTyping == Init => Typing
<1> SUFFICES ASSUME Init PROVE Typing
  OBVIOUS
<1>1. TypeOK
  BY ThreadAssumption, BoundAssumption
     DEF Init, TypeOK, Status, Thread, Core, PC, ReadyPC, ExitPC
<1>2. PcOK /\ RefOK
  BY ThreadAssumption DEF Init, PcOK, RefOK, StpPC, LtpPC, ConsolePC, LoaderPC,
     SleeperPC, Thread, Core, ReadyPC, ExitPC
<1> QED BY <1>1, <1>2 DEF Typing

\* The same definitions are needed for every action.
LEMMA ReadyTyping ==
  ASSUME Typing, NEW t \in Thread, ReadyProcess(t)
  PROVE  Typing'
<1> USE ThreadAssumption
    DEF Typing, TypeOK, PcOK, RefOK, PC, StpPC, LtpPC, ConsolePC, LoaderPC,
        SleeperPC, ReadyPC, ExitPC, Thread, Core, Status, Goto,
        semVars, queueVars, planVars, flowVars
<1>1. CASE Push(t)
  <2>1. readyQ' \in Seq(Process)
    BY <1>1, OnReadyAdds DEF Push
  <2> QED BY <1>1, <2>1 DEF Push
<1>2. CASE SetReady(t)
  <2>1. TypeOK'
    BY <1>2 DEF SetReady
  <2>2. PcOK'
    BY <1>2 DEF SetReady
  <2>3. RefOK'
    BY <1>2 DEF SetReady
  <2> QED BY <2>1, <2>2, <2>3
<1>3. CASE Post(t)
  BY <1>3 DEF Post, Resume
<1> QED BY <1>1, <1>2, <1>3 DEF ReadyProcess

LEMMA WakeTyping ==
  ASSUME Typing, NEW t \in {"stp", "console"}, NEW q, NEW after \in {"wake", "release"},
         after = "wake" => t = "stp",
         pc[t] = after, WakeWaiter(t, q, after)
  PROVE  Typing'
<1> USE ThreadAssumption
    DEF Typing, TypeOK, PcOK, RefOK, PC, StpPC, LtpPC, ConsolePC, LoaderPC,
        SleeperPC, ReadyPC, ExitPC, Thread, Core, Status, Goto,
        semVars, queueVars, planVars, flowVars
<1>0. q \in Process /\ waiting' \subseteq Process
  BY DEF WakeWaiter
<1>1. CASE q \in running
  <2>1. /\ subject' = [subject EXCEPT ![t] = q]
        /\ next' \in {"loop", "wake", "release"}
        /\ pc' = [pc EXCEPT ![t] = "push"]
        /\ UNCHANGED <<status, semVars, newQ, readyQ, actual, running, planVars,
                       own, kills, active>>
    BY <1>1 DEF WakeWaiter
  <2> HIDE DEF WakeWaiter
  <2>2. TypeOK'
    BY <1>0, <2>1
  <2>3. PcOK'
    BY <2>1
  <2>4. RefOK'
    BY <1>0, <2>1
  <2> QED BY <2>2, <2>3, <2>4
<1>2. CASE q \notin running
  <2>1. /\ pc' = [pc EXCEPT ![t] = after]
        /\ UNCHANGED <<status, semVars, newQ, readyQ, actual, running, planVars,
                       subject, next, own, kills, active>>
    BY <1>2 DEF WakeWaiter
  <2>2. TypeOK'
    BY <1>0, <2>1
  <2>3. PcOK'
    BY <2>1
  <2>4. RefOK'
    BY <2>1
  <2> QED BY <2>2, <2>3, <2>4
<1> QED BY <1>1, <1>2

LEMMA ExitTyping ==
  ASSUME Typing, NEW t \in {"stp", "console"}, ExitProcess(t)
  PROVE  Typing'
<1> USE ThreadAssumption
    DEF Typing, TypeOK, PcOK, RefOK, PC, StpPC, LtpPC, ConsolePC, LoaderPC,
        SleeperPC, ReadyPC, ExitPC, Thread, Core, Status, Goto,
        semVars, queueVars, planVars, flowVars
<1>1. CASE ReleaseNext(t)
  BY <1>1, WakeTyping DEF ReleaseNext
<1>2. CASE ReleaseDone(t)
  BY <1>2 DEF ReleaseDone
<1>3. CASE RemoveReady(t)
  <2>1. readyQ' \in Seq(Process)
    BY <1>3, WithoutRemoves DEF RemoveReady
  <2> QED BY <1>3, <2>1 DEF RemoveReady
<1>4. CASE Delist(t)
  BY <1>4 DEF Delist
<1>5. CASE SetExit(t)
  BY <1>5 DEF SetExit
<1>6. CASE GiveSlot(t)
  BY <1>6 DEF GiveSlot
<1> QED BY <1>1, <1>2, <1>3, <1>4, <1>5, <1>6 DEF ExitProcess

LEMMA LtpTyping ==
  ASSUME Typing, Ltp
  PROVE  Typing'
<1> USE ThreadAssumption
    DEF Typing, TypeOK, PcOK, RefOK, PC, StpPC, LtpPC, ConsolePC, LoaderPC,
        SleeperPC, ReadyPC, ExitPC, Thread, Core, Status, Goto,
        semVars, queueVars, planVars, flowVars
<1>1. CASE LtpWaitNew
  BY <1>1 DEF LtpWaitNew
<1>2. CASE LtpWaitSlot
  BY <1>2 DEF LtpWaitSlot
<1>3. CASE LtpCheckPause
  BY <1>3 DEF LtpCheckPause
<1>4. CASE LtpGate
  BY <1>4 DEF LtpGate
<1>5. CASE LtpAllocate
  <2>1. Head(newQ) \in Process /\ newQ' \in Seq(Process)
    BY <1>5, TailRemoves DEF LtpAllocate
  <2>2. /\ UNCHANGED <<status, semVars, readyQ, actual, waiting, planVars, own,
                       next, kills>>
        /\ active' = active \cup {Head(newQ)}
    BY <1>5 DEF LtpAllocate
  <2>3. CASE /\ running' = running \cup {Head(newQ)}
             /\ subject' = [subject EXCEPT !["ltp"] = Head(newQ)]
             /\ pc' = [pc EXCEPT !["ltp"] = "push"]
    <3>1. TypeOK'
      BY <2>1, <2>2, <2>3
    <3>2. PcOK' /\ RefOK'
      BY <2>1, <2>2, <2>3
    <3> QED BY <3>1, <3>2
  <2>4. CASE pc' = [pc EXCEPT !["ltp"] = "new"] /\ UNCHANGED <<running, subject>>
    <3>1. TypeOK'
      BY <2>1, <2>2, <2>4
    <3>2. PcOK' /\ RefOK'
      BY <2>2, <2>4
    <3> QED BY <3>1, <3>2
  <2> QED BY <1>5, <2>3, <2>4 DEF LtpAllocate
<1>6. CASE ReadyProcess("ltp")
  BY <1>6, ReadyTyping
<1> QED BY <1>1, <1>2, <1>3, <1>4, <1>5, <1>6 DEF Ltp

LEMMA HandleTyping ==
  ASSUME Typing, Handle
  PROVE  Typing'
<1> USE ThreadAssumption
    DEF Typing, TypeOK, PcOK, RefOK, PC, StpPC, LtpPC, ConsolePC, LoaderPC,
        SleeperPC, ReadyPC, ExitPC, Thread, Core, Status, Goto, Handling, Current,
        semVars, queueVars, planVars, flowVars
<1>1. CASE HandleContinue
  BY <1>1 DEF HandleContinue
<1>2. CASE HandleSignal
  BY <1>2 DEF HandleSignal
<1>3. CASE HandleRequeue
  BY <1>3 DEF HandleRequeue, ReadyCurrent
<1>4. CASE HandleEvicted
  <2>1. /\ own["stp"] \in Process
        /\ UNCHANGED <<status, semVars, queueVars, planVars, own, kills, active>>
    BY <1>4 DEF HandleEvicted
  <2>2. CASE /\ subject' = [subject EXCEPT !["stp"] = own["stp"]] /\ next' = "loop"
             /\ pc' = [pc EXCEPT !["stp"] = "push"]
    <3>1. TypeOK'
      BY <2>1, <2>2
    <3>2. PcOK' /\ RefOK'
      BY <2>1, <2>2
    <3> QED BY <3>1, <3>2
  <2>3. CASE pc' = [pc EXCEPT !["stp"] = "loop"] /\ UNCHANGED <<subject, next>>
    <3>1. TypeOK'
      BY <2>1, <2>3
    <3>2. PcOK' /\ RefOK'
      BY <2>1, <2>3
    <3> QED BY <3>1, <3>2
  <2> QED BY <1>4, <2>2, <2>3 DEF HandleEvicted, ReadyCurrent
<1>5. CASE HandleFileIO
  BY <1>5 DEF HandleFileIO, ReadyCurrent
<1>6. CASE HandleSleep
  <2>1. TypeOK'
    BY ZenonT(60), <1>6 DEF HandleSleep
  <2>2. PcOK'
    BY SMTT(30), <1>6 DEF HandleSleep
  <2>3. RefOK'
    BY <1>6 DEF HandleSleep
  <2> QED BY <2>1, <2>2, <2>3
<1>7. CASE HandleWait
  BY <1>7 DEF HandleWait
<1>8. CASE HandleSleepForever
  BY <1>8 DEF HandleSleepForever
<1>9. CASE HandlePageFault
  BY <1>9 DEF HandlePageFault
<1>10. CASE HandleExit
  BY <1>10 DEF HandleExit
<1> QED BY <1>1, <1>2, <1>3, <1>4, <1>5, <1>6, <1>7, <1>8, <1>9, <1>10
        DEF Handle, Yield

LEMMA StpTyping ==
  ASSUME Typing, Stp
  PROVE  Typing'
<1> USE ThreadAssumption
    DEF Typing, TypeOK, PcOK, RefOK, PC, StpPC, LtpPC, ConsolePC, LoaderPC,
        SleeperPC, ReadyPC, ExitPC, Thread, Core, Status, Goto, Current,
        semVars, queueVars, planVars, flowVars
<1>1. CASE StpWaitReady
  BY <1>1 DEF StpWaitReady
<1>2. CASE StpCheckPause
  BY <1>2 DEF StpCheckPause
<1>3. CASE StpGate
  BY <1>3 DEF StpGate
<1>4. CASE StpPick
  <2>1. readyQ # <<>> => Head(readyQ) \in Process /\ Tail(readyQ) \in Seq(Process)
    BY TailRemoves
  <2>2. /\ readyQ' \in Seq(Process)
        /\ own' = own \/ \E p \in Process : own' = [own EXCEPT !["stp"] = p]
        /\ pc' = [pc EXCEPT !["stp"] = "picked"]
        /\ UNCHANGED <<status, semVars, newQ, actual, running, waiting, planVars,
                       subject, next, kills, active>>
    BY <1>4, <2>1 DEF StpPick
  <2>3. TypeOK'
    BY <2>2
  <2>4. PcOK'
    BY <2>2
  <2>5. RefOK'
    BY <2>2
  <2> QED BY <2>3, <2>4, <2>5
<1>5. CASE StpExecute
  BY <1>5 DEF StpExecute
<1>6. CASE StpLoop
  <2>1. TypeOK'
    BY <1>6 DEF StpLoop
  <2>2. PcOK'
    BY <1>6 DEF StpLoop
  <2>3. RefOK'
    BY <1>6 DEF StpLoop
  <2> QED BY <2>1, <2>2, <2>3
<1>7. CASE StpReply
  BY <1>7 DEF StpReply
<1>8. CASE Handle
  BY <1>8, HandleTyping
<1>9. CASE StpBlock
  BY <1>9 DEF StpBlock
<1>10. CASE StpFault
  <2>1. /\ own["stp"] \in Process /\ pageSem' \in Nat
        /\ status' = [status EXCEPT ![own["stp"]] = "BLOCK"]
        /\ pc' = [pc EXCEPT !["stp"] = "loop", !["loader"] = "load"]
        /\ subject' = [subject EXCEPT !["loader"] = own["stp"]]
        /\ UNCHANGED <<newEvents, slots, readyEvents, ltpGate, stpGate, queueVars,
                       planVars, own, next, kills, active>>
    BY <1>10 DEF StpFault
  <2>2. TypeOK'
    BY <2>1
  <2>3. PcOK'
    <3>1. /\ pc'["stp"] = "loop" /\ pc'["loader"] = "load"
          /\ pc'["ltp"] = pc["ltp"] /\ pc'["console"] = pc["console"]
      BY <2>1
    <3>2. \A s \in Sleeper : pc'[s] = pc[s]
      BY <2>1
    <3> QED BY <3>1, <3>2
  <2>4. RefOK'
    BY <2>1
  <2> QED BY <2>2, <2>3, <2>4
<1>11. CASE ReadyProcess("stp")
  BY <1>11, ReadyTyping
<1>12. CASE ExitProcess("stp")
  BY <1>12, ExitTyping
<1>13. CASE StpPicked
  <2>1. /\ actual' \in Process \cup {NoProcess}
        /\ UNCHANGED <<status, semVars, newQ, readyQ, running, waiting, planVars,
                       flowVars, kills, active>>
    BY <1>13 DEF StpPicked
  <2>2. CASE own["stp"] = NoProcess /\ pc' = [pc EXCEPT !["stp"] = "ready"]
    <3>1. TypeOK'
      BY <2>1, <2>2
    <3>2. PcOK' /\ RefOK'
      BY <2>1, <2>2
    <3> QED BY <3>1, <3>2
  <2>3. CASE own["stp"] # NoProcess /\ pc' = [pc EXCEPT !["stp"] = "exec"]
    <3>1. TypeOK'
      BY <2>1, <2>3
    <3>2. PcOK' /\ RefOK'
      BY <2>1, <2>3
    <3> QED BY <3>1, <3>2
  <2> QED BY <1>13, <2>2, <2>3 DEF StpPicked
<1>14. CASE WakeNext
  BY <1>14, WakeTyping DEF WakeNext
<1>15. CASE WakeDone
  BY <1>15 DEF WakeDone
<1> QED BY <1>1, <1>2, <1>3, <1>4, <1>5, <1>6, <1>7, <1>8, <1>9, <1>10, <1>11,
           <1>12, <1>13, <1>14, <1>15 DEF Stp

LEMMA DetachedTyping ==
  ASSUME Typing, Loader \/ \E s \in Sleeper : Sleeping(s)
  PROVE  Typing'
<1> USE ThreadAssumption
    DEF Typing, TypeOK, PcOK, RefOK, PC, StpPC, LtpPC, ConsolePC, LoaderPC,
        SleeperPC, ReadyPC, ExitPC, Thread, Core, Status, Goto,
        semVars, queueVars, planVars, flowVars
<1>1. CASE LoadAnswered
  <2>1. TypeOK'
    BY ZenonT(60), <1>1 DEF LoadAnswered
  <2>2. PcOK'
    BY ZenonT(60), <1>1 DEF LoadAnswered
  <2>3. RefOK'
    BY <1>1 DEF LoadAnswered
  <2> QED BY <2>1, <2>2, <2>3
<1>2. CASE LoadDone
  BY <1>2 DEF LoadDone
<1>3. CASE \E s \in Sleeper : SleepEnds(s)
  BY <1>3 DEF SleepEnds
<1>4. CASE ReadyProcess("loader") \/ \E s \in Sleeper : ReadyProcess(s)
  BY <1>4, ReadyTyping
<1> QED BY <1>1, <1>2, <1>3, <1>4 DEF Loader, Sleeping

LEMMA ConsoleTyping ==
  ASSUME Typing, Command \/ Operator
  PROVE  Typing'
<1> USE ThreadAssumption, BoundAssumption
    DEF Typing, TypeOK, PcOK, RefOK, PC, StpPC, LtpPC, ConsolePC, LoaderPC,
        SleeperPC, ReadyPC, ExitPC, Thread, Core, Status, Goto, Prompt,
        semVars, queueVars, planVars, flowVars
<1>1. CASE \E p \in Process : NewProcess(p)
  BY <1>1, AppendAdds DEF NewProcess
<1>2. CASE Pause
  BY <1>2 DEF Pause
<1>3. CASE StartLtp
  BY <1>3 DEF StartLtp
<1>4. CASE StartStp
  BY <1>4 DEF StartStp
<1>5. CASE StartClear
  BY ZenonT(60), <1>5 DEF StartClear
<1>6. CASE \E n \in Degrees : SetDegree(n)
  BY <1>6 DEF SetDegree
<1>7. CASE Raise
  <2>1. /\ slots' \in Nat /\ delta' \in Int /\ degree' \in Nat
        /\ pc' = pc \/ pc' = [pc EXCEPT !["console"] = "prompt"]
        /\ UNCHANGED <<status, newEvents, readyEvents, ltpGate, stpGate, pageSem,
                       queueVars, paused, wanted, flowVars, kills, active>>
    BY <1>7 DEF Raise, DegreeStep
  <2>2. pc' \in [Thread -> PC]
    BY ZenonT(60), <2>1
  <2>5. TypeOK'
    BY <2>1, <2>2
  <2>3. CASE pc' = pc
    BY <2>1, <2>5, <2>3
  <2>4. CASE pc' = [pc EXCEPT !["console"] = "prompt"]
    BY <2>1, <2>5, <2>4
  <2> QED BY <2>1, <2>3, <2>4
<1>8. CASE Lower
  <2>1. /\ slots' \in Nat /\ delta' \in Int /\ degree' \in Nat
        /\ pc' = pc \/ pc' = [pc EXCEPT !["console"] = "prompt"]
        /\ UNCHANGED <<status, newEvents, readyEvents, ltpGate, stpGate, pageSem,
                       queueVars, paused, wanted, flowVars, kills, active>>
    BY <1>8 DEF Lower, DegreeStep
  <2>2. pc' \in [Thread -> PC]
    BY ZenonT(60), <2>1
  <2>5. TypeOK'
    BY <2>1, <2>2
  <2>3. CASE pc' = pc
    BY <2>1, <2>5, <2>3
  <2>4. CASE pc' = [pc EXCEPT !["console"] = "prompt"]
    BY <2>1, <2>5, <2>4
  <2> QED BY <2>1, <2>3, <2>4
<1>9. CASE \E p \in Process : KillFind(p)
  BY <1>9 DEF KillFind
<1>10. CASE KillJudge
  <2>1. /\ own["console"] \in Process
        /\ UNCHANGED <<status, semVars, queueVars, planVars, subject, next, kills,
                       active>>
    BY <1>10 DEF KillJudge
  <2>2. CASE /\ pc' = [pc EXCEPT !["console"] = "prompt"]
             /\ own' = [own EXCEPT !["console"] = NoProcess]
    <3>1. TypeOK'
      BY <2>1, <2>2
    <3>2. PcOK' /\ RefOK'
      BY <2>1, <2>2
    <3> QED BY <3>1, <3>2
  <2>3. CASE pc' = [pc EXCEPT !["console"] = "release"] /\ UNCHANGED own
    <3>1. TypeOK'
      BY <2>1, <2>3
    <3>2. PcOK' /\ RefOK'
      BY <2>1, <2>3
    <3> QED BY <3>1, <3>2
  <2> QED BY <1>10, <2>2, <2>3 DEF KillJudge
<1>11. CASE ReadyProcess("console") \/ ExitProcess("console")
  BY <1>11, ReadyTyping, ExitTyping
<1> QED BY <1>1, <1>2, <1>3, <1>4, <1>5, <1>6, <1>7, <1>8, <1>9, <1>10, <1>11
        DEF Command, Operator

LEMMA NextTyping == Typing /\ [Next]_vars => Typing'
<1> SUFFICES ASSUME Typing, [Next]_vars PROVE Typing'
  OBVIOUS
<1>1. CASE Next
  BY <1>1, LtpTyping, StpTyping, DetachedTyping, ConsoleTyping DEF Next
<1>2. CASE UNCHANGED vars
  BY <1>2 DEF vars, Typing, TypeOK, PcOK, RefOK, semVars, queueVars, planVars,
              flowVars
<1> QED BY <1>1, <1>2

LEMMA AlwaysTyping == Spec => []Typing
  BY InitTyping, NextTyping, PTL DEF Spec

\* The threads keep every variable in its type, whatever they interleave.
THEOREM TypeCorrect == Spec => []TypeOK
  BY AlwaysTyping, PTL DEF Typing

------------------------------------------------------------------------------
(* A PCB is in one place at a time, and what follows from it.               *)

(* The inductive invariant.                                                 *)

\* Nothing refers to a pcb that does not exist yet.
Created ==
  \A p \in Process : status[p] = "NONE" =>
    /\ p \notin running \cup waiting \cup active
    /\ p \notin ToSet(newQ) /\ p \notin ToSet(readyQ)
    /\ own["stp"] # p /\ own["console"] # p
    /\ \A t \in Thread : subject[t] # p

\* The process in EXEC is the one of the short-term planner, which has not yet
\* taken it out of that state.
ExecPC == {"loop", "cpu", "replyGate", "handle", "wake", "fault", "block"}
          \cup ReadyPC \cup {"release", "remove", "delist", "exit"}
ExecOK ==
  \A p \in Process : status[p] = "EXEC" =>
    /\ own["stp"] = p
    /\ pc["stp"] \in ExecPC
    /\ pc["stp"] = "post" => subject["stp"] # p

\* A planner that returns to a system call of its process readies another one.
FlowOK ==
  pc["stp"] \in ReadyPC /\ next \in {"wake", "release"} =>
    subject["stp"] # own["stp"]

\* Between two processes the planner holds none.
StpIdle == pc["stp"] \in {"ready", "check", "gate", "pick"} => own["stp"] = NoProcess

\* sem_page_fault is a mutex between page loads.
LoaderOK == pageSem = IF pc["loader"] = "idle" THEN 1 ELSE 0

Rest == Created /\ ExecOK /\ FlowOK /\ StpIdle /\ LoaderOK
Ownership == Typing /\ SingleOwner /\ Rest

------------------------------------------------------------------------------
(* How a step may change the places.                                        *)

\* No process of P comes to a place where it was not.
Fewer(P) ==
  \A p \in P :
    /\ p \in ToSet(newQ') => p \in ToSet(newQ)
    /\ p \in ToSet(readyQ') => p \in ToSet(readyQ)
    /\ p \in waiting' => p \in waiting
    /\ InHand(p)' => InHand(p)
    /\ \A t \in Thread : Carries(t, p)' => Carries(t, p)

\* p is nowhere but in the place `to', if at all.
Only(to, p) ==
  /\ p \in ToSet(newQ) => to = "newQ"
  /\ p \in ToSet(readyQ) => to = "readyQ"
  /\ p \in waiting => to = "waiting"
  /\ InHand(p) => to = "hand"
  /\ \A t \in Thread : Carries(t, p) => to = t

LEMMA PlacesAreNot ==
  \A t \in Thread : t \notin {"newQ", "readyQ", "waiting", "hand"}
  BY ThreadAssumption DEF Thread, Core

LEMMA AtOnly ==
  ASSUME NEW p, NEW to
  PROVE  Only(to, p) <=> \A x \in Places : At(x, p) => to = x
<1>1. \A t \in Thread : At(t, p) <=> Carries(t, p)
  BY PlacesAreNot DEF At
<1> QED BY <1>1 DEF At, Only, Places

\* In terms of the places, SingleOwner says that each process has only one.
OnePlace ==
  /\ \A p \in Process : \E to \in Places : Only(to, p)
  /\ IsInjective(newQ) /\ IsInjective(readyQ)

LEMMA OwnerOnly == SingleOwner <=> OnePlace
<1>1. ASSUME SingleOwner, NEW p \in Process
      PROVE  \E to \in Places : Only(to, p)
  <2>1. CASE \E to \in Places : At(to, p)
    <3>1. PICK to \in Places : At(to, p)
      BY <2>1
    <3>2. \A x \in Places : At(x, p) => to = x
      BY <1>1, <3>1, Zenon DEF SingleOwner
    <3> QED BY <3>2, AtOnly
  <2>2. CASE ~\E to \in Places : At(to, p)
    <3>1. "hand" \in Places
      BY DEF Places
    <3> QED BY <2>2, <3>1, AtOnly
  <2> QED BY <2>1, <2>2
<1>2. ASSUME NEW p \in Process, \E to \in Places : Only(to, p)
      PROVE  \A x, y \in Places : At(x, p) /\ At(y, p) => x = y
  BY <1>2, AtOnly
<1> QED BY <1>1, <1>2 DEF SingleOwner, OnePlace

LEMMA OwnerOnlyNext == SingleOwner' <=> OnePlace'
  BY OwnerOnly, PTL

\* A step that brings no process to a new place.
LEMMA Kept ==
  ASSUME SingleOwner, Fewer(Process), IsInjective(newQ'), IsInjective(readyQ')
  PROVE  SingleOwner'
<1>1. ASSUME NEW p \in Process PROVE \E to \in Places : Only(to, p)'
  <2>1. PICK to \in Places : Only(to, p)
    BY OwnerOnly DEF OnePlace
  <2>2. Only(to, p)'
    BY <2>1 DEF Only, Fewer
  <2> QED BY <2>2
<1> QED BY <1>1, OwnerOnlyNext DEF OnePlace

\* A step that brings one process to its only place.
LEMMA Moved ==
  ASSUME SingleOwner, NEW m \in Process, NEW to \in Places,
         Fewer(Process \ {m}), Only(to, m)',
         IsInjective(newQ'), IsInjective(readyQ')
  PROVE  SingleOwner'
<1>1. ASSUME NEW p \in Process PROVE \E x \in Places : Only(x, p)'
  <2>1. CASE p = m
    BY <2>1
  <2>2. CASE p # m
    <3>1. PICK x \in Places : Only(x, p)
      BY OwnerOnly DEF OnePlace
    <3>2. Only(x, p)'
      BY <2>2, <3>1 DEF Only, Fewer
    <3> QED BY <3>2
  <2> QED BY <2>1, <2>2
<1> QED BY <1>1, OwnerOnlyNext DEF OnePlace

\* A process known to be in one place is in no other.
LEMMA Elsewhere ==
  ASSUME SingleOwner, NEW p \in Process, NEW x \in Places, At(x, p)
  PROVE  Only(x, p)
  BY AtOnly, Zenon DEF SingleOwner

LEMMA Injective == SingleOwner => IsInjective(newQ) /\ IsInjective(readyQ)
  BY DEF SingleOwner

------------------------------------------------------------------------------
(* The steps.                                                               *)

LEMMA InitOwnership == Init => Ownership
<1> SUFFICES ASSUME Init PROVE Ownership
  OBVIOUS
<1>1. ToSet(<<>>) = {} /\ IsInjective(<<>>)
  BY DEF ToSet, IsInjective
<1>2. ASSUME NEW p \in Process PROVE Only("hand", p)
  BY <1>1, ThreadAssumption DEF Init, Only, InHand, Carries, Thread, Core, ExitPC, ReadyPC
<1>3. "hand" \in Places
  BY DEF Places
<1>4. SingleOwner
  BY <1>1, <1>2, <1>3, OwnerOnly DEF Init, OnePlace
<1>5. Rest
  BY <1>1, ThreadAssumption DEF Init, Rest, Created, ExecOK, FlowOK, StpIdle, LoaderOK, ReadyPC,
     Thread, Core
<1> QED BY <1>4, <1>5, InitTyping DEF Ownership

LEMMA ReadyOwnership ==
  ASSUME Ownership, NEW t \in Thread, ReadyProcess(t)
  PROVE  SingleOwner' /\ Rest'
<1> USE ThreadAssumption
    DEF Ownership, Typing, TypeOK, PcOK, RefOK, StpPC, LtpPC, ConsolePC, LoaderPC,
        SleeperPC, ReadyPC, ExitPC, Thread, Core, Goto,
        semVars, queueVars, planVars, flowVars, Rest, Fewer, InHand, Carries
<1>0. IsInjective(newQ) /\ IsInjective(readyQ)
  BY Injective
<1>1. CASE Push(t)
  <2> DEFINE p == subject[t]
  <2>1. /\ p \in Process /\ pc[t] = "push" /\ pc' = [pc EXCEPT ![t] = "status"]
        /\ readyQ' = OnReady(readyQ, p)
        /\ UNCHANGED <<status, semVars, newQ, actual, running, waiting, planVars,
                       flowVars, kills, active>>
    BY <1>1 DEF Push
  <2>2. t \in Places /\ "readyQ" \in Places /\ At(t, p)
    BY <2>1, PlacesAreNot DEF Places, At
  <2>3. Only(t, p)
    BY <2>1, <2>2, Elsewhere
  <2>4. p \notin ToSet(readyQ)
    BY <2>3, PlacesAreNot DEF Only
  <2>5. ToSet(readyQ') = ToSet(readyQ) \cup {p} /\ IsInjective(readyQ')
    BY <1>0, <2>1, <2>4, OnReadyAdds
  <2>6. Fewer(Process \ {p})
    BY <2>1, <2>5
  <2>7. Only("readyQ", p)'
    BY <2>1, <2>3, PlacesAreNot DEF Only
  <2>8. SingleOwner'
    BY <1>0, <2>1, <2>2, <2>5, <2>6, <2>7, Moved
  <2>9. Created'
    BY <2>1, <2>5 DEF Created
  <2>10. ExecOK' /\ FlowOK' /\ StpIdle' /\ LoaderOK'
    BY <2>1 DEF ExecOK, FlowOK, StpIdle, LoaderOK, ExecPC
  <2> QED BY <2>8, <2>9, <2>10
<1>2. CASE SetReady(t)
  <2>1. /\ subject[t] \in Process /\ pc[t] = "status" /\ pc' = [pc EXCEPT ![t] = "post"]
        /\ status' = [status EXCEPT ![subject[t]] = "READY"]
        /\ UNCHANGED <<semVars, queueVars, planVars, flowVars, kills, active>>
    BY <1>2 DEF SetReady
  <2>2. Fewer(Process)
    BY <2>1
  <2>3. SingleOwner'
    BY <1>0, <2>1, <2>2, Kept
  <2>4. Created'
    BY <2>1 DEF Created
  <2>5. ExecOK'
    BY <2>1 DEF ExecOK, ExecPC
  <2>6. FlowOK' /\ StpIdle' /\ LoaderOK'
    BY <2>1 DEF FlowOK, StpIdle, LoaderOK
  <2> QED BY <2>3, <2>4, <2>5, <2>6
<1>3. CASE Post(t)
  <2>1. /\ pc[t] = "post" /\ pc' = [pc EXCEPT ![t] = Resume(t)]
        /\ subject' = [subject EXCEPT ![t] = NoProcess]
        /\ UNCHANGED <<status, newEvents, slots, ltpGate, stpGate, pageSem,
                       queueVars, planVars, own, next, kills, active>>
    BY <1>3 DEF Post
  <2>2. /\ t = "stp" => Resume(t) = next
        /\ t = "loader" => Resume(t) = "freePage"
        /\ Resume(t) \in {"loop", "wake", "release", "new", "freePage", "idle"}
    BY DEF Resume
  <2>3. Fewer(Process)
    BY <2>1, <2>2 DEF ExecOK, FlowOK
  <2>4. SingleOwner'
    BY <1>0, <2>1, <2>3, Kept
  <2>5. Created'
    BY <2>1 DEF Created
  <2>6. ExecOK'
    BY <2>1, <2>2 DEF ExecOK, ExecPC
  <2>7. FlowOK' /\ StpIdle' /\ LoaderOK'
    BY <2>1, <2>2 DEF FlowOK, StpIdle, LoaderOK
  <2> QED BY <2>4, <2>5, <2>6, <2>7
<1> QED BY <1>1, <1>2, <1>3 DEF ReadyProcess

\* A waiting process goes to the thread that looked it up, or is forgotten.
LEMMA WakeOwnership ==
  ASSUME Ownership, NEW t \in {"stp", "console"}, NEW q, NEW after \in {"wake", "release"},
         after = "wake" => t = "stp",
         pc[t] = after, WakeWaiter(t, q, after)
  PROVE  SingleOwner' /\ Rest'
<1> USE ThreadAssumption
    DEF Ownership, Typing, TypeOK, PcOK, RefOK, StpPC, LtpPC, ConsolePC, LoaderPC,
        SleeperPC, ReadyPC, ExitPC, Thread, Core, Goto,
        semVars, queueVars, planVars, flowVars, Rest, Fewer, InHand, Carries
<1>0. /\ IsInjective(newQ) /\ IsInjective(readyQ)
      /\ q \in Process /\ q \in waiting /\ waiting' = waiting \ {q}
      /\ UNCHANGED <<status, semVars, newQ, readyQ, actual, running, planVars,
                     own, kills, active>>
  BY Injective DEF WakeWaiter
<1>1. CASE q \in running
  <2>1. /\ subject' = [subject EXCEPT ![t] = q]
        /\ next' = IF t = "stp" THEN after ELSE next
        /\ pc' = [pc EXCEPT ![t] = "push"]
    BY <1>1 DEF WakeWaiter
  <2>2. t \in Places /\ "waiting" \in Places /\ At("waiting", q)
    BY <1>0 DEF Places, At
  <2>3. Only("waiting", q)
    BY <1>0, <2>2, Elsewhere
  <2>4. t = "stp" => q # own["stp"]
    BY <2>3 DEF Only
  <2>5. Fewer(Process \ {q})
    BY <1>0, <2>1, <2>4
  <2>6. Only(t, q)'
    BY <1>0, <2>1, <2>3, <2>4, PlacesAreNot DEF Only
  <2>7. SingleOwner'
    BY <1>0, <2>2, <2>5, <2>6, Moved
  <2>8. Created'
    BY <1>0, <2>1 DEF Created
  <2>9. ExecOK'
    BY <1>0, <2>1 DEF ExecOK, ExecPC
  <2>10. FlowOK' /\ StpIdle' /\ LoaderOK'
    BY <1>0, <2>1, <2>4 DEF FlowOK, StpIdle, LoaderOK
  <2> QED BY <2>7, <2>8, <2>9, <2>10
<1>2. CASE q \notin running
  <2>1. pc' = [pc EXCEPT ![t] = after] /\ UNCHANGED <<subject, next>>
    BY <1>2 DEF WakeWaiter
  <2>2. Fewer(Process)
    BY <1>0, <2>1
  <2>3. SingleOwner'
    BY <1>0, <2>2, Kept
  <2>4. Created'
    BY <1>0, <2>1 DEF Created
  <2>5. ExecOK'
    BY <1>0, <2>1 DEF ExecOK, ExecPC
  <2>6. FlowOK' /\ StpIdle' /\ LoaderOK'
    BY <1>0, <2>1 DEF FlowOK, StpIdle, LoaderOK
  <2> QED BY <2>3, <2>4, <2>5, <2>6
<1> QED BY <1>1, <1>2

\* The exit of a process, by itself or by a kill, only takes it out of places.
LEMMA ExitOwnership ==
  ASSUME Ownership, NEW t \in {"stp", "console"}, ExitProcess(t)
  PROVE  SingleOwner' /\ Rest'
<1> USE ThreadAssumption
    DEF Ownership, Typing, TypeOK, PcOK, RefOK, StpPC, LtpPC, ConsolePC, LoaderPC,
        SleeperPC, ReadyPC, ExitPC, Thread, Core, Goto,
        semVars, queueVars, planVars, flowVars, Rest, Fewer, InHand, Carries
<1>0. IsInjective(newQ) /\ IsInjective(readyQ)
  BY Injective
<1>1. CASE ReleaseNext(t)
  BY <1>1, WakeOwnership DEF ReleaseNext
<1>2. CASE ReleaseDone(t)
  <2>1. SingleOwner'
    BY <1>0, <1>2, Kept DEF ReleaseDone
  <2>2. Created' /\ ExecOK' /\ FlowOK' /\ StpIdle' /\ LoaderOK'
    BY <1>2 DEF ReleaseDone, Created, ExecOK, FlowOK, StpIdle, LoaderOK, ExecPC
  <2> QED BY <2>1, <2>2
<1>3. CASE RemoveReady(t)
  <2>1. IsInjective(readyQ') /\ ToSet(readyQ') \subseteq ToSet(readyQ)
    BY <1>0, <1>3, WithoutRemoves DEF RemoveReady
  <2>2. SingleOwner'
    BY <1>0, <1>3, <2>1, Kept DEF RemoveReady
  <2>3. Created' /\ ExecOK' /\ FlowOK' /\ StpIdle' /\ LoaderOK'
    BY <1>3, <2>1 DEF RemoveReady, Created, ExecOK, FlowOK, StpIdle, LoaderOK, ExecPC
  <2> QED BY <2>2, <2>3
<1>4. CASE Delist(t)
  <2>1. SingleOwner'
    BY <1>0, <1>4, Kept DEF Delist
  <2>2. Created' /\ ExecOK' /\ FlowOK' /\ StpIdle' /\ LoaderOK'
    BY <1>4 DEF Delist, Created, ExecOK, FlowOK, StpIdle, LoaderOK, ExecPC
  <2> QED BY <2>1, <2>2
<1>5. CASE SetExit(t)
  <2>1. SingleOwner'
    BY <1>0, <1>5, Kept DEF SetExit
  <2>2. Created'
    BY <1>5 DEF SetExit, Created
  <2>3. ExecOK'
    BY <1>5 DEF SetExit, ExecOK, ExecPC
  <2>4. FlowOK' /\ StpIdle' /\ LoaderOK'
    BY <1>5 DEF SetExit, FlowOK, StpIdle, LoaderOK
  <2> QED BY <2>1, <2>2, <2>3, <2>4
<1>6. CASE GiveSlot(t)
  <2>1. Fewer(Process)
    BY <1>6 DEF GiveSlot, ExecOK, ExecPC
  <2>2. SingleOwner'
    BY <1>0, <1>6, <2>1, Kept DEF GiveSlot
  <2>3. Created'
    BY <1>6 DEF GiveSlot, Created
  <2>4. ExecOK'
    BY <1>6 DEF GiveSlot, ExecOK, ExecPC
  <2>5. FlowOK' /\ StpIdle' /\ LoaderOK'
    BY <1>6 DEF GiveSlot, FlowOK, StpIdle, LoaderOK
  <2> QED BY <2>2, <2>3, <2>4, <2>5
<1> QED BY <1>1, <1>2, <1>3, <1>4, <1>5, <1>6 DEF ExitProcess

LEMMA LtpOwnership ==
  ASSUME Ownership, Ltp
  PROVE  SingleOwner' /\ Rest'
<1> USE ThreadAssumption
    DEF Ownership, Typing, TypeOK, PcOK, RefOK, StpPC, LtpPC, ConsolePC, LoaderPC,
        SleeperPC, ReadyPC, ExitPC, Thread, Core, Goto,
        semVars, queueVars, planVars, flowVars, Rest, Fewer, InHand, Carries
<1>0. IsInjective(newQ) /\ IsInjective(readyQ)
  BY Injective
<1>1. CASE LtpWaitNew \/ LtpWaitSlot \/ LtpCheckPause \/ LtpGate
  <2>1. /\ pc["ltp"] \notin {"push", "sleep", "load"} /\ UNCHANGED <<queueVars, flowVars,
           status, active, pageSem>>
        /\ \E l \in {"slot", "check", "gate", "alloc"} : pc' = [pc EXCEPT !["ltp"] = l]
    BY <1>1 DEF LtpWaitNew, LtpWaitSlot, LtpCheckPause, LtpGate
  <2>2. Fewer(Process)
    BY <2>1
  <2>3. SingleOwner'
    BY <1>0, <2>1, <2>2, Kept
  <2>4. Created' /\ ExecOK' /\ FlowOK' /\ StpIdle' /\ LoaderOK'
    BY <2>1 DEF Created, ExecOK, FlowOK, StpIdle, LoaderOK, ExecPC
  <2> QED BY <2>3, <2>4
<1>2. CASE LtpAllocate
  <2>0. PICK p \in Process : p = Head(newQ)
    BY <1>2, TailRemoves DEF LtpAllocate
  <2>1. /\ p \in Process /\ p \in ToSet(newQ)
        /\ ToSet(newQ') \subseteq ToSet(newQ) /\ IsInjective(newQ') /\ p \notin ToSet(newQ')
    BY <1>0, <1>2, <2>0, TailRemoves DEF LtpAllocate
  <2>2. /\ active' = active \cup {p} /\ pc["ltp"] = "alloc"
        /\ UNCHANGED <<status, semVars, readyQ, actual, waiting, planVars, own,
                       next, kills>>
    BY <1>2, <2>0 DEF LtpAllocate
  <2>3. "newQ" \in Places /\ At("newQ", p) /\ "ltp" \in Places
    BY <2>1 DEF Places, At
  <2>4. Only("newQ", p)
    BY <2>1, <2>3, Elsewhere
  <2>5. CASE /\ running' = running \cup {p}
             /\ subject' = [subject EXCEPT !["ltp"] = p]
             /\ pc' = [pc EXCEPT !["ltp"] = "push"]
    <3>1. Fewer(Process \ {p})
      BY <2>1, <2>2, <2>5
    <3>2. Only("ltp", p)'
      BY <2>1, <2>2, <2>4, <2>5, PlacesAreNot DEF Only
    <3>3. SingleOwner'
      BY <1>0, <2>1, <2>2, <2>3, <3>1, <3>2, Moved
    <3>4. Created'
      BY <2>1, <2>2, <2>5 DEF Created
    <3>5. ExecOK' /\ FlowOK' /\ StpIdle' /\ LoaderOK'
      BY <2>2, <2>5 DEF ExecOK, FlowOK, StpIdle, LoaderOK, ExecPC
    <3> QED BY <3>3, <3>4, <3>5
  <2>6. CASE pc' = [pc EXCEPT !["ltp"] = "new"] /\ UNCHANGED <<running, subject>>
    <3>1. Fewer(Process)
      BY <2>1, <2>2, <2>6
    <3>2. SingleOwner'
      BY <1>0, <2>1, <2>2, <3>1, Kept
    <3>3. Created'
      BY <2>1, <2>2, <2>6 DEF Created
    <3>4. ExecOK' /\ FlowOK' /\ StpIdle' /\ LoaderOK'
      BY <2>2, <2>6 DEF ExecOK, FlowOK, StpIdle, LoaderOK, ExecPC
    <3> QED BY <3>2, <3>3, <3>4
  <2> QED BY <1>2, <2>0, <2>5, <2>6 DEF LtpAllocate
<1>3. CASE ReadyProcess("ltp")
  BY <1>3, ReadyOwnership
<1> QED BY <1>1, <1>2, <1>3 DEF Ltp

\* A system call moves the process of the planner from its hands to where the
\* handler leaves it.
LEMMA HandleOwnership ==
  ASSUME Ownership, Handle
  PROVE  SingleOwner' /\ Rest'
<1> USE ThreadAssumption
    DEF Ownership, Typing, TypeOK, PcOK, RefOK, StpPC, LtpPC, ConsolePC, LoaderPC,
        SleeperPC, ReadyPC, ExitPC, Thread, Core, Goto, Handling, Current,
        semVars, queueVars, planVars, flowVars, Rest, Fewer, InHand, Carries
<1>0. /\ IsInjective(newQ) /\ IsInjective(readyQ) /\ pc["stp"] = "handle"
      /\ own["stp"] \in Process /\ own' = own
      /\ UNCHANGED <<semVars, newQ, readyQ, running, kills, active>>
  BY Injective DEF Handle, Yield, HandleContinue, HandleSignal, HandleRequeue, HandleEvicted,
     HandleFileIO, HandleSleep, HandleWait, HandleSleepForever, HandlePageFault,
     HandleExit
<1> PICK p \in Process : p = own["stp"]
  BY <1>0
<1>a. "hand" \in Places /\ "stp" \in Places /\ "waiting" \in Places
      /\ Sleeper \subseteq Places
  BY DEF Places
<1>b. At("hand", p)
  BY <1>0 DEF At
<1>c. Only("hand", p)
  BY <1>a, <1>b, Elsewhere
<1>1. CASE HandleContinue \/ HandleSignal \/ HandleSleepForever \/ HandlePageFault
           \/ HandleExit
  <2>1. /\ UNCHANGED <<status, queueVars, planVars, flowVars>>
        /\ \E l \in {"loop", "wake", "block", "fault", "release", "remove"} :
             pc' = [pc EXCEPT !["stp"] = l]
    BY <1>1 DEF HandleContinue, HandleSignal, HandleSleepForever, HandlePageFault,
       HandleExit
  <2>2. Fewer(Process)
    BY <1>0, <2>1
  <2>3. SingleOwner'
    BY <1>0, <2>2, Kept
  <2>4. Created' /\ ExecOK' /\ FlowOK' /\ StpIdle' /\ LoaderOK'
    BY <1>0, <2>1 DEF Created, ExecOK, FlowOK, StpIdle, LoaderOK, ExecPC
  <2> QED BY <2>3, <2>4
<1>2. CASE /\ pc' = [pc EXCEPT !["stp"] = "push"] /\ next' = "loop"
           /\ subject' = [subject EXCEPT !["stp"] = p]
           /\ status' = status \/ status' = [status EXCEPT ![p] = "BLOCK"]
           /\ waiting' = waiting
  <2>1. Fewer(Process \ {p})
    BY <1>0, <1>2
  <2>2. Only("stp", p)'
    BY <1>0, <1>2, <1>c, PlacesAreNot DEF Only
  <2>3. SingleOwner'
    BY <1>0, <1>a, <2>1, <2>2, Moved
  <2>4. Created'
    BY <1>0, <1>2 DEF Created
  <2>5. ExecOK' /\ FlowOK' /\ StpIdle' /\ LoaderOK'
    BY <1>0, <1>2 DEF ExecOK, FlowOK, StpIdle, LoaderOK, ExecPC
  <2> QED BY <2>3, <2>4, <2>5
<1>3. CASE HandleRequeue \/ HandleEvicted \/ HandleFileIO
  <2>1. CASE pc' = [pc EXCEPT !["stp"] = "loop"] /\ UNCHANGED <<subject, next, waiting, status>>
    <3>1. Fewer(Process)
      BY <1>0, <2>1
    <3>2. SingleOwner'
      BY <1>0, <3>1, Kept
    <3>3. Created' /\ ExecOK' /\ FlowOK' /\ StpIdle' /\ LoaderOK'
      BY <1>0, <2>1 DEF Created, ExecOK, FlowOK, StpIdle, LoaderOK, ExecPC
    <3> QED BY <3>2, <3>3
  <2> QED BY <1>2, <1>3, <2>1
          DEF HandleRequeue, HandleEvicted, HandleFileIO, ReadyCurrent
<1>4. CASE HandleSleep
  <2>1. PICK s \in Sleeper :
          /\ pc[s] = "idle" /\ pc' = [pc EXCEPT !["stp"] = "loop", ![s] = "sleep"]
          /\ subject' = [subject EXCEPT ![s] = p]
    BY <1>4 DEF HandleSleep
  <2>2. status' = [status EXCEPT ![p] = "BLOCK"] /\ UNCHANGED <<queueVars, next>>
    BY <1>4 DEF HandleSleep
  <2>3. /\ pc'["stp"] = "loop" /\ pc'[s] = "sleep" /\ pc'["loader"] = pc["loader"]
        /\ \A t \in Thread : t # "stp" /\ t # s => pc'[t] = pc[t]
        /\ \A t \in Thread : subject'[t] = IF t = s THEN p ELSE subject[t]
        /\ s \in Thread /\ s # "stp"
    BY <2>1
  <2>4. Fewer(Process \ {p})
    BY <1>0, <2>2, <2>3
  <2>5. Only(s, p)'
    BY <1>0, <2>2, <2>3, <1>c, PlacesAreNot DEF Only
  <2>6. SingleOwner'
    BY <1>0, <1>a, <2>4, <2>5, Moved
  <2>7. Created'
    BY <1>0, <2>2, <2>3 DEF Created
  <2>8. ExecOK' /\ FlowOK' /\ StpIdle' /\ LoaderOK'
    BY <1>0, <2>2, <2>3 DEF ExecOK, FlowOK, StpIdle, LoaderOK, ExecPC
  <2> QED BY <2>6, <2>7, <2>8
<1>5. CASE HandleWait
  <2>1. /\ waiting' = waiting \cup {p} /\ pc' = [pc EXCEPT !["stp"] = "block"]
        /\ UNCHANGED <<status, flowVars>>
    BY <1>5 DEF HandleWait
  <2>2. Fewer(Process \ {p})
    BY <1>0, <2>1
  <2>3. Only("waiting", p)'
    BY <1>0, <2>1, <1>c, PlacesAreNot DEF Only
  <2>4. SingleOwner'
    BY <1>0, <1>a, <2>2, <2>3, Moved
  <2>5. Created'
    BY <1>0, <2>1 DEF Created
  <2>6. ExecOK' /\ FlowOK' /\ StpIdle' /\ LoaderOK'
    BY <1>0, <2>1 DEF ExecOK, FlowOK, StpIdle, LoaderOK, ExecPC
  <2> QED BY <2>4, <2>5, <2>6
<1> QED BY <1>1, <1>3, <1>4, <1>5 DEF Handle, Yield

LEMMA StpOwnership ==
  ASSUME Ownership, Stp
  PROVE  SingleOwner' /\ Rest'
<1> USE ThreadAssumption
    DEF Ownership, Typing, TypeOK, PcOK, RefOK, StpPC, LtpPC, ConsolePC, LoaderPC,
        SleeperPC, ReadyPC, ExitPC, Thread, Core, Goto, Current,
        semVars, queueVars, planVars, flowVars, Rest, Fewer, InHand, Carries
<1>0. IsInjective(newQ) /\ IsInjective(readyQ)
  BY Injective
<1>1. CASE StpWaitReady \/ StpCheckPause \/ StpGate \/ StpReply \/ WakeDone
  <2>1. /\ UNCHANGED <<status, queueVars, planVars, flowVars, pageSem, active>>
        /\ \/ /\ pc["stp"] \in {"ready", "check", "gate"}
              /\ \E l \in {"check", "gate", "pick"} : pc' = [pc EXCEPT !["stp"] = l]
           \/ /\ pc["stp"] \in {"replyGate", "cpu", "wake"}
              /\ \E l \in {"replyGate", "handle", "loop"} :
                   pc' = [pc EXCEPT !["stp"] = l]
    BY <1>1 DEF StpWaitReady, StpCheckPause, StpGate, StpReply, WakeDone
  <2>2. Fewer(Process)
    BY <2>1
  <2>3. SingleOwner'
    BY <1>0, <2>1, <2>2, Kept
  <2>4. Created'
    BY <2>1 DEF Created
  <2>5. ExecOK'
    BY <2>1 DEF ExecOK, ExecPC
  <2>6. FlowOK' /\ StpIdle' /\ LoaderOK'
    BY <2>1 DEF FlowOK, StpIdle, LoaderOK
  <2> QED BY <2>3, <2>4, <2>5, <2>6
<1>2. CASE StpPick
  <2>0. /\ pc["stp"] = "pick" /\ pc' = [pc EXCEPT !["stp"] = "picked"]
        /\ own["stp"] = NoProcess
        /\ UNCHANGED <<status, semVars, newQ, actual, running, waiting, planVars,
                       subject, next, kills, active>>
    BY <1>2 DEF StpPick, StpIdle
  <2>1. CASE readyQ = <<>>
    <3>1. UNCHANGED <<own, readyQ>>
      BY <1>2, <2>1 DEF StpPick
    <3>2. Fewer(Process)
      BY <2>0, <3>1
    <3>3. SingleOwner'
      BY <1>0, <2>0, <3>1, <3>2, Kept
    <3>4. Created' /\ ExecOK' /\ FlowOK' /\ StpIdle' /\ LoaderOK'
      BY <2>0, <3>1 DEF Created, ExecOK, FlowOK, StpIdle, LoaderOK, ExecPC
    <3> QED BY <3>3, <3>4
  <2>2. CASE readyQ # <<>>
    <3>1. PICK p \in Process : p = Head(readyQ)
      BY <2>2, TailRemoves
    <3>2. /\ own' = [own EXCEPT !["stp"] = p] /\ p \in ToSet(readyQ)
          /\ ToSet(readyQ') \subseteq ToSet(readyQ) /\ IsInjective(readyQ')
          /\ p \notin ToSet(readyQ')
      <4>1. own' = [own EXCEPT !["stp"] = p] /\ readyQ' = Tail(readyQ)
        BY <1>2, <2>2, <3>1 DEF StpPick
      <4>2. /\ p \in ToSet(readyQ) /\ ToSet(Tail(readyQ)) \subseteq ToSet(readyQ)
            /\ IsInjective(Tail(readyQ)) /\ p \notin ToSet(Tail(readyQ))
        BY <1>0, <2>2, <3>1, TailRemoves
      <4> QED BY <4>1, <4>2
    <3>3. "readyQ" \in Places /\ "hand" \in Places /\ At("readyQ", p)
      BY <3>2 DEF Places, At
    <3>4. Only("readyQ", p)
      BY <3>3, Elsewhere
    <3>5. Fewer(Process \ {p})
      BY <2>0, <3>2
    <3>6. Only("hand", p)'
      BY <2>0, <3>2, <3>4, PlacesAreNot DEF Only
    <3>7. SingleOwner'
      BY <1>0, <2>0, <3>2, <3>3, <3>5, <3>6, Moved
    <3>8. Created' /\ ExecOK' /\ FlowOK' /\ StpIdle' /\ LoaderOK'
      BY <2>0, <3>2 DEF Created, ExecOK, FlowOK, StpIdle, LoaderOK, ExecPC
    <3> QED BY <3>7, <3>8
  <2> QED BY <2>1, <2>2
<1>3. CASE StpPicked
  <2>1. /\ pc["stp"] = "picked"
        /\ \/ own["stp"] = NoProcess /\ pc' = [pc EXCEPT !["stp"] = "ready"]
           \/ own["stp"] # NoProcess /\ pc' = [pc EXCEPT !["stp"] = "exec"]
        /\ UNCHANGED <<status, semVars, newQ, readyQ, running, waiting, planVars,
                       flowVars, kills, active>>
    BY <1>3 DEF StpPicked
  <2>2. Fewer(Process)
    BY <2>1
  <2>3. SingleOwner'
    BY <1>0, <2>1, <2>2, Kept
  <2>4. Created' /\ ExecOK' /\ FlowOK' /\ StpIdle' /\ LoaderOK'
    BY <2>1 DEF Created, ExecOK, FlowOK, StpIdle, LoaderOK, ExecPC
  <2> QED BY <2>3, <2>4
<1>4. CASE StpExecute
  <2>1. Fewer(Process)
    BY <1>4 DEF StpExecute
  <2>2. SingleOwner'
    BY <1>0, <1>4, <2>1, Kept DEF StpExecute
  <2>3. Created'
    BY <1>4 DEF StpExecute, Created
  <2>4. ExecOK'
    BY <1>4 DEF StpExecute, ExecOK, ExecPC
  <2>5. FlowOK' /\ StpIdle' /\ LoaderOK'
    BY <1>4 DEF StpExecute, FlowOK, StpIdle, LoaderOK
  <2> QED BY <2>2, <2>3, <2>4, <2>5
<1>5. CASE StpLoop
  <2>1. /\ pc["stp"] = "loop" /\ own["stp"] \in Process
        /\ UNCHANGED <<status, semVars, queueVars, planVars, subject, next, kills,
                       active>>
    BY <1>5 DEF StpLoop
  <2>2. CASE /\ status[own["stp"]] = "EXEC" /\ own' = own
             /\ pc' = [pc EXCEPT !["stp"] = "cpu"]
    <3>1. Fewer(Process)
      BY <2>1, <2>2
    <3>2. SingleOwner'
      BY <1>0, <2>1, <3>1, Kept
    <3>3. Created' /\ ExecOK' /\ FlowOK' /\ StpIdle' /\ LoaderOK'
      BY <2>1, <2>2 DEF Created, ExecOK, FlowOK, StpIdle, LoaderOK, ExecPC
    <3> QED BY <3>2, <3>3
  <2>3. CASE /\ status[own["stp"]] # "EXEC" /\ own' = [own EXCEPT !["stp"] = NoProcess]
             /\ pc' = [pc EXCEPT !["stp"] = "ready"]
    <3>1. Fewer(Process)
      BY <2>1, <2>3
    <3>2. SingleOwner'
      BY <1>0, <2>1, <3>1, Kept
    <3>3. Created' /\ ExecOK' /\ FlowOK' /\ StpIdle' /\ LoaderOK'
      BY <2>1, <2>3 DEF Created, ExecOK, FlowOK, StpIdle, LoaderOK, ExecPC
    <3> QED BY <3>2, <3>3
  <2> QED BY <1>5, <2>2, <2>3 DEF StpLoop
<1>6. CASE Handle
  BY <1>6, HandleOwnership
<1>7. CASE WakeNext
  BY <1>7, WakeOwnership DEF WakeNext
<1>8. CASE StpBlock
  <2>1. Fewer(Process)
    BY <1>8 DEF StpBlock
  <2>2. SingleOwner'
    BY <1>0, <1>8, <2>1, Kept DEF StpBlock
  <2>3. Created' /\ ExecOK' /\ FlowOK' /\ StpIdle' /\ LoaderOK'
    BY <1>8 DEF StpBlock, Created, ExecOK, FlowOK, StpIdle, LoaderOK, ExecPC
  <2> QED BY <2>2, <2>3
<1>9. CASE StpFault
  <2>1. PICK p \in Process : p = own["stp"]
    BY <1>9 DEF StpFault
  <2>2. /\ pc["stp"] = "fault" /\ pc["loader"] = "idle" /\ pageSem' = 0
        /\ status' = [status EXCEPT ![p] = "BLOCK"]
        /\ pc' = [pc EXCEPT !["stp"] = "loop", !["loader"] = "load"]
        /\ subject' = [subject EXCEPT !["loader"] = p]
        /\ UNCHANGED <<newEvents, slots, readyEvents, ltpGate, stpGate, queueVars,
                       planVars, own, next, kills, active>>
    BY <1>9, <2>1 DEF StpFault, LoaderOK
  <2>3. /\ pc'["stp"] = "loop" /\ pc'["loader"] = "load"
        /\ \A t \in Thread : t # "stp" /\ t # "loader" => pc'[t] = pc[t]
        /\ \A t \in Thread : subject'[t] = IF t = "loader" THEN p ELSE subject[t]
    BY <2>2
  <2>4. "hand" \in Places /\ "loader" \in Places /\ At("hand", p)
    BY <2>1, <2>2 DEF Places, At
  <2>5. Only("hand", p)
    BY <2>4, Elsewhere
  <2>6. Fewer(Process \ {p})
    BY <2>1, <2>2, <2>3
  <2>7. Only("loader", p)'
    BY <2>1, <2>2, <2>3, <2>5, PlacesAreNot DEF Only
  <2>8. SingleOwner'
    BY <1>0, <2>2, <2>4, <2>6, <2>7, Moved
  <2>9. Created'
    BY <2>1, <2>2, <2>3 DEF Created
  <2>10. ExecOK' /\ FlowOK' /\ StpIdle' /\ LoaderOK'
    BY <2>1, <2>2, <2>3 DEF ExecOK, FlowOK, StpIdle, LoaderOK, ExecPC
  <2> QED BY <2>8, <2>9, <2>10
<1>10. CASE ReadyProcess("stp") \/ ExitProcess("stp")
  BY <1>10, ReadyOwnership, ExitOwnership
<1> QED BY <1>1, <1>2, <1>3, <1>4, <1>5, <1>6, <1>7, <1>8, <1>9, <1>10 DEF Stp

\* The detached threads carry their process to ready_process or give it up.
LEMMA DetachedOwnership ==
  ASSUME Ownership, Loader \/ \E s \in Sleeper : Sleeping(s)
  PROVE  SingleOwner' /\ Rest'
<1> USE ThreadAssumption
    DEF Ownership, Typing, TypeOK, PcOK, RefOK, StpPC, LtpPC, ConsolePC, LoaderPC,
        SleeperPC, ReadyPC, ExitPC, Thread, Core, Goto,
        semVars, queueVars, planVars, flowVars, Rest, Fewer, InHand, Carries
<1>0. IsInjective(newQ) /\ IsInjective(readyQ)
  BY Injective
<1>1. CASE \E s \in Sleeper : SleepEnds(s)
  <2>1. PICK s \in Sleeper : SleepEnds(s)
    BY <1>1
  <2>2. Fewer(Process)
    BY <2>1 DEF SleepEnds
  <2>3. SingleOwner'
    BY <1>0, <2>1, <2>2, Kept DEF SleepEnds
  <2>4. Created' /\ ExecOK' /\ FlowOK' /\ StpIdle' /\ LoaderOK'
    BY <2>1 DEF SleepEnds, Created, ExecOK, FlowOK, StpIdle, LoaderOK, ExecPC
  <2> QED BY <2>3, <2>4
<1>2. CASE LoadAnswered \/ LoadDone
  <2>1. /\ pc["loader"] \in {"load", "freePage"}
        /\ UNCHANGED <<status, queueVars, planVars, own, next, active>>
        /\ \/ /\ pc["loader"] = "load" /\ pc' = [pc EXCEPT !["loader"] = "push"]
              /\ UNCHANGED <<subject, pageSem>>
           \/ /\ pc' = [pc EXCEPT !["loader"] = "freePage"] /\ pageSem' = pageSem
              /\ subject' = [subject EXCEPT !["loader"] = NoProcess]
           \/ /\ pc' = [pc EXCEPT !["loader"] = "idle"] /\ pageSem' = pageSem + 1
              /\ subject' = subject
    BY <1>2 DEF LoadAnswered, LoadDone
  <2>2. Fewer(Process)
    BY <2>1
  <2>3. SingleOwner'
    BY <1>0, <2>1, <2>2, Kept
  <2>4. Created' /\ ExecOK' /\ FlowOK' /\ StpIdle'
    BY <2>1 DEF Created, ExecOK, FlowOK, StpIdle, ExecPC
  <2>5. LoaderOK'
    BY <2>1 DEF LoaderOK
  <2> QED BY <2>3, <2>4, <2>5
<1>3. CASE ReadyProcess("loader") \/ \E s \in Sleeper : ReadyProcess(s)
  BY <1>3, ReadyOwnership
<1> QED BY <1>1, <1>2, <1>3 DEF Loader, Sleeping

\* The console creates a process in NEW; what else it does moves none.
LEMMA ConsoleOwnership ==
  ASSUME Ownership, Command \/ Operator
  PROVE  SingleOwner' /\ Rest'
<1> USE ThreadAssumption
    DEF Ownership, Typing, TypeOK, PcOK, RefOK, StpPC, LtpPC, ConsolePC, LoaderPC,
        SleeperPC, ReadyPC, ExitPC, Thread, Core, Goto, Prompt,
        semVars, queueVars, planVars, flowVars, Rest, Fewer, InHand, Carries
<1>0. IsInjective(newQ) /\ IsInjective(readyQ)
  BY Injective
<1>1. CASE \E p \in Process : NewProcess(p)
  <2>1. PICK p \in Process : NewProcess(p)
    BY <1>1
  <2>2. /\ status[p] = "NONE" /\ status' = [status EXCEPT ![p] = "NEW"]
        /\ newQ' = Append(newQ, p)
        /\ UNCHANGED <<slots, readyEvents, ltpGate, stpGate, pageSem, readyQ, actual,
                       running, waiting, planVars, flowVars, pc, kills, active>>
    BY <2>1 DEF NewProcess
  <2>3. /\ p \notin running \cup waiting \cup active
        /\ p \notin ToSet(newQ) /\ p \notin ToSet(readyQ)
        /\ own["stp"] # p /\ own["console"] # p
        /\ \A t \in Thread : subject[t] # p
    BY <2>2 DEF Created
  <2>4. ToSet(newQ') = ToSet(newQ) \cup {p} /\ IsInjective(newQ')
    BY <1>0, <2>2, <2>3, AppendAdds
  <2>5. Fewer(Process \ {p})
    BY <2>2, <2>4
  <2>6. Only("newQ", p)' /\ "newQ" \in Places
    BY <2>2, <2>3 DEF Only, Places
  <2>7. SingleOwner'
    BY <1>0, <2>2, <2>4, <2>5, <2>6, Moved
  <2>8. Created'
    BY <2>2, <2>4 DEF Created
  <2>9. ExecOK' /\ FlowOK' /\ StpIdle' /\ LoaderOK'
    BY <2>2 DEF ExecOK, FlowOK, StpIdle, LoaderOK, ExecPC
  <2> QED BY <2>7, <2>8, <2>9
<1>2. CASE \/ Pause \/ StartLtp \/ StartStp \/ StartClear \/ Raise \/ Lower \/ KillJudge
           \/ \E n \in Degrees : SetDegree(n)
           \/ \E p \in Process : KillFind(p)
  <2>1. /\ UNCHANGED <<status, queueVars, subject, next, pageSem, active>>
        /\ pc["console"] \notin ReadyPC
        /\ pc' = pc \/ \E l \in ConsolePC \ ReadyPC : pc' = [pc EXCEPT !["console"] = l]
    BY <1>2 DEF Pause, StartLtp, StartStp, StartClear, Raise, Lower, KillJudge,
                SetDegree, KillFind, DegreeStep
  <2>2. \/ own' = own
        \/ own' = [own EXCEPT !["console"] = NoProcess]
        \/ \E p \in running : own' = [own EXCEPT !["console"] = p]
    BY <1>2 DEF Pause, StartLtp, StartStp, StartClear, Raise, Lower, KillJudge,
                SetDegree, KillFind, DegreeStep
  <2>3. /\ \A t \in Thread : t # "console" => pc'[t] = pc[t]
        /\ pc'["console"] \notin ReadyPC \cup {"sleep", "load"}
        /\ own'["stp"] = own["stp"]
        /\ own'["console"] \in running \cup {own["console"], NoProcess}
    BY <2>1, <2>2
  <2>4. Fewer(Process)
    BY <2>1, <2>3
  <2>5. SingleOwner'
    BY <1>0, <2>1, <2>4, Kept
  <2>6. Created'
    BY <2>1, <2>3 DEF Created
  <2>7. ExecOK' /\ FlowOK' /\ StpIdle' /\ LoaderOK'
    BY <2>1, <2>3 DEF ExecOK, FlowOK, StpIdle, LoaderOK, ExecPC
  <2> QED BY <2>5, <2>6, <2>7
<1>3. CASE ReadyProcess("console") \/ ExitProcess("console")
  BY <1>3, ReadyOwnership, ExitOwnership
<1> QED BY <1>1, <1>2, <1>3 DEF Command, Operator

LEMMA NextOwnership == Ownership /\ [Next]_vars => Ownership'
<1> SUFFICES ASSUME Ownership, [Next]_vars PROVE Ownership'
  OBVIOUS
<1>1. Typing'
  BY NextTyping DEF Ownership
<1>2. CASE Next
  <2>1. SingleOwner' /\ Rest'
    BY <1>2, LtpOwnership, StpOwnership, DetachedOwnership, ConsoleOwnership DEF Next
  <2> QED BY <1>1, <2>1 DEF Ownership
<1>3. CASE UNCHANGED vars
  <2>1. Fewer(Process)
    BY <1>3 DEF Fewer, vars, InHand, Carries, semVars, queueVars, planVars, flowVars
  <2>2. IsInjective(newQ') /\ IsInjective(readyQ')
    BY <1>3, Injective DEF vars, queueVars, Ownership
  <2>3. SingleOwner'
    BY <2>1, <2>2, Kept DEF Ownership
  <2>4. Rest'
    BY <1>3 DEF vars, semVars, queueVars, planVars, flowVars, Ownership, Rest, Created,
                ExecOK, FlowOK, StpIdle, LoaderOK
  <2> QED BY <1>1, <2>3, <2>4 DEF Ownership
<1> QED BY <1>2, <1>3

LEMMA AlwaysOwnership == Spec => []Ownership
  BY InitOwnership, NextOwnership, PTL DEF Spec

\* No two threads ever run, queue, wake or put to sleep the same PCB, and no
\* queue holds one twice, however kills, sleeps, page loads and the two planners
\* interleave.
THEOREM OwnerIsSingle == Spec => []SingleOwner
  BY AlwaysOwnership, PTL DEF Ownership

\* At most one process is in EXEC at any time.
THEOREM OneRuns == Spec => []OneExec
<1>1. Ownership => OneExec
  BY DEF Ownership, Rest, ExecOK, OneExec
<1> QED BY <1>1, AlwaysOwnership, PTL
=============================================================================
