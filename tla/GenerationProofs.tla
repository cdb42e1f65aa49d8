-------------------------- MODULE GenerationProofs --------------------------
(***************************************************************************)
(* Proofs about Generation: its types, that a testcase is counted once,    *)
(* that the main thread has the knowledge to itself between generations,   *)
(* and that the threads together implement TestcaseLedger.                 *)
(***************************************************************************)
EXTENDS Generation, TLAPS, FiniteSetTheorems

(***************************************************************************)
(* Sequences without repetition                                            *)
(***************************************************************************)

\* What a push adds to the elements of a queue.
LEMMA AppendElements ==
    ASSUME NEW S, NEW s \in Seq(S), NEW e \in S
    PROVE  /\ Append(s, e) \in Seq(S)
           /\ ToSet(Append(s, e)) = ToSet(s) \union {e}
           /\ Distinct(s) /\ e \notin ToSet(s) => Distinct(Append(s, e))
<1>1. /\ Append(s, e) \in Seq(S)
      /\ DOMAIN s = 1..Len(s)
      /\ DOMAIN Append(s, e) = 1..(Len(s) + 1)
      /\ Len(s) \in Nat
      /\ \A i \in 1..Len(s) : Append(s, e)[i] = s[i]
      /\ Append(s, e)[Len(s) + 1] = e
    OBVIOUS
<1>2. ToSet(Append(s, e)) = ToSet(s) \union {e}
    <2>1. \A i \in 1..(Len(s) + 1) : i \in 1..Len(s) \/ i = Len(s) + 1
        BY <1>1
    <2>2. ToSet(Append(s, e)) \subseteq ToSet(s) \union {e}
        BY <1>1, <2>1 DEF ToSet
    <2>3. ToSet(s) \union {e} \subseteq ToSet(Append(s, e))
        BY <1>1 DEF ToSet
    <2>. QED
        BY <2>2, <2>3
<1>3. ASSUME Distinct(s), e \notin ToSet(s)
      PROVE  Distinct(Append(s, e))
    BY <1>1, <1>3 DEF Distinct, ToSet
<1>. QED
    BY <1>1, <1>2, <1>3

\* What a pop takes off the elements of a queue.
LEMMA TailElements ==
    ASSUME NEW S, NEW s \in Seq(S), s # <<>>
    PROVE  /\ Tail(s) \in Seq(S)
           /\ Head(s) \in S
           /\ ToSet(s) = ToSet(Tail(s)) \union {Head(s)}
           /\ Distinct(s) => Distinct(Tail(s)) /\ Head(s) \notin ToSet(Tail(s))
<1>1. /\ Tail(s) \in Seq(S)
      /\ Len(s) \in Nat \ {0}
      /\ DOMAIN s = 1..Len(s)
      /\ DOMAIN Tail(s) = 1..(Len(s) - 1)
      /\ \A i \in 1..(Len(s) - 1) : Tail(s)[i] = s[i + 1]
      /\ Head(s) = s[1]
      /\ Head(s) \in S
    OBVIOUS
<1>2. ToSet(s) = ToSet(Tail(s)) \union {Head(s)}
    <2>1. \A i \in 1..Len(s) : i = 1 \/ (i - 1 \in 1..(Len(s) - 1) /\ (i - 1) + 1 = i)
        BY <1>1
    <2>2. ASSUME NEW i \in 1..Len(s), i # 1
          PROVE  s[i] \in ToSet(Tail(s))
        <3>1. s[i] = Tail(s)[i - 1] /\ i - 1 \in DOMAIN Tail(s)
            BY <1>1, <2>1, <2>2
        <3>. QED
            BY <3>1 DEF ToSet
    <2>3. ToSet(s) \subseteq ToSet(Tail(s)) \union {Head(s)}
        BY <1>1, <2>2 DEF ToSet
    <2>4. ToSet(Tail(s)) \union {Head(s)} \subseteq ToSet(s)
        BY <1>1 DEF ToSet
    <2>. QED
        BY <2>3, <2>4
<1>3. ASSUME Distinct(s)
      PROVE  Distinct(Tail(s)) /\ Head(s) \notin ToSet(Tail(s))
    BY <1>1, <1>3 DEF Distinct, ToSet
<1>. QED
    BY <1>1, <1>2, <1>3

(***************************************************************************)
(* What the invariant says between two steps                               *)
(***************************************************************************)

\* The sets of the invariant are finite, and once a generation is closed
\* nothing of it is under way.
LEMMA Places ==
    ASSUME IndInv
    PROVE  /\ Launched \subseteq 1..generated
           /\ InFlight \subseteq Launched
           /\ accounted \subseteq Launched
           /\ IsFiniteSet(Launched) /\ Cardinality(Launched) \in Nat
           /\ IsFiniteSet(accounted) /\ Cardinality(accounted) \in Nat
           /\ pc \in ClosedPcs => Launched = launched /\ InFlight = {} /\ Outstanding = {}
<1>1. generated \in Nat /\ launched \subseteq 1..generated
    BY DEF IndInv, TypeOK
<1>2. Launched \subseteq 1..generated
    <2>1. pc \in CallPcs => generated \in 1..generated
        BY <1>1 DEF IndInv, MainPlaces
    <2>. QED
        BY <1>1, <2>1 DEF Launched
<1>3. InFlight \subseteq Launched /\ accounted \subseteq Launched
    BY DEF IndInv, EachOnce
<1>4. IsFiniteSet(1..generated)
    BY <1>1, FS_Interval
<1>5. IsFiniteSet(Launched) /\ IsFiniteSet(accounted)
    BY <1>2, <1>3, <1>4, FS_Subset
<1>6. Cardinality(Launched) \in Nat /\ Cardinality(accounted) \in Nat
    BY <1>5, FS_CardinalityType
<1>7. ASSUME pc \in ClosedPcs
      PROVE  Launched = launched /\ InFlight = {} /\ Outstanding = {}
    <2>1. Launched = launched
        BY <1>7 DEF Launched, ClosedPcs, CallPcs
    <2>2. accounted = launched
        BY <1>7 DEF IndInv, MainPlaces
    <2>3. InFlight \intersect accounted = {}
        BY DEF IndInv, EachOnce
    <2>4. \A p \in Outstanding : testcase_pids[p] \in Launched \ accounted
        BY DEF IndInv, OutstandingOnce
    <2>. QED
        BY <1>3, <2>1, <2>2, <2>3, <2>4
<1>. QED
    BY <1>2, <1>3, <1>5, <1>6, <1>7

(***************************************************************************)
(* Types                                                                   *)
(***************************************************************************)

\* Every step leaves the variables in their types.
LEMMA TypeStep == IndInv /\ [Next]_vars => TypeOK'
<1>. SUFFICES ASSUME IndInv, [Next]_vars
              PROVE  TypeOK'
    OBVIOUS
<1>. USE DEF TypeOK, ClosedPcs, OpenPcs, CallPcs, ProcStates, Running, Statuses,
            main_vars, os_vars, table_vars, watcher_vars, monitor_vars, flag_vars, queue_vars,
            retriever_vars
<1>0. TypeOK
    BY DEF IndInv
<1>1. CASE Evolve
    BY <1>0, <1>1, GenerationAssumption DEF Evolve
<1>2. CASE ClearTable
    BY <1>0, <1>2 DEF ClearTable
<1>3. CASE ClearSent
    <2>1. sent' \in BOOLEAN /\ pc' = "clearReceived"
        BY <1>3 DEF ClearSent
    <2>2. UNCHANGED <<generated, to_launch, to_process, launched, new_pid, os_vars, testcase_pids,
                      table_vars, watcher_vars, monitor_vars, received, queue_vars, retriever_vars,
                      scored>>
        BY <1>3 DEF ClearSent
    <2>. QED
        BY <1>0, <2>1, <2>2
<1>4. CASE ClearReceived
    <2>1. received' \in BOOLEAN /\ pc' = "clearRetriever"
        BY <1>4 DEF ClearReceived
    <2>2. UNCHANGED <<generated, to_launch, to_process, launched, new_pid, os_vars, testcase_pids,
                      table_vars, watcher_vars, monitor_vars, sent, queue_vars, retriever_vars,
                      scored>>
        BY <1>4 DEF ClearReceived
    <2>. QED
        BY <1>0, <2>1, <2>2
<1>5. CASE ClearRetriever
    BY <1>0, <1>5 DEF ClearRetriever, ClearedCount
<1>6. ASSUME NEW p \in Pids, Launch(p) PROVE TypeOK'
    BY <1>0, <1>6 DEF Launch
<1>7. CASE LaunchFails
    <2>1. to_process - 1 \in Nat
        BY <1>0, <1>7, Places DEF LaunchFails, IndInv, MainPlaces
    <2>2. generated' \in Nat /\ to_launch' \in Nat /\ to_process' \in Nat
        BY <1>0, <1>7, <2>1 DEF LaunchFails, LessFailedCall
    <2>3. /\ launched' \subseteq 1..generated' /\ traces' \subseteq 1..generated'
          /\ accounted' \subseteq 1..generated' /\ scored' \subseteq 1..generated'
        BY <1>0, <1>7 DEF LaunchFails
    <2>4. UNCHANGED <<pc, new_pid, proc, proc_testcase, testcase_pids, table_vars, watcher_vars,
                      monitor_vars, flag_vars, queue_vars, retriever_pc, testcase, processed>>
        BY <1>7 DEF LaunchFails
    <2>. QED
        BY <1>0, <2>2, <2>3, <2>4
<1>8. CASE RecordTestcase
    <2>1. testcase_pids' \in [Pids -> Nat] /\ pc' = "publish"
        BY <1>0, <1>8 DEF RecordTestcase
    <2>2. UNCHANGED <<generated, to_launch, to_process, launched, new_pid, os_vars, table_vars,
                      watcher_vars, monitor_vars, flag_vars, queue_vars, retriever_vars, scored>>
        BY <1>8 DEF RecordTestcase
    <2>. QED
        BY <1>0, <2>1, <2>2
<1>9. CASE PublishPid
    <2>1. generated \in 1..generated
        BY <1>0, <1>9 DEF PublishPid, IndInv, MainPlaces
    <2>2. launched' \subseteq 1..generated'
        BY <1>0, <1>9, <2>1 DEF PublishPid
    <2>3. all_pids' \subseteq Pids /\ new_pid' = NoPid /\ pc' = "gate"
        BY <1>0, <1>9 DEF PublishPid, IndInv, MainPlaces
    <2>4. UNCHANGED <<generated, to_launch, to_process, os_vars, testcase_pids, pid_statuses,
                      pid_timers, watcher_vars, monitor_vars, flag_vars, queue_vars,
                      retriever_vars, scored>>
        BY <1>9 DEF PublishPid
    <2>. QED
        BY <1>0, <2>2, <2>3, <2>4
<1>10. CASE AllReceived
    BY <1>0, <1>10 DEF AllReceived
<1>11. CASE SeeSent
    BY <1>0, <1>11 DEF SeeSent
<1>12. CASE SeeCount
    BY <1>0, <1>12 DEF SeeCount
<1>13. CASE Report
    BY <1>0, <1>13 DEF Report
<1>14. ASSUME NEW p \in Pids, ChildFlush(p) PROVE TypeOK'
    <2>1. proc_testcase[p] \in 1..generated
        BY <1>0, <1>14 DEF ChildFlush, IndInv, ChildrenNumbered
    <2>2. traces' \subseteq 1..generated /\ proc' \in [Pids -> ProcStates]
        BY <1>0, <1>14, <2>1 DEF ChildFlush
    <2>3. UNCHANGED <<main_vars, proc_testcase, testcase_pids, table_vars, watcher_vars,
                      monitor_vars, flag_vars, queue_vars, retriever_vars, scored>>
        BY <1>14 DEF ChildFlush
    <2>. QED
        BY <1>0, <2>2, <2>3
<1>15. ASSUME NEW p \in Pids, ChildExit(p) PROVE TypeOK'
    BY <1>0, <1>15 DEF ChildExit
<1>16. ASSUME NEW p \in Pids, ChildStop(p) PROVE TypeOK'
    BY <1>0, <1>16 DEF ChildStop
<1>17. CASE WatcherCopy
    BY <1>0, <1>17 DEF WatcherCopy
<1>18. ASSUME NEW p \in Pids, WatcherWait(p) PROVE TypeOK'
    <2>1. StatusOf(p) \in Statuses /\ AfterWait(p) \in ProcStates
        BY <1>0 DEF StatusOf, AfterWait
    <2>. QED
        BY <1>0, <1>18, <2>1 DEF WatcherWait
<1>19. CASE WatcherInTime
    BY <1>0, <1>19 DEF WatcherInTime
<1>20. CASE TimeoutKill
    BY <1>0, <1>20 DEF TimeoutKill
<1>21. CASE WatcherUpdate
    BY <1>0, <1>21 DEF WatcherUpdate
<1>22. CASE MonitorSeesEmpty
    BY <1>0, <1>22, SMTT(30) DEF MonitorSeesEmpty
<1>23. CASE MonitorFlags
    BY <1>0, <1>23, SMTT(30) DEF MonitorFlags
<1>24. CASE MonitorCopy
    BY <1>0, <1>24, SMTT(30) DEF MonitorCopy
<1>25. ASSUME NEW p \in Pids, MonitorScan(p) PROVE TypeOK'
    <2>1. terminated' \in [Pids -> Statuses \union {"none"}]
        BY <1>0, <1>25 DEF MonitorScan
    <2>2. monitor_pids' \subseteq Pids /\ monitor_pc' \in {"scan", "remove", "report"}
        BY <1>0, <1>25 DEF MonitorScan
    <2>3. UNCHANGED <<main_vars, os_vars, testcase_pids, table_vars, watcher_vars, monitor_pid,
                      flag_vars, queue_vars, retriever_vars, scored>>
        BY <1>25 DEF MonitorScan
    <2>. QED
        BY <1>0, <2>1, <2>2, <2>3
<1>26. ASSUME NEW p \in Pids, MonitorPush(p) PROVE TypeOK'
    <2>1. /\ testcase_pids[p] \in Nat
          /\ Append(queue, testcase_pids[p]) \in Seq(Nat)
          /\ Append(timed_out_queue, testcase_pids[p]) \in Seq(Nat)
        BY <1>0
    <2>2. queue' \in Seq(Nat) /\ timed_out_queue' \in Seq(Nat)
        BY <1>0, <1>26, <2>1 DEF MonitorPush
    <2>3. /\ terminated' \in [Pids -> Statuses \union {"none"}]
          /\ monitor_pid' = p /\ monitor_pc' = "note"
        BY <1>0, <1>26 DEF MonitorPush
    <2>4. UNCHANGED <<main_vars, os_vars, testcase_pids, table_vars, watcher_vars, monitor_pids,
                      flag_vars, retriever_vars, scored>>
        BY <1>26 DEF MonitorPush
    <2>. QED
        BY <1>0, <2>2, <2>3, <2>4, SMTT(30)
<1>27. ASSUME NEW p \in Pids, MonitorPassOver(p) PROVE TypeOK'
    BY <1>0, <1>27 DEF MonitorPassOver
<1>28. CASE MonitorForget
    <2>1. testcase_pids' \in [Pids -> Nat]
        BY <1>0, <1>28 DEF MonitorForget, PidForgotten
    <2>2. monitor_pid' = NoPid /\ monitor_pc' = "report"
        BY <1>28 DEF MonitorForget
    <2>3. UNCHANGED <<main_vars, os_vars, table_vars, watcher_vars, monitor_pids, terminated,
                      flag_vars, queue_vars, retriever_vars, scored>>
        BY <1>28 DEF MonitorForget
    <2>. QED
        BY <1>0, <2>1, <2>2, <2>3
<1>29. CASE MonitorDone
    BY <1>0, <1>29 DEF MonitorDone
<1>30. CASE RetrieverPop
    <2>1. Head(queue) \in Nat /\ Tail(queue) \in Seq(Nat)
        BY <1>0, <1>30 DEF RetrieverPop
    <2>2. testcase' \in Nat /\ queue' \in Seq(Nat) /\ retriever_pc' = "lookup"
        BY <1>30, <2>1 DEF RetrieverPop
    <2>3. UNCHANGED <<main_vars, os_vars, testcase_pids, table_vars, watcher_vars, monitor_vars,
                      flag_vars, timed_out_queue, processed, accounted, scored>>
        BY <1>30 DEF RetrieverPop
    <2>. QED
        BY <1>0, <2>2, <2>3
<1>31. CASE RetrieverSeesEmpty
    BY <1>0, <1>31 DEF RetrieverSeesEmpty
<1>32. CASE GetTrace
    BY <1>0, <1>32 DEF GetTrace
<1>33. CASE AddTrace
    <2>1. testcase \in 1..generated
        BY <1>33, Places DEF AddTrace, InFlight
    <2>. QED
        BY <1>0, <1>33, <2>1 DEF AddTrace
<1>34. CASE CountTimedOut
    <2>1. Tail(timed_out_queue) \in Seq(Nat) /\ Head(timed_out_queue) \in ToSet(timed_out_queue)
        BY <1>0, <1>34, TailElements DEF CountTimedOut
    <2>2. Head(timed_out_queue) \in 1..generated
        BY <2>1, Places DEF InFlight
    <2>3. timed_out_queue' \in Seq(Nat) /\ accounted' \subseteq 1..generated
        BY <1>0, <1>34, <2>1, <2>2 DEF CountTimedOut
    <2>4. processed' \in Nat /\ retriever_pc' = "queue"
        BY <1>0, <1>34 DEF CountTimedOut
    <2>5. UNCHANGED <<main_vars, os_vars, testcase_pids, table_vars, watcher_vars, monitor_vars,
                      flag_vars, queue, testcase, scored>>
        BY <1>34 DEF CountTimedOut
    <2>. QED
        BY <1>0, <2>3, <2>4, <2>5
<1>35. CASE RetrieverLoops
    BY <1>0, <1>35 DEF RetrieverLoops
<1>36. CASE UNCHANGED vars
    BY <1>0, <1>36 DEF vars
<1>37. CASE PublishStatus
    <2>1. pid_statuses' \in [Pids -> Statuses \union {"none"}] /\ pc' = "publishTimer"
        BY <1>0, <1>37 DEF PublishStatus
    <2>2. UNCHANGED <<generated, to_launch, to_process, launched, new_pid, os_vars, testcase_pids,
                      all_pids, pid_timers, watcher_vars, monitor_vars, flag_vars, queue_vars,
                      retriever_vars, scored>>
        BY <1>37 DEF PublishStatus
    <2>. QED
        BY <1>0, <2>1, <2>2
<1>38. CASE PublishTimer
    BY <1>0, <1>38 DEF PublishTimer, IndInv, MainPlaces
<1>39. ASSUME NEW p \in Pids, MonitorRemoveStatus(p) PROVE TypeOK'
    <2>1. /\ pid_statuses' \in [Pids -> Statuses \union {"none"}]
          /\ monitor_pids' \subseteq Pids /\ monitor_pid' \in Pids \union {NoPid}
          /\ monitor_pc' \in {"remove", "removeTimer", "report"}
        BY <1>0, <1>39 DEF MonitorRemoveStatus
    <2>2. UNCHANGED <<main_vars, os_vars, testcase_pids, all_pids, pid_timers, watcher_vars,
                      terminated, flag_vars, queue_vars, retriever_vars, scored>>
        BY <1>39 DEF MonitorRemoveStatus
    <2>. QED
        BY <1>0, <2>1, <2>2
<1>40. CASE MonitorRemoveTimer
    BY <1>0, <1>40 DEF MonitorRemoveTimer
<1>41. CASE MonitorRemovePid
    BY <1>0, <1>41 DEF MonitorRemovePid
<1>42. CASE AddTraceFails
    <2>1. testcase \in 1..generated
        BY <1>42, Places DEF AddTraceFails, InFlight
    <2>. QED
        BY <1>0, <1>42, <2>1 DEF AddTraceFails
<1>. QED
    BY <1>1, <1>2, <1>3, <1>4, <1>5, <1>6, <1>7, <1>8, <1>9, <1>10, <1>11, <1>12, <1>13,
       <1>14, <1>15, <1>16, <1>17, <1>18, <1>19, <1>20, <1>21, <1>22, <1>23, <1>24, <1>25,
       <1>26, <1>27, <1>28, <1>29, <1>30, <1>31, <1>32, <1>33, <1>34, <1>35, <1>36, <1>37,
       <1>38, <1>39, <1>40, <1>41, <1>42
       DEF Next, Main, Child, Watcher, Monitor, Retriever

(***************************************************************************)
(* The main thread                                                         *)
(***************************************************************************)

\* The main thread stays at the places the invariant allows: in particular it
\* leaves the wait for the count only when every testcase is counted.
LEMMA PlacesStep == IndInv /\ [Next]_vars => MainPlaces'
<1>. SUFFICES ASSUME IndInv, [Next]_vars
              PROVE  MainPlaces'
    OBVIOUS
<1>. USE DEF ClosedPcs, OpenPcs, CallPcs
<1>1. TypeOK /\ MainPlaces /\ EachOnce
    BY DEF IndInv
<1>2. ASSUME UNCHANGED <<main_vars, accounted>>
      PROVE  MainPlaces'
    BY <1>1, <1>2 DEF MainPlaces, Launched, main_vars
<1>3. CASE Evolve \/ ClearTable \/ ClearSent \/ ClearReceived \/ Report
    BY <1>1, <1>3 DEF MainPlaces, Evolve, ClearTable, ClearSent, ClearReceived, Report,
                      retriever_vars
<1>4. CASE ClearRetriever
    <2>1. pc' = "gate" /\ Launched' = {} /\ to_process' = to_launch' /\ to_launch \in Nat
          /\ to_launch' = to_launch
        BY <1>1, <1>4 DEF ClearRetriever, Launched, TypeOK
    <2>2. Cardinality({}) = 0
        BY FS_EmptySet
    <2>. QED
        BY <2>1, <2>2 DEF MainPlaces
<1>5. ASSUME NEW p \in Pids, Launch(p)
      PROVE  MainPlaces'
    <2>1. /\ pc' = "record" /\ new_pid' = p /\ generated' = generated + 1
          /\ launched' = launched /\ to_process' = to_process
          /\ to_launch' = to_launch - 1 /\ to_launch > 0
          /\ Launched = launched /\ Launched' = launched \union {generated'}
        BY <1>5 DEF Launch, Launched
    <2>2. generated \in Nat /\ launched \subseteq 1..generated /\ to_launch \in Nat
        BY <1>1 DEF TypeOK
    <2>3. generated' \notin launched
        BY <2>1, <2>2
    <2>4. Cardinality(Launched') = Cardinality(launched) + 1
        BY <2>1, <2>3, Places, FS_AddElement
    <2>5. to_process = Cardinality(launched) + to_launch
        BY <1>1, <1>5, <2>1 DEF MainPlaces, Launch
    <2>6. Cardinality(launched) \in Nat
        BY <2>1, Places
    <2>7. to_process' = Cardinality(Launched') + to_launch'
        BY <2>1, <2>2, <2>4, <2>5, <2>6
    <2>. QED
        BY <1>5, <2>1, <2>2, <2>3, <2>7 DEF MainPlaces
<1>6. CASE LaunchFails
    <2>1. /\ pc = "gate" /\ pc' = "gate" /\ to_process' = to_process - 1
          /\ to_launch' = to_launch - 1 /\ to_launch > 0
          /\ Launched = launched /\ Launched' = launched
        BY <1>6 DEF LaunchFails, LessFailedCall, Launched
    <2>2. to_process = Cardinality(Launched) + to_launch
        BY <1>1, <2>1 DEF MainPlaces
    <2>3. to_launch \in Nat /\ Cardinality(Launched) \in Nat
        BY <1>1, Places DEF TypeOK
    <2>4. to_process' = Cardinality(Launched') + to_launch'
        BY <2>1, <2>2, <2>3
    <2>. QED
        BY <2>1, <2>4 DEF MainPlaces
<1>7. CASE RecordTestcase \/ PublishStatus \/ PublishTimer
    BY <1>1, <1>7 DEF MainPlaces, RecordTestcase, PublishStatus, PublishTimer, Launched,
                      retriever_vars
<1>8. CASE PublishPid
    <2>1. /\ pc' = "gate" /\ Launched' = Launched
          /\ UNCHANGED <<to_process, to_launch>>
        BY <1>8 DEF PublishPid, Launched
    <2>2. to_process = Cardinality(Launched) + to_launch
        BY <1>1, <1>8 DEF MainPlaces, PublishPid
    <2>. QED
        BY <2>1, <2>2 DEF MainPlaces
<1>9. CASE AllReceived \/ SeeSent
    BY <1>1, <1>9 DEF MainPlaces, AllReceived, SeeSent, Launched
<1>10. CASE SeeCount
    <2>1. /\ pc = "awaitCount" /\ pc' = "report" /\ Launched = launched
          /\ processed >= to_process /\ UNCHANGED <<launched, accounted>>
        BY <1>10 DEF SeeCount, AllCounted, Launched, retriever_vars
    <2>2. to_process = Cardinality(Launched) /\ processed = Cardinality(accounted)
        BY <1>1, <2>1, Places DEF MainPlaces, EachOnce
    <2>3. Cardinality(accounted) <= Cardinality(Launched)
          /\ (Cardinality(Launched) = Cardinality(accounted) => Launched = accounted)
        BY Places, FS_Subset
    <2>4. accounted = launched
        BY <2>1, <2>2, <2>3, Places
    <2>. QED
        BY <2>1, <2>4 DEF MainPlaces
<1>11. CASE AddTrace \/ CountTimedOut
    <2>1. InFlight # {}
        <3>1. CASE AddTrace
            BY <3>1 DEF AddTrace, InFlight
        <3>2. CASE CountTimedOut
            <4>1. timed_out_queue \in Seq(Nat) /\ timed_out_queue # <<>>
                BY <1>1, <3>2 DEF CountTimedOut, TypeOK
            <4>2. Head(timed_out_queue) \in ToSet(timed_out_queue)
                BY <4>1, TailElements
            <4>. QED
                BY <4>2 DEF InFlight
        <3>. QED
            BY <1>11, <3>1, <3>2
    <2>2. pc \notin ClosedPcs
        BY <2>1, Places
    <2>3. UNCHANGED main_vars
        BY <1>11 DEF AddTrace, CountTimedOut
    <2>. QED
        BY <1>1, <2>2, <2>3 DEF MainPlaces, Launched, main_vars
<1>12. ASSUME NEW p \in Pids,
            ChildFlush(p) \/ ChildExit(p) \/ ChildStop(p) \/ WatcherWait(p) \/
            MonitorScan(p) \/ MonitorRemoveStatus(p) \/ MonitorPush(p) \/ MonitorPassOver(p)
      PROVE  MainPlaces'
    BY <1>2, <1>12 DEF ChildFlush, ChildExit, ChildStop, WatcherWait, MonitorScan,
                MonitorRemoveStatus, MonitorPush, MonitorPassOver, retriever_vars
<1>13. CASE WatcherCopy \/ WatcherInTime \/ TimeoutKill \/ WatcherUpdate \/
           MonitorSeesEmpty \/ MonitorFlags \/ MonitorCopy \/ MonitorRemoveTimer \/
           MonitorRemovePid \/ MonitorForget \/ MonitorDone \/ RetrieverPop \/
           RetrieverSeesEmpty \/ GetTrace \/ AddTraceFails \/ RetrieverLoops
    BY <1>2, <1>13 DEF WatcherCopy, WatcherInTime, TimeoutKill, WatcherUpdate, MonitorSeesEmpty,
                MonitorFlags, MonitorCopy, MonitorRemoveTimer, MonitorRemovePid, MonitorForget,
                MonitorDone, RetrieverPop, RetrieverSeesEmpty, GetTrace, AddTraceFails,
                RetrieverLoops, retriever_vars
<1>14. CASE UNCHANGED vars
    BY <1>2, <1>14 DEF vars, retriever_vars
<1>. QED
    BY <1>1, <1>2, <1>3, <1>4, <1>5, <1>6, <1>7, <1>8, <1>9, <1>10, <1>11, <1>12, <1>13,
       <1>14
       DEF Next, Main, Child, Watcher, Monitor, Retriever

\* Children keep a testcase id of this campaign until they are reaped.
LEMMA ChildrenStep == IndInv /\ [Next]_vars => ChildrenNumbered'
<1>. SUFFICES ASSUME IndInv, [Next]_vars
              PROVE  ChildrenNumbered'
    OBVIOUS
<1>1. /\ ChildrenNumbered
      /\ generated \in Nat
      /\ proc \in [Pids -> ProcStates]
      /\ proc_testcase \in [Pids -> Nat]
    BY DEF IndInv, TypeOK
<1>2. ASSUME UNCHANGED <<generated, proc, proc_testcase>>
      PROVE  ChildrenNumbered'
    BY <1>1, <1>2 DEF ChildrenNumbered
<1>3. ASSUME NEW p \in Pids, Launch(p)
      PROVE  ChildrenNumbered'
    BY <1>1, <1>3 DEF ChildrenNumbered, Launch
<1>4. CASE LaunchFails
    BY <1>1, <1>4 DEF ChildrenNumbered, LaunchFails, os_vars
<1>5. ASSUME NEW p \in Pids, ChildFlush(p) \/ ChildExit(p) \/ ChildStop(p)
      PROVE  ChildrenNumbered'
    BY <1>1, <1>5 DEF ChildrenNumbered, ChildFlush, ChildExit, ChildStop, Running, main_vars
<1>6. ASSUME NEW p \in Pids, WatcherWait(p)
      PROVE  ChildrenNumbered'
    <2>1. AfterWait(p) # "none" => proc[p] # "none"
        BY DEF AfterWait
    <2>2. /\ proc' = [proc EXCEPT ![p] = AfterWait(p)]
          /\ proc_testcase' = [proc_testcase EXCEPT ![p] = IF proc'[p] = "none" THEN 0 ELSE @]
          /\ generated' = generated
        BY <1>6 DEF WatcherWait, main_vars
    <2>. QED
        BY <1>1, <2>1, <2>2 DEF ChildrenNumbered
<1>7. ASSUME NEW p \in Pids,
            MonitorScan(p) \/ MonitorRemoveStatus(p) \/ MonitorPush(p) \/ MonitorPassOver(p)
      PROVE  ChildrenNumbered'
    BY <1>2, <1>7 DEF MonitorScan, MonitorRemoveStatus, MonitorPush, MonitorPassOver, main_vars,
                      os_vars
<1>8. CASE Evolve \/ ClearTable \/ ClearSent \/ ClearReceived \/ ClearRetriever \/
           RecordTestcase \/ PublishStatus \/ PublishTimer \/ PublishPid \/ AllReceived \/
           SeeSent \/ SeeCount \/ Report
           \/ WatcherCopy \/ WatcherInTime \/ TimeoutKill \/ WatcherUpdate \/
           MonitorSeesEmpty \/ MonitorFlags \/ MonitorCopy \/ MonitorRemoveTimer \/
           MonitorRemovePid \/ MonitorForget \/ MonitorDone \/ RetrieverPop \/
           RetrieverSeesEmpty \/ GetTrace \/ AddTrace \/ AddTraceFails \/
           CountTimedOut \/ RetrieverLoops
    BY <1>2, <1>8 DEF Evolve, ClearTable, ClearSent, ClearReceived, ClearRetriever, RecordTestcase,
                PublishStatus, PublishTimer, PublishPid, AllReceived, SeeSent, SeeCount, Report,
                WatcherCopy,
                WatcherInTime, TimeoutKill, WatcherUpdate, MonitorSeesEmpty, MonitorFlags,
                MonitorCopy, MonitorRemoveTimer, MonitorRemovePid, MonitorForget, MonitorDone,
                RetrieverPop, RetrieverSeesEmpty, GetTrace, AddTrace, AddTraceFails,
                CountTimedOut, RetrieverLoops, main_vars, os_vars
<1>9. CASE UNCHANGED vars
    BY <1>2, <1>9 DEF vars, main_vars, os_vars
<1>. QED
    BY <1>1, <1>2, <1>3, <1>4, <1>5, <1>6, <1>7, <1>8, <1>9
       DEF Next, Main, Child, Watcher, Monitor, Retriever

(***************************************************************************)
(* The way of a testcase                                                   *)
(***************************************************************************)

\* A push puts the testcase of an outstanding pid on its way.
LEMMA PushedTestcase ==
    ASSUME IndInv, NEW p \in Pids, MonitorPush(p)
    PROVE  /\ p \in Outstanding
           /\ testcase_pids[p] \in Launched \ (InFlight \union accounted)
           /\ InFlight' = InFlight \union {testcase_pids[p]}
           /\ UNCHANGED <<accounted, processed, testcase, retriever_pc, testcase_pids>>
           /\ Launched' = Launched
           /\ \/ /\ queue' = Append(queue, testcase_pids[p])
                 /\ ToSet(queue') = ToSet(queue) \union {testcase_pids[p]}
                 /\ Distinct(queue')
                 /\ timed_out_queue' = timed_out_queue
              \/ /\ timed_out_queue' = Append(timed_out_queue, testcase_pids[p])
                 /\ ToSet(timed_out_queue') = ToSet(timed_out_queue) \union {testcase_pids[p]}
                 /\ Distinct(timed_out_queue')
                 /\ queue' = queue
<1>1. /\ queue \in Seq(Nat) /\ Distinct(queue)
      /\ timed_out_queue \in Seq(Nat) /\ Distinct(timed_out_queue)
      /\ testcase_pids[p] \in Nat
    BY DEF IndInv, TypeOK, EachOnce
<1>2. p \in Outstanding
    BY <1>1 DEF MonitorPush, Outstanding
<1>3. testcase_pids[p] \in Launched \ (InFlight \union accounted)
    BY <1>2 DEF IndInv, OutstandingOnce
<1>4. /\ UNCHANGED <<accounted, processed, testcase, retriever_pc, testcase_pids>>
      /\ Launched' = Launched
    BY DEF MonitorPush, retriever_vars, main_vars, Launched
<1>5. testcase_pids[p] \notin ToSet(queue) /\ testcase_pids[p] \notin ToSet(timed_out_queue)
    BY <1>3 DEF InFlight
<1>6. CASE terminated[p] = "TIMEDOUT"
    <2>1. timed_out_queue' = Append(timed_out_queue, testcase_pids[p]) /\ queue' = queue
        BY <1>6 DEF MonitorPush
    <2>2. /\ ToSet(timed_out_queue') = ToSet(timed_out_queue) \union {testcase_pids[p]}
          /\ Distinct(timed_out_queue')
        BY <1>1, <1>5, <2>1, AppendElements
    <2>3. InFlight' = InFlight \union {testcase_pids[p]}
        BY <1>4, <2>1, <2>2 DEF InFlight
    <2>. QED
        BY <1>2, <1>3, <1>4, <2>1, <2>2, <2>3
<1>7. CASE terminated[p] # "TIMEDOUT"
    <2>1. queue' = Append(queue, testcase_pids[p]) /\ timed_out_queue' = timed_out_queue
        BY <1>7 DEF MonitorPush
    <2>2. ToSet(queue') = ToSet(queue) \union {testcase_pids[p]} /\ Distinct(queue')
        BY <1>1, <1>5, <2>1, AppendElements
    <2>3. InFlight' = InFlight \union {testcase_pids[p]}
        BY <1>4, <2>1, <2>2 DEF InFlight
    <2>. QED
        BY <1>2, <1>3, <1>4, <2>1, <2>2, <2>3
<1>. QED
    BY <1>6, <1>7

\* A pop moves the head of the queue into the retriever's hand.
LEMMA PoppedTestcase ==
    ASSUME IndInv, RetrieverPop
    PROVE  /\ ToSet(queue) = ToSet(queue') \union {testcase'}
           /\ testcase' \notin ToSet(queue')
           /\ Distinct(queue')
           /\ InFlight' = InFlight
           /\ Launched' = Launched
<1>1. queue \in Seq(Nat) /\ queue # <<>> /\ Distinct(queue)
    BY DEF IndInv, TypeOK, EachOnce, RetrieverPop
<1>2. /\ queue' = Tail(queue) /\ testcase' = Head(queue) /\ timed_out_queue' = timed_out_queue
      /\ retriever_pc = "queue" /\ retriever_pc' = "lookup"
    BY DEF RetrieverPop
<1>3. /\ ToSet(queue) = ToSet(queue') \union {testcase'}
      /\ testcase' \notin ToSet(queue') /\ Distinct(queue')
    BY <1>1, <1>2, TailElements
<1>4. InFlight' = InFlight
    BY <1>2, <1>3 DEF InFlight
<1>5. Launched' = Launched
    BY DEF RetrieverPop, main_vars, Launched
<1>. QED
    BY <1>3, <1>4, <1>5

\* A timed out testcase goes from its queue to the count.
LEMMA TimedOutTestcase ==
    ASSUME IndInv, CountTimedOut
    PROVE  /\ Head(timed_out_queue) \in Launched \ accounted
           /\ accounted' = accounted \union {Head(timed_out_queue)}
           /\ ToSet(timed_out_queue) = ToSet(timed_out_queue') \union {Head(timed_out_queue)}
           /\ Head(timed_out_queue) \notin ToSet(timed_out_queue')
           /\ Distinct(timed_out_queue')
           /\ InFlight' = InFlight \ {Head(timed_out_queue)}
           /\ Launched' = Launched
<1>1. timed_out_queue \in Seq(Nat) /\ timed_out_queue # <<>> /\ Distinct(timed_out_queue)
    BY DEF IndInv, TypeOK, EachOnce, CountTimedOut
<1>2. /\ timed_out_queue' = Tail(timed_out_queue) /\ queue' = queue
      /\ retriever_pc = "timedout" /\ retriever_pc' = "queue"
      /\ accounted' = accounted \union {Head(timed_out_queue)}
    BY DEF CountTimedOut
<1>3. /\ ToSet(timed_out_queue) = ToSet(timed_out_queue') \union {Head(timed_out_queue)}
      /\ Head(timed_out_queue) \notin ToSet(timed_out_queue') /\ Distinct(timed_out_queue')
    BY <1>1, <1>2, TailElements
<1>4. ToSet(queue) \intersect ToSet(timed_out_queue) = {}
    BY DEF IndInv, EachOnce
<1>5. InFlight' = InFlight \ {Head(timed_out_queue)}
    BY <1>2, <1>3, <1>4 DEF InFlight
<1>6. Head(timed_out_queue) \in Launched \ accounted
    BY <1>3 DEF IndInv, EachOnce, InFlight
<1>7. Launched' = Launched
    BY DEF CountTimedOut, main_vars, Launched
<1>. QED
    BY <1>2, <1>3, <1>5, <1>6, <1>7

\* A testcase whose trace is integrated goes from the retriever's hand to the
\* count.
LEMMA TracedTestcase ==
    ASSUME IndInv, AddTrace
    PROVE  /\ testcase \in Launched \ accounted
           /\ accounted' = accounted \union {testcase}
           /\ InFlight' = InFlight \ {testcase}
           /\ Launched' = Launched
<1>1. /\ retriever_pc = "integrate" /\ retriever_pc' = "timedout"
      /\ UNCHANGED <<queue, timed_out_queue>>
      /\ accounted' = accounted \union {testcase}
    BY DEF AddTrace, queue_vars
<1>2. testcase \notin ToSet(queue) \union ToSet(timed_out_queue)
    BY <1>1 DEF IndInv, EachOnce
<1>3. InFlight' = InFlight \ {testcase}
    BY <1>1, <1>2 DEF InFlight
<1>4. testcase \in Launched \ accounted
    BY <1>1 DEF IndInv, EachOnce, InFlight
<1>5. Launched' = Launched
    BY DEF AddTrace, main_vars, Launched
<1>. QED
    BY <1>1, <1>3, <1>4, <1>5

\* A testcase the retriever drops is not on its way any more.
LEMMA LookedUpTestcase ==
    ASSUME GetTrace
    PROVE  /\ InFlight' \subseteq InFlight
           /\ Launched' = Launched
           /\ retriever_pc' = "integrate" => retriever_pc = "lookup" /\ testcase' = testcase
           /\ retriever_pc' \in {"integrate", "timedout"}
           /\ UNCHANGED <<queue, timed_out_queue, processed, accounted>>
BY DEF GetTrace, InFlight, Launched, main_vars, queue_vars

\* No step makes a testcase appear in two places or be counted twice.
LEMMA EachOnceStep == IndInv /\ [Next]_vars => EachOnce'
<1>. SUFFICES ASSUME IndInv, [Next]_vars
              PROVE  EachOnce'
    OBVIOUS
<1>. USE DEF CallPcs
<1>1. TypeOK /\ MainPlaces /\ EachOnce
    BY DEF IndInv
<1>2. ASSUME UNCHANGED <<queue_vars, processed, accounted>>,
             Launched \subseteq Launched',
             retriever_pc' \in {"lookup", "integrate"} =>
                 retriever_pc \in {"lookup", "integrate"} /\ testcase' = testcase
      PROVE  EachOnce'
    <2>1. InFlight' \subseteq InFlight
        BY <1>2 DEF InFlight, queue_vars
    <2>. QED
        BY <1>1, <1>2, <2>1 DEF EachOnce, queue_vars
<1>3. CASE ClearRetriever
    <2>1. InFlight = {} /\ UNCHANGED <<queue_vars, retriever_pc, testcase>>
          /\ accounted' = {} /\ processed' = 0
        BY <1>3, Places DEF ClearRetriever, ClearedCount, ClosedPcs
    <2>2. InFlight' = {}
        BY <2>1 DEF InFlight, queue_vars
    <2>3. Cardinality({}) = 0
        BY FS_EmptySet
    <2>. QED
        BY <1>1, <2>1, <2>2, <2>3 DEF EachOnce, queue_vars
<1>4. ASSUME NEW p \in Pids, Launch(p)
      PROVE  EachOnce'
    BY <1>2, <1>4 DEF Launch, Launched, retriever_vars
<1>5. CASE PublishStatus \/ PublishTimer \/ PublishPid
    BY <1>2, <1>5 DEF PublishStatus, PublishTimer, PublishPid, Launched, retriever_vars
<1>6. CASE RecordTestcase
    BY <1>2, <1>6 DEF RecordTestcase, Launched, retriever_vars
<1>7. CASE LaunchFails
    BY <1>2, <1>7 DEF LaunchFails, Launched, retriever_vars
<1>8. CASE \/ Evolve \/ ClearTable \/ ClearSent \/ ClearReceived
           \/ AllReceived \/ SeeSent \/ SeeCount \/ Report
    BY <1>2, <1>8 DEF Evolve, ClearTable, ClearSent, ClearReceived, AllReceived, SeeSent, SeeCount,
                      Report, Launched, retriever_vars
<1>9. ASSUME NEW p \in Pids, MonitorPush(p)
      PROVE  EachOnce'
    BY <1>1, <1>9, PushedTestcase DEF EachOnce, InFlight
<1>10. CASE RetrieverPop
    <2>1. UNCHANGED <<processed, accounted, timed_out_queue>> /\ retriever_pc' = "lookup"
        BY <1>10 DEF RetrieverPop
    <2>. QED
        BY <1>1, <1>10, <2>1, PoppedTestcase DEF EachOnce
<1>11. CASE GetTrace
    BY <1>2, <1>11, LookedUpTestcase DEF queue_vars
<1>12. CASE AddTrace
    <2>1. processed' = processed + 1 /\ UNCHANGED queue_vars /\ retriever_pc' = "timedout"
        BY <1>12 DEF AddTrace
    <2>2. Cardinality(accounted') = Cardinality(accounted) + 1
        BY <1>12, Places, TracedTestcase, FS_AddElement
    <2>. QED
        BY <1>1, <1>12, <2>1, <2>2, TracedTestcase DEF EachOnce, queue_vars
<1>13. CASE CountTimedOut
    <2>1. processed' = processed + 1 /\ queue' = queue /\ retriever_pc' = "queue"
        BY <1>13 DEF CountTimedOut
    <2>2. Cardinality(accounted') = Cardinality(accounted) + 1
        BY <1>13, Places, TimedOutTestcase, FS_AddElement
    <2>. QED
        BY <1>1, <1>13, <2>1, <2>2, TimedOutTestcase DEF EachOnce
<1>14. CASE RetrieverSeesEmpty \/ RetrieverLoops \/ AddTraceFails
    BY <1>2, <1>14 DEF RetrieverSeesEmpty, RetrieverLoops, AddTraceFails, Launched, main_vars
<1>15. ASSUME NEW p \in Pids,
            ChildFlush(p) \/ ChildExit(p) \/ ChildStop(p) \/ WatcherWait(p) \/
            MonitorScan(p) \/ MonitorRemoveStatus(p) \/ MonitorPassOver(p)
      PROVE  EachOnce'
    BY <1>2, <1>15 DEF ChildFlush, ChildExit, ChildStop, WatcherWait, MonitorScan,
                MonitorRemoveStatus, MonitorPassOver, main_vars, queue_vars, retriever_vars,
                Launched
<1>16. CASE WatcherCopy \/ WatcherInTime \/ TimeoutKill \/ WatcherUpdate \/
           MonitorSeesEmpty \/ MonitorFlags \/ MonitorCopy \/ MonitorRemoveTimer \/
           MonitorRemovePid \/ MonitorForget \/ MonitorDone
    BY <1>2, <1>16 DEF WatcherCopy, WatcherInTime, TimeoutKill, WatcherUpdate, MonitorSeesEmpty,
                MonitorFlags, MonitorCopy, MonitorRemoveTimer, MonitorRemovePid, MonitorForget,
                MonitorDone, main_vars, queue_vars, retriever_vars, Launched
<1>17. CASE UNCHANGED vars
    BY <1>2, <1>17 DEF vars, main_vars, queue_vars, retriever_vars, Launched
<1>. QED
    BY <1>1, <1>2, <1>3, <1>4, <1>5, <1>6, <1>7, <1>8, <1>9, <1>10, <1>11, <1>12, <1>13,
       <1>14, <1>15, <1>16, <1>17
       DEF Next, Main, Child, Watcher, Monitor, Retriever

\* No step gives two pids the same testcase, or a pid one that is already on
\* its way.
LEMMA OutstandingStep == IndInv /\ [Next]_vars => OutstandingOnce'
<1>. SUFFICES ASSUME IndInv, [Next]_vars
              PROVE  OutstandingOnce'
    OBVIOUS
<1>. USE DEF CallPcs
<1>1. TypeOK /\ MainPlaces /\ EachOnce /\ OutstandingOnce
    BY DEF IndInv
<1>2. ASSUME Outstanding' \subseteq Outstanding,
             \A p \in Outstanding' : testcase_pids'[p] = testcase_pids[p],
             InFlight' \union accounted' \subseteq InFlight \union accounted,
             Launched \subseteq Launched',
             pc' = "record" => pc = "record" /\ generated' = generated
      PROVE  OutstandingOnce'
    BY <1>1, <1>2 DEF OutstandingOnce
<1>3. ASSUME UNCHANGED <<main_vars, testcase_pids, queue_vars, retriever_vars, monitor_pc,
                         monitor_pid>>
      PROVE  OutstandingOnce'
    <2>1. UNCHANGED <<Outstanding, InFlight, accounted, Launched, pc, generated>>
        BY <1>3 DEF Outstanding, InFlight, Launched, main_vars, queue_vars, retriever_vars
    <2>. QED
        BY <1>2, <1>3, <2>1
<1>4. CASE \/ Evolve \/ ClearTable \/ ClearSent \/ ClearReceived \/ LaunchFails
           \/ AllReceived \/ SeeSent \/ SeeCount \/ Report
    <2>1. /\ UNCHANGED <<testcase_pids, queue_vars, retriever_vars, monitor_vars, launched>>
          /\ pc \notin CallPcs /\ pc' \notin CallPcs
        BY <1>4 DEF Evolve, ClearTable, ClearSent, ClearReceived, LaunchFails, AllReceived,
                    SeeSent, SeeCount, Report
    <2>2. UNCHANGED <<Outstanding, InFlight, accounted, Launched, testcase_pids>>
        BY <2>1 DEF Outstanding, InFlight, Launched, queue_vars, retriever_vars, monitor_vars
    <2>. QED
        BY <1>2, <2>1, <2>2
<1>5. CASE ClearRetriever
    <2>1. Outstanding = {} /\ UNCHANGED <<testcase_pids, monitor_vars>> /\ pc' = "gate"
        BY <1>5, Places DEF ClearRetriever, ClosedPcs
    <2>2. Outstanding' = {}
        BY <2>1 DEF Outstanding, monitor_vars
    <2>. QED
        BY <2>1, <2>2 DEF OutstandingOnce
<1>6. ASSUME NEW p \in Pids, Launch(p)
      PROVE  OutstandingOnce'
    <2>1. /\ UNCHANGED <<testcase_pids, queue_vars, retriever_vars, monitor_vars, launched>>
          /\ generated' = generated + 1 /\ pc = "gate" /\ pc' = "record"
        BY <1>6 DEF Launch
    <2>2. UNCHANGED <<Outstanding, InFlight, accounted, testcase_pids>>
        BY <2>1 DEF Outstanding, InFlight, queue_vars, retriever_vars, monitor_vars
    <2>3. Launched' = Launched \union {generated'}
        BY <2>1 DEF Launched
    <2>4. generated' \notin Launched
        BY <1>1, <2>1, Places DEF TypeOK
    <2>5. \A q \in Outstanding : testcase_pids[q] \in Launched
        BY <1>1 DEF OutstandingOnce
    <2>6. generated' \notin InFlight \union accounted
        BY <2>4, Places
    <2>. QED
        BY <1>1, <2>2, <2>3, <2>4, <2>5, <2>6 DEF OutstandingOnce
<1>7. CASE RecordTestcase
    <2>1. /\ UNCHANGED <<queue_vars, retriever_vars, monitor_vars, launched, generated>>
          /\ pc = "record" /\ pc' = "publish" /\ new_pid \in Pids
          /\ testcase_pids \in [Pids -> Nat]
          /\ testcase_pids' = [testcase_pids EXCEPT ![new_pid] = IF @ = 0 THEN generated ELSE @]
        BY <1>1, <1>7 DEF RecordTestcase, MainPlaces, TypeOK
    <2>2. UNCHANGED <<InFlight, accounted, Launched>>
        BY <2>1 DEF InFlight, Launched, queue_vars, retriever_vars
    <2>3. generated \in Launched \ (InFlight \union accounted)
        BY <1>1, <2>1 DEF Launched, OutstandingOnce
    <2>4. ASSUME NEW q \in Outstanding'
          PROVE  \/ q \in Outstanding /\ testcase_pids'[q] = testcase_pids[q]
                 \/ q = new_pid /\ testcase_pids'[q] = generated
        <3>1. q \in Pids /\ testcase_pids'[q] # 0 /\ ~(monitor_pc = "note" /\ q = monitor_pid)
            BY <2>1, <2>4 DEF Outstanding, monitor_vars
        <3>2. testcase_pids[q] # 0 => q \in Outstanding
            BY <3>1 DEF Outstanding
        <3>. QED
            BY <2>1, <3>1, <3>2
    <2>5. \A q \in Outstanding : /\ testcase_pids[q] \in Launched \ (InFlight \union accounted)
                                /\ testcase_pids[q] # generated
        BY <1>1, <2>1 DEF OutstandingOnce
    <2>6. \A q, r \in Outstanding : testcase_pids[q] = testcase_pids[r] => q = r
        BY <1>1 DEF OutstandingOnce
    <2>7. \A q, r \in Outstanding' : testcase_pids'[q] = testcase_pids'[r] => q = r
        BY <2>4, <2>5, <2>6
    <2>8. \A q \in Outstanding' : testcase_pids'[q] \in Launched \ (InFlight \union accounted)
        BY <2>3, <2>4, <2>5
    <2>. QED
        BY <2>1, <2>2, <2>7, <2>8 DEF OutstandingOnce
<1>8. CASE PublishStatus \/ PublishTimer \/ PublishPid
    <2>1. /\ UNCHANGED <<testcase_pids, queue_vars, retriever_vars, monitor_vars>>
          /\ pc' # "record" /\ Launched' = Launched
        BY <1>8 DEF PublishStatus, PublishTimer, PublishPid, Launched
    <2>2. UNCHANGED <<Outstanding, InFlight, accounted, testcase_pids>>
        BY <2>1 DEF Outstanding, InFlight, queue_vars, retriever_vars, monitor_vars
    <2>. QED
        BY <1>2, <2>1, <2>2
<1>9. ASSUME NEW p \in Pids, MonitorPush(p)
      PROVE  OutstandingOnce'
    <2>1. /\ UNCHANGED <<testcase_pids, accounted, Launched, pc, generated>>
          /\ InFlight' = InFlight \union {testcase_pids[p]}
          /\ p \in Outstanding
          /\ testcase_pids[p] \in Launched \ (InFlight \union accounted)
        BY <1>9, PushedTestcase DEF MonitorPush, main_vars
    <2>2. Outstanding' = Outstanding \ {p}
        BY <1>9, <2>1 DEF MonitorPush, Outstanding
    <2>. QED
        BY <1>1, <2>1, <2>2 DEF OutstandingOnce
<1>10. CASE MonitorForget
    <2>1. /\ testcase_pids \in [Pids -> Nat]
          /\ testcase_pids' = [testcase_pids EXCEPT ![monitor_pid] = 0]
          /\ monitor_pc = "note" /\ monitor_pc' = "report"
          /\ UNCHANGED <<main_vars, queue_vars, retriever_vars>>
        BY <1>1, <1>10 DEF MonitorForget, PidForgotten, TypeOK
    <2>2. ASSUME NEW q \in Outstanding'
          PROVE  q \in Outstanding /\ testcase_pids'[q] = testcase_pids[q]
        BY <2>1, <2>2 DEF Outstanding
    <2>3. UNCHANGED <<InFlight, accounted, Launched, pc, generated>>
        BY <2>1 DEF InFlight, Launched, main_vars, queue_vars, retriever_vars
    <2>. QED
        BY <1>2, <2>2, <2>3
<1>11. CASE MonitorSeesEmpty \/ MonitorFlags \/ MonitorCopy \/ MonitorRemoveTimer \/
            MonitorRemovePid \/ MonitorDone
    <2>1. /\ UNCHANGED <<main_vars, testcase_pids, queue_vars, retriever_vars>>
          /\ monitor_pc # "note" /\ monitor_pc' # "note"
        BY <1>11 DEF MonitorSeesEmpty, MonitorFlags, MonitorCopy, MonitorRemoveTimer,
                     MonitorRemovePid, MonitorDone
    <2>2. UNCHANGED <<Outstanding, InFlight, accounted, Launched, pc, generated>>
        BY <2>1 DEF Outstanding, InFlight, Launched, main_vars, queue_vars, retriever_vars
    <2>. QED
        BY <1>2, <2>1, <2>2
<1>12. ASSUME NEW p \in Pids, MonitorScan(p) \/ MonitorRemoveStatus(p) \/ MonitorPassOver(p)
       PROVE  OutstandingOnce'
    <2>1. /\ UNCHANGED <<main_vars, testcase_pids, queue_vars, retriever_vars>>
          /\ monitor_pc # "note" /\ monitor_pc' # "note"
        BY <1>12 DEF MonitorScan, MonitorRemoveStatus, MonitorPassOver
    <2>2. UNCHANGED <<Outstanding, InFlight, accounted, Launched, pc, generated>>
        BY <2>1 DEF Outstanding, InFlight, Launched, main_vars, queue_vars, retriever_vars
    <2>. QED
        BY <1>2, <2>1, <2>2
<1>13. CASE RetrieverPop \/ RetrieverSeesEmpty \/ GetTrace \/ AddTrace \/ AddTraceFails
            \/ CountTimedOut \/ RetrieverLoops
    <2>1. UNCHANGED <<main_vars, testcase_pids, monitor_vars>>
        BY <1>13 DEF RetrieverPop, RetrieverSeesEmpty, GetTrace, AddTrace, AddTraceFails,
                     CountTimedOut, RetrieverLoops
    <2>2. UNCHANGED <<Outstanding, Launched, pc, generated, testcase_pids>>
        BY <2>1 DEF Outstanding, Launched, main_vars, monitor_vars
    <2>3. InFlight' \union accounted' \subseteq InFlight \union accounted
        <3>1. CASE RetrieverPop
            BY <3>1, PoppedTestcase DEF RetrieverPop
        <3>2. CASE RetrieverSeesEmpty \/ RetrieverLoops \/ AddTraceFails
            BY <3>2 DEF RetrieverSeesEmpty, RetrieverLoops, AddTraceFails, InFlight, queue_vars
        <3>3. CASE GetTrace
            BY <3>3, LookedUpTestcase
        <3>4. CASE AddTrace
            BY <3>4, TracedTestcase DEF AddTrace, InFlight
        <3>5. CASE CountTimedOut
            <4>1. Head(timed_out_queue) \in InFlight
                BY <3>5, TimedOutTestcase DEF InFlight
            <4>. QED
                BY <3>5, <4>1, TimedOutTestcase
        <3>. QED
            BY <1>13, <3>1, <3>2, <3>3, <3>4, <3>5
    <2>. QED
        BY <1>2, <2>2, <2>3
<1>14. ASSUME NEW p \in Pids,
            ChildFlush(p) \/ ChildExit(p) \/ ChildStop(p) \/ WatcherWait(p)
      PROVE  OutstandingOnce'
    BY <1>3, <1>14 DEF ChildFlush, ChildExit, ChildStop, WatcherWait, main_vars, queue_vars,
                retriever_vars, monitor_vars
<1>15. CASE WatcherCopy \/ WatcherInTime \/ TimeoutKill \/ WatcherUpdate
    BY <1>3, <1>15 DEF WatcherCopy, WatcherInTime, TimeoutKill, WatcherUpdate, main_vars,
                queue_vars, retriever_vars, monitor_vars
<1>16. CASE UNCHANGED vars
    BY <1>3, <1>16 DEF vars, main_vars, queue_vars, retriever_vars, monitor_vars
<1>. QED
    BY <1>1, <1>2, <1>3, <1>4, <1>5, <1>6, <1>7, <1>8, <1>9, <1>10, <1>11, <1>12, <1>13,
       <1>14, <1>15, <1>16
       DEF Next, Main, Child, Watcher, Monitor, Retriever

(***************************************************************************)
(* The scores                                                              *)
(***************************************************************************)

\* A score is only added for a testcase of the generation under way, and never
\* between the reset of the scores and the start of the next generation.
LEMMA ScoresStep == IndInv /\ [Next]_vars => ScoresCurrent'
<1>. SUFFICES ASSUME IndInv, [Next]_vars
              PROVE  ScoresCurrent'
    OBVIOUS
<1>. USE DEF CallPcs
<1>1. TypeOK /\ ScoresCurrent
    BY DEF IndInv
<1>2. ASSUME UNCHANGED <<main_vars, scored>>
      PROVE  ScoresCurrent'
    BY <1>1, <1>2 DEF ScoresCurrent, Launched, main_vars
<1>3. CASE Evolve \/ ClearTable \/ ClearSent \/ ClearReceived \/ ClearRetriever
    BY <1>1, <1>3 DEF ScoresCurrent, Launched, Evolve, ClearTable, ClearSent, ClearReceived,
                      ClearRetriever
<1>4. ASSUME NEW p \in Pids, Launch(p)
      PROVE  ScoresCurrent'
    BY <1>1, <1>4 DEF ScoresCurrent, Launched, Launch
<1>5. CASE LaunchFails \/ RecordTestcase \/ PublishStatus \/ PublishTimer \/ PublishPid
           \/ AllReceived \/ SeeSent \/ SeeCount \/ Report
    BY <1>1, <1>5 DEF ScoresCurrent, Launched, LaunchFails, RecordTestcase,
                      PublishStatus, PublishTimer, PublishPid, AllReceived, SeeSent, SeeCount,
                      Report
<1>6. CASE AddTrace \/ AddTraceFails
    <2>1. testcase \in InFlight /\ testcase \in Launched
        BY <1>6, Places DEF AddTrace, AddTraceFails, InFlight
    <2>2. pc \notin {"clearTable", "clearMonitor", "clearReceived", "clearRetriever"}
        BY <2>1, Places DEF ClosedPcs
    <2>3. scored' \subseteq scored \union {testcase} /\ UNCHANGED main_vars
        BY <1>6 DEF AddTrace, AddTraceFails
    <2>. QED
        BY <1>1, <2>1, <2>2, <2>3 DEF ScoresCurrent, Launched, main_vars
<1>7. ASSUME NEW p \in Pids,
            ChildFlush(p) \/ ChildExit(p) \/ ChildStop(p) \/ WatcherWait(p) \/
            MonitorScan(p) \/ MonitorRemoveStatus(p) \/ MonitorPush(p) \/ MonitorPassOver(p)
      PROVE  ScoresCurrent'
    BY <1>2, <1>7 DEF ChildFlush, ChildExit, ChildStop, WatcherWait, MonitorScan,
                MonitorRemoveStatus, MonitorPush, MonitorPassOver, main_vars
<1>8. CASE WatcherCopy \/ WatcherInTime \/ TimeoutKill \/ WatcherUpdate \/
           MonitorSeesEmpty \/ MonitorFlags \/ MonitorCopy \/ MonitorRemoveTimer \/
           MonitorRemovePid \/ MonitorForget \/ MonitorDone \/ RetrieverPop \/
           RetrieverSeesEmpty \/ GetTrace \/ CountTimedOut \/ RetrieverLoops
    BY <1>2, <1>8 DEF WatcherCopy, WatcherInTime, TimeoutKill, WatcherUpdate, MonitorSeesEmpty,
                MonitorFlags, MonitorCopy, MonitorRemoveTimer, MonitorRemovePid, MonitorForget,
                MonitorDone, RetrieverPop, RetrieverSeesEmpty, GetTrace, CountTimedOut,
                RetrieverLoops, main_vars
<1>9. CASE UNCHANGED vars
    BY <1>2, <1>9 DEF vars, main_vars
<1>. QED
    BY <1>1, <1>2, <1>3, <1>4, <1>5, <1>6, <1>7, <1>8, <1>9
       DEF Next, Main, Child, Watcher, Monitor, Retriever

(***************************************************************************)
(* Theorems                                                                *)
(***************************************************************************)

\* The invariant holds when the campaign starts.
LEMMA InitIndInv == Init => IndInv
<1>. SUFFICES ASSUME Init
              PROVE  IndInv
    OBVIOUS
<1>1. TypeOK
    BY GenerationAssumption DEF Init, TypeOK, ClosedPcs, OpenPcs, CallPcs, ProcStates, Statuses
<1>2. Launched = {} /\ InFlight = {} /\ Outstanding = {}
    BY DEF Init, CallPcs, Launched, InFlight, Outstanding, ToSet
<1>3. Cardinality({}) = 0
    BY FS_EmptySet
<1>4. MainPlaces
    BY DEF Init, MainPlaces, OpenPcs, CallPcs, ClosedPcs
<1>5. EachOnce
    BY <1>2, <1>3 DEF Init, EachOnce, Distinct, ToSet
<1>. QED
    BY <1>1, <1>2, <1>4, <1>5 DEF Init, IndInv, ChildrenNumbered, OutstandingOnce, ScoresCurrent

\* Whatever the threads and the children do, for any number of pids,
\* processes and testcases and any faults, the inductive invariant holds.
THEOREM Invariance == Spec => []IndInv
<1>1. IndInv /\ [Next]_vars => IndInv'
    BY TypeStep, PlacesStep, ChildrenStep, EachOnceStep, OutstandingStep, ScoresStep DEF IndInv
<1>. QED
    BY InitIndInv, <1>1, PTL DEF Spec

\* Every variable keeps its type; in particular to_process never goes below
\* zero (handler.cpp:377-409).
THEOREM TypeCorrect == Spec => []TypeOK
<1>1. IndInv => TypeOK
    BY DEF IndInv
<1>. QED
    BY Invariance, <1>1, PTL

\* A testcase is on its way once, or counted once, in its own generation.
THEOREM CountedOnce == Spec => []EachOnce
<1>1. IndInv => EachOnce
    BY DEF IndInv
<1>. QED
    BY Invariance, <1>1, PTL

\* The main thread reads the knowledge when nobody can be writing it.
THEOREM ReadsAlone == Spec => []KnowledgeExclusive
<1>1. ASSUME IndInv
      PROVE  KnowledgeExclusive
    <2>1. MainPlaces /\ ScoresCurrent
        BY <1>1 DEF IndInv
    <2>. QED
        BY <1>1, <2>1, Places DEF KnowledgeExclusive, MainPlaces, ScoresCurrent, ClosedPcs
<1>2. IndInv => KnowledgeExclusive
    BY <1>1
<1>. QED
    BY Invariance, <1>2, PTL

\* Every step of a thread is a step of the ledger, or none.
LEMMA LedgerStep == IndInv /\ [Next]_vars => [Ledger!Next]_(Ledger!vars)
<1>. SUFFICES ASSUME IndInv, [Next]_vars
              PROVE  [Ledger!Next]_(Ledger!vars)
    OBVIOUS
<1>. USE DEF ClosedPcs, OpenPcs, CallPcs
<1>1. TypeOK /\ MainPlaces /\ EachOnce
    BY DEF IndInv
<1>2. ASSUME UNCHANGED <<pc \in OpenPcs, Launched, accounted, generated>>
      PROVE  UNCHANGED Ledger!vars
    BY <1>2 DEF Ledger!vars
<1>3. CASE Evolve \/ ClearTable \/ ClearSent \/ ClearReceived \/ Report
    <2>1. UNCHANGED <<pc \in OpenPcs, Launched, accounted, generated>>
        BY <1>3 DEF Evolve, ClearTable, ClearSent, ClearReceived, Report, Launched, retriever_vars
    <2>. QED
        BY <1>2, <2>1
<1>4. CASE ClearRetriever
    <2>1. Ledger!Open
        BY <1>4 DEF ClearRetriever, Launched, Ledger!Open
    <2>. QED
        BY <2>1 DEF Ledger!Next
<1>5. ASSUME NEW p \in Pids, Launch(p)
      PROVE  Ledger!Next
    <2>1. /\ pc = "gate" /\ pc' = "record" /\ generated' = generated + 1
          /\ Launched' = Launched \union {generated'} /\ accounted' = accounted
        BY <1>5 DEF Launch, Launched, retriever_vars
    <2>2. Ledger!Launch
        BY <2>1 DEF Ledger!Launch
    <2>. QED
        BY <2>2 DEF Ledger!Next
<1>6. CASE LaunchFails
    <2>1. Ledger!Skip
        BY <1>6 DEF LaunchFails, Launched, retriever_vars, Ledger!Skip
    <2>. QED
        BY <2>1 DEF Ledger!Next
<1>7. CASE \/ RecordTestcase \/ PublishStatus \/ PublishTimer \/ PublishPid
           \/ AllReceived \/ SeeSent
    <2>1. UNCHANGED <<pc \in OpenPcs, Launched, accounted, generated>>
        BY <1>7 DEF RecordTestcase, PublishStatus, PublishTimer, PublishPid, AllReceived, SeeSent,
                    Launched, retriever_vars
    <2>. QED
        BY <1>2, <2>1
<1>8. CASE SeeCount
    <2>1. MainPlaces'
        BY PlacesStep
    <2>2. /\ pc = "awaitCount" /\ pc' = "report" /\ Launched' = launched' /\ Launched = launched
          /\ UNCHANGED <<launched, accounted, generated>>
        BY <1>8 DEF SeeCount, Launched, retriever_vars
    <2>3. accounted = Launched
        BY <2>1, <2>2 DEF MainPlaces
    <2>4. Ledger!Close
        BY <2>2, <2>3 DEF Ledger!Close
    <2>. QED
        BY <2>4 DEF Ledger!Next
<1>9. CASE AddTrace \/ CountTimedOut
    <2>1. PICK t \in InFlight : t \in Launched \ accounted /\ accounted' = accounted \union {t}
        <3>1. CASE AddTrace
            BY <3>1, TracedTestcase DEF AddTrace, InFlight
        <3>2. CASE CountTimedOut
            BY <3>2, TimedOutTestcase DEF InFlight
        <3>. QED
            BY <1>9, <3>1, <3>2
    <2>2. pc \in OpenPcs
        BY <1>1, <2>1, Places DEF TypeOK
    <2>3. UNCHANGED main_vars
        BY <1>9 DEF AddTrace, CountTimedOut
    <2>4. UNCHANGED <<pc, Launched, generated>>
        BY <2>3 DEF main_vars, Launched
    <2>5. Ledger!Account
        BY <2>1, <2>2, <2>4 DEF Ledger!Account
    <2>. QED
        BY <2>5 DEF Ledger!Next
<1>10. ASSUME UNCHANGED <<main_vars, accounted>>
       PROVE  UNCHANGED Ledger!vars
    BY <1>2, <1>10 DEF main_vars, Launched
<1>11. ASSUME NEW p \in Pids,
            ChildFlush(p) \/ ChildExit(p) \/ ChildStop(p) \/ WatcherWait(p) \/
            MonitorScan(p) \/ MonitorRemoveStatus(p) \/ MonitorPush(p) \/ MonitorPassOver(p)
      PROVE  UNCHANGED Ledger!vars
    BY <1>10, <1>11 DEF ChildFlush, ChildExit, ChildStop, WatcherWait, MonitorScan,
                MonitorRemoveStatus, MonitorPush, MonitorPassOver, retriever_vars
<1>12. CASE WatcherCopy \/ WatcherInTime \/ TimeoutKill \/ WatcherUpdate \/
           MonitorSeesEmpty \/ MonitorFlags \/ MonitorCopy \/ MonitorRemoveTimer \/
           MonitorRemovePid \/ MonitorForget \/ MonitorDone \/ RetrieverPop \/
           RetrieverSeesEmpty \/ GetTrace \/ AddTraceFails \/ RetrieverLoops
    BY <1>10, <1>12 DEF WatcherCopy, WatcherInTime, TimeoutKill, WatcherUpdate, MonitorSeesEmpty,
                MonitorFlags, MonitorCopy, MonitorRemoveTimer, MonitorRemovePid, MonitorForget,
                MonitorDone, RetrieverPop, RetrieverSeesEmpty, GetTrace, AddTraceFails,
                RetrieverLoops, retriever_vars
<1>13. CASE UNCHANGED vars
    BY <1>10, <1>13 DEF vars, retriever_vars
<1>. QED
    BY <1>1, <1>2, <1>3, <1>4, <1>5, <1>6, <1>7, <1>8, <1>9, <1>10, <1>11, <1>12, <1>13
       DEF Next, Main, Child, Watcher, Monitor, Retriever

\* The four threads and the children, in every interleaving, implement the
\* ledger of testcases: the abstraction that TestcaseLedger promises holds for
\* every value of the constants.
THEOREM ImplementsLedger == Spec => LedgerSpec
<1>1. Init => Ledger!Init
    BY DEF Init, Ledger!Init, Launched, OpenPcs, CallPcs
<1>. QED
    BY Invariance, <1>1, LedgerStep, PTL DEF Spec, LedgerSpec, Ledger!Spec
=============================================================================
