------------------------ MODULE GenerationTraceProofs ------------------------
(***************************************************************************)
(* Proofs about Generation, where the kernel does not hand out a pid the   *)
(* fuzzer still refers to: the trace retriever reads no list a child still *)
(* appends to, for any number of processes and any faults.                 *)
(***************************************************************************)
EXTENDS GenerationProofs

(***************************************************************************)
(* The inductive invariant, over IndInv                                    *)
(***************************************************************************)

\* The monitor is taking a pid out of the three structures of the table.
Removing == monitor_pc \in {"removeTimer", "removePid"}

\* The table refers to pids whose testcase is recorded.  A pid has a status as long
\* as it is in all_pids, but for the one being inserted or removed; and a pid that
\* the monitor has found terminated is out of the table or still to be removed.
TableRecorded ==
    \A p \in Pids :
        /\ pid_statuses[p] # "none" =>
               p \in all_pids \/ (pc \in {"publishTimer", "publishPid"} /\ p = new_pid)
        /\ p \in all_pids => pid_statuses[p] # "none" \/ (Removing /\ p = monitor_pid)
        /\ p \in all_pids \/ terminated[p] # "none" => testcase_pids[p] # 0
        /\ terminated[p] # "RUNNING"
        /\ terminated[p] # "none" /\ p \in all_pids =>
               \/ monitor_pc = "scan"
               \/ (Removing \/ monitor_pc = "remove") /\ p \in monitor_pids
               \/ Removing /\ p = monitor_pid

\* What the monitor has still to remove has been found terminated.
ToRemove ==
    /\ Removing \/ monitor_pc = "remove" => \A p \in monitor_pids : terminated[p] # "none"
    /\ Removing => /\ monitor_pid \in Pids /\ terminated[monitor_pid] # "none"
                   /\ pid_statuses[monitor_pid] = "none"

NotedForgotten ==
    monitor_pc = "note" =>
        /\ monitor_pid \in Pids /\ testcase_pids[monitor_pid] # 0
        /\ monitor_pid \notin all_pids /\ terminated[monitor_pid] = "none"

\* The pid of a new child, before it is in the table: no thread refers to it.
NewPid ==
    /\ pc \in CallPcs =>
           /\ new_pid \notin all_pids /\ terminated[new_pid] = "none"
           /\ ~(monitor_pc = "note" /\ monitor_pid = new_pid)
           /\ new_pid \notin watcher_pids /\ new_pid # watcher_pid
    /\ pc \in {"publishTimer", "publishPid"} => pid_statuses[new_pid] = "RUNNING"
    /\ pc = "record" => testcase_pids[new_pid] = 0
    /\ pc \in CallPcs \ {"record"} => testcase_pids[new_pid] # 0
    /\ pc = "record" => \A p \in Pids : proc_testcase[p] = generated => p = new_pid

\* A testcase that is recorded for a pid is run by no other process.
OwnTestcase ==
    /\ \A p \in Pids : proc_testcase[p] <= generated /\ testcase_pids[p] <= generated
    /\ \A p, q \in Pids :
           testcase_pids[p] # 0 /\ proc_testcase[q] = testcase_pids[p] => q = p

\* What waitpid says of a process that has ended or was stopped stays true as long
\* as it is kept anywhere.
Over == {"TERMINATED", "UNKNOWN"}
StatusTrue ==
    \A p \in Pids :
        \/ pid_statuses[p] \in Over
        \/ terminated[p] \in Over
        \/ watcher_pid = p /\ watcher_status \in Over
        => proc[p] \notin Running

\* Nobody writes to the trace of a testcase that was pushed to the queue.
ToRead == ToSet(queue) \union (IF retriever_pc \in {"lookup", "integrate"} THEN {testcase} ELSE {})
ReadsEnded ==
    \A t \in ToRead, p \in Pids : proc_testcase[p] = t => proc[p] \notin Running

TraceInv ==
    /\ TableRecorded /\ ToRemove /\ NotedForgotten /\ NewPid
    /\ OwnTestcase /\ StatusTrue /\ ReadsEnded

\* IndInv is invariant (GenerationProofs); this is what a step preserves with it.
Both == IndInv /\ TraceInv

LEMMA PushedElements ==
    \A s \in Seq(Nat) : \A t \in Nat : ToSet(Append(s, t)) = ToSet(s) \union {t}
BY AppendElements

LEMMA InitTraceInv == Init => TraceInv
<1>. SUFFICES ASSUME Init PROVE TraceInv
    OBVIOUS
<1>1. TableRecorded /\ ToRemove /\ NotedForgotten /\ NewPid /\ OwnTestcase
    BY GenerationAssumption DEF Init, CallPcs, Removing, TableRecorded, ToRemove, NotedForgotten,
                                NewPid, OwnTestcase
<1>2. StatusTrue /\ ReadsEnded
    BY DEF Init, StatusTrue, ReadsEnded, Running
<1>. QED
    BY <1>1, <1>2 DEF TraceInv

\* The pid of a call under way, and the one the monitor has in its hands.
LEMMA PidsInHand ==
    ASSUME Both
    PROVE  /\ pc \in CallPcs => new_pid \in Pids /\ generated \in Nat \ {0}
           /\ monitor_pc = "note" \/ Removing => monitor_pid \in Pids
BY DEF Both, IndInv, MainPlaces, TraceInv, NotedForgotten, ToRemove

(***************************************************************************)
(* The table                                                               *)
(***************************************************************************)

LEMMA TableStep ==
    ASSUME Both, [Next]_vars
    PROVE  TableRecorded' /\ ToRemove' /\ NotedForgotten'
<1>. DEFINE Goal == TableRecorded' /\ ToRemove' /\ NotedForgotten'
<1>. TypeOK /\ TableRecorded /\ ToRemove /\ NotedForgotten /\ NewPid
    BY DEF Both, IndInv, TraceInv
<1>. USE DEF TypeOK, Removing
<1>1. CASE ClearTable
    <2>1. \A p \in Pids : terminated[p] = "none"
        <3>1. Outstanding = {}
            BY <1>1, Places DEF ClearTable, ClosedPcs, Both
        <3>. QED
            BY <3>1 DEF TableRecorded, NotedForgotten, Outstanding
    <2>2. /\ all_pids' = {} /\ pc = "clearTable"
          /\ \A p \in Pids : pid_statuses'[p] = IF p \in all_pids THEN "none" ELSE pid_statuses[p]
          /\ UNCHANGED <<testcase_pids, monitor_pc, monitor_pids, monitor_pid, terminated>>
        BY <1>1 DEF ClearTable, monitor_vars
    <2>. QED
        BY <2>1, <2>2 DEF TableRecorded, ToRemove, NotedForgotten
<1>2. CASE RecordTestcase
    <2>1. new_pid \in Pids /\ generated # 0
        BY <1>2, PidsInHand DEF RecordTestcase, CallPcs
    <2>2. \A p \in Pids : testcase_pids[p] # 0 => testcase_pids'[p] # 0
        BY <1>2, <2>1 DEF RecordTestcase
    <2>3. /\ pc = "record" /\ pc' = "publish" /\ new_pid' = new_pid
          /\ UNCHANGED <<table_vars, monitor_vars>>
        BY <1>2 DEF RecordTestcase
    <2>. QED
        BY <2>2, <2>3 DEF TableRecorded, ToRemove, NotedForgotten, monitor_vars, table_vars
<1>3. CASE PublishStatus
    <2>1. /\ new_pid \in Pids /\ new_pid \notin all_pids /\ pc = "publish"
          /\ pc' = "publishTimer" /\ new_pid' = new_pid /\ terminated[new_pid] = "none"
        BY <1>3, PidsInHand DEF PublishStatus, NewPid, CallPcs
    <2>2. /\ \A p \in Pids : p # new_pid => pid_statuses'[p] = pid_statuses[p]
          /\ UNCHANGED <<all_pids, testcase_pids, monitor_vars>>
        BY <1>3 DEF PublishStatus
    <2>. QED
        BY <2>1, <2>2 DEF TableRecorded, ToRemove, NotedForgotten, monitor_vars
<1>4. CASE PublishTimer
    <2>1. /\ pc = "publishTimer" /\ pc' = "publishPid"
          /\ UNCHANGED <<new_pid, pid_statuses, all_pids, testcase_pids, monitor_vars>>
        BY <1>4 DEF PublishTimer
    <2>. QED
        BY <2>1 DEF TableRecorded, ToRemove, NotedForgotten, monitor_vars
<1>5. CASE PublishPid
    <2>1. /\ new_pid \in Pids /\ testcase_pids[new_pid] # 0 /\ terminated[new_pid] = "none"
          /\ ~(monitor_pc = "note" /\ monitor_pid = new_pid)
          /\ pid_statuses[new_pid] = "RUNNING"
        BY <1>5, PidsInHand DEF PublishPid, NewPid, CallPcs
    <2>2. /\ all_pids' = all_pids \union {new_pid}
          /\ UNCHANGED <<pid_statuses, testcase_pids, monitor_vars>>
        BY <1>5 DEF PublishPid
    <2>3. TableRecorded'
        BY <2>1, <2>2 DEF TableRecorded, monitor_vars
    <2>4. ToRemove' /\ NotedForgotten'
        BY <2>1, <2>2 DEF ToRemove, NotedForgotten, monitor_vars
    <2>. QED
        BY <2>3, <2>4
<1>6. CASE WatcherUpdate
    <2>1. watcher_pid \in Pids /\ UNCHANGED <<main_vars, monitor_vars, all_pids, testcase_pids>>
        BY <1>6 DEF WatcherUpdate
    <2>2. \A p \in Pids : pid_statuses'[p] # "none" <=> pid_statuses[p] # "none"
        BY <1>6, <2>1 DEF WatcherUpdate, Statuses
    <2>. QED
        BY <2>1, <2>2 DEF TableRecorded, ToRemove, NotedForgotten, main_vars, monitor_vars
<1>7. ASSUME NEW p \in Pids, MonitorScan(p) PROVE Goal
    <2>1. /\ monitor_pc = "scan" /\ monitor_pc' \in {"scan", "remove", "report"}
          /\ UNCHANGED <<main_vars, testcase_pids, table_vars>>
        BY <1>7 DEF MonitorScan
    <2>2. \A q \in Pids : \/ terminated'[q] = terminated[q]
                          \/ q = p /\ CountsAsTerminated(p) /\ terminated'[q] = pid_statuses[q]
        BY <1>7 DEF MonitorScan
    <2>3. monitor_pc' = "scan" \/ monitor_pids' = {q \in Pids : terminated'[q] # "none"}
        BY <1>7 DEF MonitorScan
    <2>4. monitor_pc' = "report" => monitor_pids' = {}
        BY <1>7 DEF MonitorScan
    <2>5. CountsAsTerminated(p) => pid_statuses[p] \notin {"none", "RUNNING"} /\ p \in all_pids
        BY DEF CountsAsTerminated, TableRecorded, NewPid
    <2>6. \A q \in Pids : terminated'[q] # "none" => testcase_pids[q] # 0 /\ terminated'[q] # "RUNNING"
        BY <2>2, <2>5 DEF TableRecorded
    <2>7. UNCHANGED <<pc, new_pid, testcase_pids, all_pids, pid_statuses>> /\ ~Removing /\ ~Removing'
        BY <2>1 DEF main_vars, table_vars
    <2>8. ASSUME NEW q \in Pids, terminated'[q] # "none"
          PROVE  monitor_pc' = "scan" \/ (monitor_pc' = "remove" /\ q \in monitor_pids')
        BY <2>1, <2>3, <2>4, <2>8
    <2>9. TableRecorded'
        BY <2>6, <2>7, <2>8 DEF TableRecorded
    <2>. QED
        BY <2>1, <2>3, <2>9 DEF ToRemove, NotedForgotten
<1>8. ASSUME NEW p \in Pids, MonitorRemoveStatus(p) PROVE Goal
    <2>1. /\ monitor_pc = "remove" /\ p \in monitor_pids /\ monitor_pids' = monitor_pids \ {p}
          /\ pid_statuses'[p] = "none"
          /\ \A q \in Pids : q # p => pid_statuses'[q] = pid_statuses[q]
          /\ UNCHANGED <<main_vars, testcase_pids, all_pids, terminated>>
        BY <1>8 DEF MonitorRemoveStatus
    <2>2. CASE pid_statuses[p] # "none"
        <3>1. monitor_pid' = p /\ monitor_pc' = "removeTimer"
            BY <1>8, <2>2 DEF MonitorRemoveStatus
        <3>2. TableRecorded'
            BY <2>1, <3>1 DEF TableRecorded, main_vars
        <3>3. ToRemove' /\ NotedForgotten'
            BY <2>1, <3>1 DEF ToRemove, NotedForgotten
        <3>. QED
            BY <3>2, <3>3
    <2>3. CASE pid_statuses[p] = "none"
        <3>1. /\ monitor_pid' = monitor_pid /\ monitor_pc' \in {"remove", "report"}
              /\ monitor_pc' = "report" => monitor_pids' = {}
            BY <1>8, <2>3 DEF MonitorRemoveStatus
        <3>2. p \notin all_pids
            BY <2>1, <2>3 DEF TableRecorded
        <3>. QED
            BY <2>1, <2>3, <3>1, <3>2 DEF TableRecorded, ToRemove, NotedForgotten, main_vars
    <2>. QED
        BY <2>2, <2>3
<1>9. CASE MonitorRemoveTimer
    <2>1. /\ monitor_pc = "removeTimer" /\ monitor_pc' = "removePid"
          /\ UNCHANGED <<main_vars, testcase_pids, all_pids, pid_statuses, monitor_pids, monitor_pid,
                         terminated>>
        BY <1>9 DEF MonitorRemoveTimer
    <2>. QED
        BY <2>1 DEF TableRecorded, ToRemove, NotedForgotten, main_vars
<1>10. CASE MonitorRemovePid
    <2>1. /\ monitor_pc = "removePid" /\ monitor_pc' \in {"remove", "report"}
          /\ monitor_pc' = "report" => monitor_pids = {}
          /\ all_pids' = all_pids \ {monitor_pid}
          /\ UNCHANGED <<main_vars, testcase_pids, pid_statuses, monitor_pids, terminated>>
        BY <1>10 DEF MonitorRemovePid
    <2>. QED
        BY <2>1 DEF TableRecorded, ToRemove, NotedForgotten, main_vars
<1>11. ASSUME NEW p \in Pids, MonitorPush(p) PROVE Goal
    <2>1. /\ terminated[p] # "none" /\ terminated'[p] = "none" /\ testcase_pids[p] # 0
          /\ \A q \in Pids : q # p => terminated'[q] = terminated[q]
          /\ monitor_pc = "report" /\ monitor_pc' = "note" /\ monitor_pid' = p
          /\ UNCHANGED <<main_vars, testcase_pids, table_vars>>
        BY <1>11 DEF MonitorPush
    <2>2. TableRecorded'
        BY <2>1 DEF TableRecorded, main_vars, table_vars
    <2>3. ToRemove' /\ NotedForgotten'
        BY <2>1 DEF TableRecorded, ToRemove, NotedForgotten, main_vars, table_vars
    <2>. QED
        BY <2>2, <2>3
<1>12. ASSUME NEW p \in Pids, MonitorPassOver(p) PROVE Goal
    <2>1. /\ terminated'[p] = "none" /\ monitor_pc = "report" /\ monitor_pc' = "report"
          /\ \A q \in Pids : q # p => terminated'[q] = terminated[q]
          /\ UNCHANGED <<main_vars, testcase_pids, table_vars>>
        BY <1>12 DEF MonitorPassOver
    <2>2. TableRecorded'
        BY <2>1 DEF TableRecorded, main_vars, table_vars
    <2>3. ToRemove' /\ NotedForgotten'
        BY <2>1 DEF TableRecorded, ToRemove, NotedForgotten, main_vars, table_vars
    <2>. QED
        BY <2>2, <2>3
<1>13. CASE MonitorForget
    <2>1. /\ monitor_pid \in Pids /\ monitor_pid \notin all_pids
          /\ terminated[monitor_pid] = "none" /\ monitor_pc = "note" /\ monitor_pc' = "report"
        BY <1>13 DEF MonitorForget, NotedForgotten
    <2>2. /\ \A q \in Pids : q # monitor_pid => testcase_pids'[q] = testcase_pids[q]
          /\ UNCHANGED <<main_vars, table_vars, terminated>>
        BY <1>13, <2>1 DEF MonitorForget, PidForgotten
    <2>. QED
        BY <2>1, <2>2 DEF TableRecorded, ToRemove, NotedForgotten, main_vars, table_vars
<1>14. CASE MonitorCopy
    <2>1. /\ monitor_pc = "poll" /\ monitor_pc' = "scan"
          /\ UNCHANGED <<main_vars, testcase_pids, table_vars, monitor_pid, terminated>>
        BY <1>14 DEF MonitorCopy
    <2>2. TableRecorded'
        BY <2>1 DEF TableRecorded, main_vars, table_vars
    <2>3. ToRemove' /\ NotedForgotten'
        BY <2>1 DEF TableRecorded, ToRemove, NotedForgotten, main_vars, table_vars
    <2>. QED
        BY <2>2, <2>3
<1>15. CASE /\ UNCHANGED <<testcase_pids, all_pids, pid_statuses, terminated, monitor_pids, monitor_pid>>
            /\ \/ UNCHANGED <<pc, new_pid>>
               \/ pc \notin {"publishTimer", "publishPid"}
            /\ \/ UNCHANGED monitor_pc
               \/ /\ monitor_pc \in {"poll", "flags", "report"}
                  /\ monitor_pc' \in {"poll", "flags"}
    <2>1. TableRecorded'
        BY <1>15 DEF TableRecorded
    <2>2. ToRemove' /\ NotedForgotten'
        BY <1>15 DEF ToRemove, NotedForgotten
    <2>. QED
        BY <2>1, <2>2
<1>16. \/ ClearTable \/ RecordTestcase \/ PublishStatus \/ PublishTimer \/ PublishPid
       \/ WatcherUpdate
       \/ \E p \in Pids : \/ MonitorScan(p) \/ MonitorRemoveStatus(p)
                          \/ MonitorPush(p) \/ MonitorPassOver(p)
       \/ MonitorRemoveTimer \/ MonitorRemovePid \/ MonitorForget \/ MonitorCopy
       \/ /\ UNCHANGED <<testcase_pids, all_pids, pid_statuses, terminated, monitor_pids,
                         monitor_pid>>
          /\ \/ UNCHANGED <<pc, new_pid>>
             \/ pc \notin {"publishTimer", "publishPid"}
          /\ \/ UNCHANGED monitor_pc
             \/ /\ monitor_pc \in {"poll", "flags", "report"}
                /\ monitor_pc' \in {"poll", "flags"}
    <2>. USE DEF main_vars, table_vars, monitor_vars
    <2>1. CASE Main
        BY <2>1 DEF Main, Evolve, ClearSent, ClearReceived, ClearRetriever, Launch, LaunchFails,
                    AllReceived, SeeSent, SeeCount, Report
    <2>2. ASSUME NEW p \in Pids, Child(p)
          PROVE  UNCHANGED <<main_vars, testcase_pids, table_vars, monitor_vars>>
        BY <2>2 DEF Child, ChildFlush, ChildExit, ChildStop
    <2>3. CASE Watcher \/ Retriever
        BY <2>3 DEF Watcher, WatcherCopy, WatcherWait, WatcherInTime, TimeoutKill, Retriever,
                    RetrieverPop, RetrieverSeesEmpty, GetTrace, AddTrace, AddTraceFails,
                    CountTimedOut, RetrieverLoops
    <2>4. CASE Monitor
        BY <2>4 DEF Monitor, MonitorSeesEmpty, MonitorFlags, MonitorDone
    <2>5. CASE UNCHANGED vars
        BY <2>5 DEF vars
    <2>. QED
        BY <2>1, <2>2, <2>3, <2>4, <2>5 DEF Next
<1>. QED
    BY <1>1, <1>2, <1>3, <1>4, <1>5, <1>6, <1>7, <1>8, <1>9, <1>10, <1>11, <1>12, <1>13, <1>14,
       <1>15, <1>16

(***************************************************************************)
(* The testcases and the pids that run them                                *)
(***************************************************************************)

\* What the kernel hands out is not referred to by the fuzzer.
LEMMA FreshPid ==
    ASSUME ~EarlyReuse, Both, NEW p \in Pids, Launch(p)
    PROVE  /\ testcase_pids[p] = 0 /\ p \notin all_pids /\ p # watcher_pid /\ p \notin watcher_pids
           /\ pid_statuses[p] = "none" /\ terminated[p] = "none"
           /\ ~(monitor_pc = "note" /\ monitor_pid = p)
           /\ proc'[p] = "alive" /\ proc_testcase'[p] = generated + 1
           /\ \A q \in Pids : q # p => proc'[q] = proc[q] /\ proc_testcase'[q] = proc_testcase[q]
<1>1. /\ testcase_pids[p] = 0 /\ p \notin all_pids /\ p # watcher_pid /\ p \notin watcher_pids
      /\ pc = "gate"
    BY DEF Launch, FreePids
<1>2. /\ pid_statuses[p] = "none" /\ terminated[p] = "none"
      /\ ~(monitor_pc = "note" /\ monitor_pid = p)
    BY <1>1 DEF Both, TraceInv, TableRecorded, NotedForgotten
<1>3. /\ proc'[p] = "alive" /\ proc_testcase'[p] = generated + 1
      /\ \A q \in Pids : q # p => proc'[q] = proc[q] /\ proc_testcase'[q] = proc_testcase[q]
    BY DEF Launch, Both, IndInv, TypeOK
<1>. QED
    BY <1>1, <1>2, <1>3

\* What waitpid makes of a process.
LEMMA Waited ==
    ASSUME TypeOK, NEW p \in Pids, WatcherWait(p)
    PROVE  /\ proc'[p] \in Running => proc[p] \in Running /\ watcher_status' = "RUNNING"
           /\ watcher_status' \in Over => proc'[p] \notin Running
           /\ proc_testcase'[p] \in {0, proc_testcase[p]}
           /\ \A q \in Pids : q # p => proc'[q] = proc[q] /\ proc_testcase'[q] = proc_testcase[q]
BY DEF WatcherWait, TypeOK, AfterWait, StatusOf, Running, Over

LEMMA TestcaseStep ==
    ASSUME ~EarlyReuse, Both, [Next]_vars
    PROVE  OwnTestcase' /\ NewPid'
<1>. TypeOK /\ TableRecorded /\ ToRemove /\ NotedForgotten /\ NewPid /\ OwnTestcase
    BY DEF Both, IndInv, TraceInv
<1>. USE DEF TypeOK, CallPcs
<1>1. ASSUME NEW p \in Pids, Launch(p) PROVE OwnTestcase' /\ NewPid'
    <2>1. /\ generated' = generated + 1 /\ pc' = "record" /\ new_pid' = p
          /\ UNCHANGED <<testcase_pids, all_pids, terminated, monitor_pc, monitor_pid, watcher_pids,
                         watcher_pid>>
        BY <1>1 DEF Launch, table_vars, monitor_vars, watcher_vars
    <2>2. \A q \in Pids : proc_testcase[q] <= generated /\ testcase_pids[q] <= generated
        BY DEF OwnTestcase
    <2>3. OwnTestcase'
        <3>1. \A q \in Pids : proc_testcase'[q] = (IF q = p THEN generated + 1 ELSE proc_testcase[q])
            BY <1>1, FreshPid
        <3>2. \A q \in Pids : proc_testcase'[q] <= generated' /\ testcase_pids'[q] <= generated'
            <4>. SUFFICES ASSUME NEW q \in Pids
                          PROVE  proc_testcase'[q] <= generated + 1 /\ testcase_pids[q] <= generated + 1
                BY <2>1
            <4>1. /\ generated \in Nat /\ proc_testcase[q] \in Nat /\ testcase_pids[q] \in Nat
                  /\ proc_testcase[q] <= generated /\ testcase_pids[q] <= generated
                BY <2>2
            <4>2. generated <= generated + 1 /\ proc_testcase'[q] \in {generated + 1, proc_testcase[q]}
                BY <3>1, <4>1
            <4>. QED
                BY <4>1, <4>2
        <3>3. \A q \in Pids : testcase_pids[q] # generated + 1
            BY <2>2
        <3>4. \A q, u \in Pids :
                  testcase_pids[q] # 0 /\ proc_testcase'[u] = testcase_pids[q] => u = q
            BY <3>1, <3>3 DEF OwnTestcase
        <3>. QED
            BY <2>1, <3>2, <3>4 DEF OwnTestcase
    <2>4. NewPid'
        BY <1>1, <2>1, <2>2, FreshPid DEF NewPid
    <2>. QED
        BY <2>3, <2>4
<1>2. CASE LaunchFails
    BY <1>2 DEF LaunchFails, OwnTestcase, NewPid, os_vars
<1>3. CASE RecordTestcase
    <2>1. new_pid \in Pids /\ generated # 0 /\ testcase_pids[new_pid] = 0
        BY <1>3, PidsInHand DEF RecordTestcase, NewPid
    <2>2. /\ testcase_pids'[new_pid] = generated
          /\ \A p \in Pids : p # new_pid => testcase_pids'[p] = testcase_pids[p]
        BY <1>3, <2>1 DEF RecordTestcase
    <2>3. OwnTestcase'
        BY <1>3, <2>1, <2>2 DEF RecordTestcase, OwnTestcase, NewPid, os_vars
    <2>4. NewPid'
        BY <1>3, <2>1, <2>2 DEF RecordTestcase, NewPid, table_vars, monitor_vars, watcher_vars
    <2>. QED
        BY <2>3, <2>4
<1>4. ASSUME NEW p \in Pids, WatcherWait(p) PROVE OwnTestcase' /\ NewPid'
    <2>1. /\ UNCHANGED <<testcase_pids, pc, new_pid, generated, all_pids, pid_statuses, terminated,
                         monitor_pc, monitor_pid>>
          /\ watcher_pid' = p /\ p \in watcher_pids /\ watcher_pids' = watcher_pids \ {p}
        BY <1>4 DEF WatcherWait, main_vars, table_vars, monitor_vars
    <2>2. \A q \in Pids : proc_testcase'[q] \in {0, proc_testcase[q]}
        BY <1>4, Waited
    <2>3. OwnTestcase'
        <3>1. \A q \in Pids : proc_testcase'[q] <= generated /\ testcase_pids[q] <= generated
            <4>1. 0 <= generated
                OBVIOUS
            <4>. QED
                BY <2>2, <4>1 DEF OwnTestcase
        <3>2. \A q, u \in Pids :
                  testcase_pids[q] # 0 /\ proc_testcase'[u] = testcase_pids[q] => u = q
            BY <2>2 DEF OwnTestcase
        <3>. QED
            BY <2>1, <3>1, <3>2 DEF OwnTestcase
    <2>4. pc = "record" => generated # 0
        BY PidsInHand
    <2>5. NewPid'
        BY <2>1, <2>2, <2>4 DEF NewPid
    <2>. QED
        BY <2>3, <2>5
<1>5. CASE MonitorForget
    <2>1. monitor_pid \in Pids /\ ~(pc \in CallPcs /\ new_pid = monitor_pid)
        BY <1>5 DEF MonitorForget, NotedForgotten, NewPid
    <2>2. /\ testcase_pids'[monitor_pid] = 0 /\ monitor_pc' # "note"
          /\ \A q \in Pids : q # monitor_pid => testcase_pids'[q] = testcase_pids[q]
          /\ UNCHANGED <<pc, new_pid, generated, all_pids, pid_statuses, terminated, proc_testcase,
                         watcher_pids, watcher_pid>>
        BY <1>5, <2>1 DEF MonitorForget, PidForgotten, main_vars, os_vars, table_vars, watcher_vars
    <2>3. OwnTestcase'
        <3>1. \A q \in Pids : testcase_pids'[q] \in {0, testcase_pids[q]}
            BY <2>1, <2>2
        <3>2. \A q \in Pids : proc_testcase[q] <= generated /\ testcase_pids'[q] <= generated
            <4>1. 0 <= generated
                OBVIOUS
            <4>. QED
                BY <3>1, <4>1 DEF OwnTestcase
        <3>3. \A q, u \in Pids :
                  testcase_pids'[q] # 0 /\ proc_testcase[u] = testcase_pids'[q] => u = q
            BY <3>1 DEF OwnTestcase
        <3>. QED
            BY <2>2, <3>2, <3>3 DEF OwnTestcase
    <2>4. pc \in CallPcs => testcase_pids'[new_pid] = testcase_pids[new_pid]
        BY <2>1, <2>2, PidsInHand
    <2>5. NewPid'
        BY <2>2, <2>4 DEF NewPid
    <2>. QED
        BY <2>3, <2>5
<1>6. ASSUME NEW p \in Pids,
             \/ MonitorScan(p) \/ MonitorRemoveStatus(p) \/ MonitorPush(p) \/ MonitorPassOver(p)
      PROVE  OwnTestcase' /\ NewPid'
    <2>1. /\ UNCHANGED <<pc, new_pid, generated, proc_testcase, testcase_pids, all_pids,
                         watcher_pids, watcher_pid>>
        BY <1>6 DEF MonitorScan, MonitorRemoveStatus, MonitorPush, MonitorPassOver, main_vars,
                    os_vars, table_vars, watcher_vars
    <2>2. OwnTestcase'
        BY <2>1 DEF OwnTestcase
    <2>. SUFFICES ASSUME pc \in CallPcs
                  PROVE  /\ terminated'[new_pid] = "none"
                         /\ ~(monitor_pc' = "note" /\ monitor_pid' = new_pid)
                         /\ pid_statuses'[new_pid] = pid_statuses[new_pid]
        BY <2>1, <2>2 DEF NewPid
    <2>3. /\ new_pid \in Pids /\ new_pid \notin all_pids /\ terminated[new_pid] = "none"
          /\ pid_statuses[new_pid] \in {"none", "RUNNING"}
        BY PidsInHand DEF NewPid, TableRecorded
    <2>4. terminated'[new_pid] = "none"
        BY <1>6, <2>3 DEF MonitorScan, MonitorRemoveStatus, MonitorPush, MonitorPassOver,
                          CountsAsTerminated
    <2>5. ~(monitor_pc' = "note" /\ monitor_pid' = new_pid)
        BY <1>6, <2>3 DEF MonitorScan, MonitorRemoveStatus, MonitorPush, MonitorPassOver
    <2>6. pid_statuses'[new_pid] = pid_statuses[new_pid]
        BY <1>6, <2>3 DEF MonitorScan, MonitorRemoveStatus, MonitorPush, MonitorPassOver, ToRemove,
                          table_vars
    <2>. QED
        BY <2>4, <2>5, <2>6
<1>7. CASE PublishStatus \/ PublishTimer
    <2>1. new_pid \in Pids /\ pid_statuses[new_pid] \in {"none", "RUNNING"}
        BY <1>7, PidsInHand DEF PublishStatus, PublishTimer, NewPid, TableRecorded
    <2>2. /\ pc \in {"publish", "publishTimer"} /\ pc' \in {"publishTimer", "publishPid"}
          /\ pid_statuses'[new_pid] = "RUNNING"
          /\ UNCHANGED <<new_pid, generated, proc_testcase, testcase_pids, all_pids, terminated,
                         watcher_pids, watcher_pid, monitor_pc, monitor_pid>>
        BY <1>7, <2>1 DEF PublishStatus, PublishTimer, NewPid, os_vars, watcher_vars, monitor_vars
    <2>. QED
        BY <2>2 DEF OwnTestcase, NewPid
<1>8. CASE WatcherUpdate \/ WatcherCopy \/ WatcherInTime
    <2>1. /\ UNCHANGED <<main_vars, os_vars, testcase_pids, all_pids, monitor_vars>>
          /\ watcher_pids' \subseteq watcher_pids \union all_pids
          /\ watcher_pid' \in {watcher_pid, NoPid}
        BY <1>8 DEF WatcherUpdate, WatcherCopy, WatcherInTime, table_vars
    <2>2. pc \in CallPcs => new_pid \in Pids /\ new_pid # NoPid /\ new_pid # watcher_pid
        BY PidsInHand, GenerationAssumption DEF NewPid
    <2>3. pc \in CallPcs => pid_statuses'[new_pid] = pid_statuses[new_pid]
        BY <1>8, <2>2 DEF WatcherUpdate, WatcherCopy, WatcherInTime, table_vars
    <2>4. OwnTestcase'
        BY <2>1 DEF OwnTestcase, main_vars, os_vars
    <2>5. NewPid'
        BY <2>1, <2>2, <2>3 DEF NewPid, main_vars, os_vars, monitor_vars
    <2>. QED
        BY <2>4, <2>5
<1>9. CASE /\ UNCHANGED <<generated, proc_testcase, testcase_pids, terminated>>
           /\ \/ pc' \notin CallPcs
              \/ /\ UNCHANGED <<pc, new_pid, pid_statuses, watcher_pids, watcher_pid>>
                 /\ all_pids' \subseteq all_pids
           /\ monitor_pc' # "note" \/ UNCHANGED <<monitor_pc, monitor_pid>>
    <2>1. OwnTestcase'
        BY <1>9 DEF OwnTestcase
    <2>2. NewPid'
        BY <1>9 DEF NewPid
    <2>. QED
        BY <2>1, <2>2
<1>10. \/ \E p \in Pids : Launch(p) \/ WatcherWait(p)
       \/ LaunchFails \/ RecordTestcase \/ PublishStatus \/ PublishTimer \/ MonitorForget
       \/ \E p \in Pids : \/ MonitorScan(p) \/ MonitorRemoveStatus(p)
                          \/ MonitorPush(p) \/ MonitorPassOver(p)
       \/ WatcherUpdate \/ WatcherCopy \/ WatcherInTime
       \/ /\ UNCHANGED <<generated, proc_testcase, testcase_pids, terminated>>
          /\ \/ pc' \notin CallPcs
             \/ /\ UNCHANGED <<pc, new_pid, pid_statuses, watcher_pids, watcher_pid>>
                /\ all_pids' \subseteq all_pids
          /\ monitor_pc' # "note" \/ UNCHANGED <<monitor_pc, monitor_pid>>
    <2>. USE DEF main_vars, os_vars, table_vars, monitor_vars, watcher_vars
    <2>1. CASE Main
        BY <2>1 DEF Main, Evolve, ClearTable, ClearSent, ClearReceived, ClearRetriever, PublishPid,
                    AllReceived, SeeSent, SeeCount, Report
    <2>2. ASSUME NEW p \in Pids, Child(p)
          PROVE  UNCHANGED <<main_vars, proc_testcase, testcase_pids, table_vars, monitor_vars,
                             watcher_vars>>
        BY <2>2 DEF Child, ChildFlush, ChildExit, ChildStop
    <2>3. CASE Watcher \/ Retriever
        BY <2>3 DEF Watcher, TimeoutKill, Retriever, RetrieverPop, RetrieverSeesEmpty, GetTrace,
                    AddTrace, AddTraceFails, CountTimedOut, RetrieverLoops
    <2>4. CASE Monitor
        BY <2>4 DEF Monitor, MonitorSeesEmpty, MonitorFlags, MonitorCopy, MonitorRemoveTimer,
                    MonitorRemovePid, MonitorDone
    <2>5. CASE UNCHANGED vars
        BY <2>5 DEF vars
    <2>. QED
        BY <2>1, <2>2, <2>3, <2>4, <2>5 DEF Next
<1>. QED
    BY <1>1, <1>2, <1>3, <1>4, <1>5, <1>6, <1>7, <1>8, <1>9, <1>10

(***************************************************************************)
(* Statuses and traces                                                     *)
(***************************************************************************)

LEMMA StatusStep ==
    ASSUME ~EarlyReuse, Both, [Next]_vars
    PROVE  StatusTrue'
<1>. TypeOK /\ TableRecorded /\ StatusTrue
    BY DEF Both, IndInv, TraceInv
<1>. USE DEF TypeOK
<1>1. ASSUME NEW p \in Pids, Launch(p) PROVE StatusTrue'
    <2>1. UNCHANGED <<pid_statuses, terminated, watcher_pid, watcher_status>>
        BY <1>1 DEF Launch, table_vars, monitor_vars, watcher_vars
    <2>. QED
        BY <1>1, <2>1, FreshPid DEF StatusTrue, Over
<1>2. ASSUME NEW p \in Pids, Child(p) PROVE StatusTrue'
    <2>1. UNCHANGED <<pid_statuses, terminated, watcher_pid, watcher_status>>
        BY <1>2 DEF Child, ChildFlush, ChildExit, ChildStop, table_vars, monitor_vars, watcher_vars
    <2>2. \A q \in Pids : proc'[q] \in Running => proc[q] \in Running
        BY <1>2 DEF Child, ChildFlush, ChildExit, ChildStop, Running
    <2>. QED
        BY <2>1, <2>2 DEF StatusTrue
<1>3. CASE ClearTable
    <2>1. \A p \in Pids : pid_statuses'[p] \in {"none", pid_statuses[p]}
        BY <1>3 DEF ClearTable
    <2>. QED
        BY <1>3, <2>1 DEF ClearTable, StatusTrue, Over, os_vars, monitor_vars, watcher_vars
<1>4. CASE PublishStatus
    <2>1. new_pid \in Pids
        BY <1>4, PidsInHand DEF PublishStatus, CallPcs
    <2>2. \A p \in Pids : pid_statuses'[p] \in {"RUNNING", pid_statuses[p]}
        BY <1>4, <2>1 DEF PublishStatus
    <2>. QED
        BY <1>4, <2>2 DEF PublishStatus, StatusTrue, Over, os_vars, monitor_vars, watcher_vars
<1>5. ASSUME NEW p \in Pids, WatcherWait(p) PROVE StatusTrue'
    <2>1. UNCHANGED <<pid_statuses, terminated>> /\ watcher_pid' = p
        BY <1>5 DEF WatcherWait, table_vars, monitor_vars
    <2>. QED
        BY <1>5, <2>1, Waited DEF StatusTrue
<1>6. CASE WatcherInTime \/ TimeoutKill
    <2>1. watcher_pid' = NoPid \/ watcher_status' \notin Over
        BY <1>6 DEF WatcherInTime, TimeoutKill, Over
    <2>2. UNCHANGED <<pid_statuses, terminated, proc>>
        BY <1>6 DEF WatcherInTime, TimeoutKill, table_vars, monitor_vars, os_vars
    <2>. QED
        BY <2>1, <2>2, GenerationAssumption DEF StatusTrue
<1>7. CASE WatcherUpdate
    <2>1. watcher_pid \in Pids /\ watcher_status' \notin Over /\ UNCHANGED <<terminated, proc>>
        BY <1>7 DEF WatcherUpdate, Over, monitor_vars, os_vars
    <2>2. \A p \in Pids : \/ pid_statuses'[p] = pid_statuses[p]
                          \/ p = watcher_pid /\ pid_statuses'[p] = watcher_status
        BY <1>7, <2>1 DEF WatcherUpdate
    <2>. QED
        BY <2>1, <2>2 DEF StatusTrue
<1>8. ASSUME NEW p \in Pids,
             \/ MonitorScan(p) \/ MonitorRemoveStatus(p) \/ MonitorPush(p) \/ MonitorPassOver(p)
      PROVE  StatusTrue'
    <2>1. UNCHANGED <<proc, watcher_pid, watcher_status>>
        BY <1>8 DEF MonitorScan, MonitorRemoveStatus, MonitorPush, MonitorPassOver, os_vars,
                    watcher_vars
    <2>2. \A q \in Pids : pid_statuses'[q] \in {"none", pid_statuses[q]}
        BY <1>8 DEF MonitorScan, MonitorRemoveStatus, MonitorPush, MonitorPassOver, table_vars
    <2>3. \A q \in Pids : terminated'[q] \in {"none", terminated[q], pid_statuses[q]}
        BY <1>8 DEF MonitorScan, MonitorRemoveStatus, MonitorPush, MonitorPassOver
    <2>. QED
        BY <2>1, <2>2, <2>3 DEF StatusTrue, Over
<1>9. CASE UNCHANGED <<pid_statuses, terminated, watcher_pid, watcher_status, proc>>
    BY <1>9 DEF StatusTrue
<1>10. \/ \E p \in Pids : Launch(p) \/ Child(p) \/ WatcherWait(p)
       \/ ClearTable \/ PublishStatus \/ WatcherInTime \/ TimeoutKill \/ WatcherUpdate
       \/ \E p \in Pids : \/ MonitorScan(p) \/ MonitorRemoveStatus(p)
                          \/ MonitorPush(p) \/ MonitorPassOver(p)
       \/ UNCHANGED <<pid_statuses, terminated, watcher_pid, watcher_status, proc>>
    <2>. USE DEF os_vars, table_vars, watcher_vars, monitor_vars
    <2>1. CASE Main
        BY <2>1 DEF Main, Evolve, ClearSent, ClearReceived, ClearRetriever, LaunchFails,
                    RecordTestcase, PublishTimer, PublishPid, AllReceived, SeeSent, SeeCount, Report
    <2>2. CASE Watcher \/ Retriever
        BY <2>2 DEF Watcher, WatcherCopy, Retriever, RetrieverPop, RetrieverSeesEmpty, GetTrace,
                    AddTrace, AddTraceFails, CountTimedOut, RetrieverLoops
    <2>3. CASE Monitor
        BY <2>3 DEF Monitor, MonitorSeesEmpty, MonitorFlags, MonitorCopy, MonitorRemoveTimer,
                    MonitorRemovePid, MonitorDone, MonitorForget
    <2>4. CASE UNCHANGED vars
        BY <2>4 DEF vars
    <2>. QED
        BY <2>1, <2>2, <2>3, <2>4 DEF Next
<1>. QED
    BY <1>1, <1>2, <1>3, <1>4, <1>5, <1>6, <1>7, <1>8, <1>9, <1>10

LEMMA ReadsStep ==
    ASSUME ~EarlyReuse, Both, [Next]_vars
    PROVE  ReadsEnded'
<1>. IndInv /\ TypeOK /\ TableRecorded /\ OwnTestcase /\ StatusTrue /\ ReadsEnded
    BY DEF Both, IndInv, TraceInv
<1>. USE DEF TypeOK
<1>1. ASSUME NEW p \in Pids, Launch(p) PROVE ReadsEnded'
    <2>1. ToRead' = ToRead
        BY <1>1 DEF Launch, ToRead, queue_vars, retriever_vars
    <2>2. \A t \in ToRead : t \in 1..generated
        BY Places DEF ToRead, InFlight
    <2>3. \A t \in ToRead : t # generated + 1
        BY <2>2
    <2>4. /\ proc_testcase'[p] = generated + 1
          /\ \A q \in Pids : q # p => proc'[q] = proc[q] /\ proc_testcase'[q] = proc_testcase[q]
        BY <1>1, FreshPid
    <2>. QED
        BY <2>1, <2>3, <2>4 DEF ReadsEnded
<1>2. ASSUME NEW p \in Pids, Child(p) PROVE ReadsEnded'
    <2>1. ToRead' = ToRead /\ UNCHANGED proc_testcase
        BY <1>2 DEF Child, ChildFlush, ChildExit, ChildStop, ToRead, queue_vars, retriever_vars
    <2>2. \A q \in Pids : proc'[q] \in Running => proc[q] \in Running
        BY <1>2 DEF Child, ChildFlush, ChildExit, ChildStop, Running
    <2>. QED
        BY <2>1, <2>2 DEF ReadsEnded
<1>3. ASSUME NEW p \in Pids, WatcherWait(p) PROVE ReadsEnded'
    <2>1. ToRead' = ToRead
        BY <1>3 DEF WatcherWait, ToRead, queue_vars, retriever_vars
    <2>2. \A t \in ToRead : t \in 1..generated
        BY Places DEF ToRead, InFlight
    <2>3. \A q \in Pids : /\ proc'[q] \in Running => proc[q] \in Running
                          /\ proc_testcase'[q] \in {0, proc_testcase[q]}
        BY <1>3, Waited
    <2>. QED
        BY <2>1, <2>2, <2>3 DEF ReadsEnded
<1>4. ASSUME NEW p \in Pids, MonitorPush(p) PROVE ReadsEnded'
    <2>1. UNCHANGED <<retriever_pc, testcase, proc, proc_testcase>>
        BY <1>4 DEF MonitorPush, os_vars, retriever_vars
    <2>2. terminated[p] # "none" /\ testcase_pids[p] # 0 /\ testcase_pids[p] \in Nat
        BY <1>4 DEF MonitorPush
    <2>3. CASE terminated[p] = "TIMEDOUT"
        BY <1>4, <2>1, <2>3 DEF MonitorPush, ReadsEnded, ToRead
    <2>4. CASE terminated[p] # "TIMEDOUT"
        <3>1. queue' = Append(queue, testcase_pids[p])
            BY <1>4, <2>4 DEF MonitorPush
        <3>2. ToSet(queue') = ToSet(queue) \union {testcase_pids[p]}
            <4>1. queue \in Seq(Nat)
                OBVIOUS
            <4>. QED
                BY <2>2, <3>1, <4>1, PushedElements, Zenon
        <3>3. ToRead' = ToRead \union {testcase_pids[p]}
            BY <2>1, <3>2 DEF ToRead
        <3>4. terminated[p] \in Over
            BY <2>2, <2>4 DEF TableRecorded, Statuses, Over
        <3>5. \A q \in Pids : proc_testcase[q] = testcase_pids[p] => proc[q] \notin Running
            BY <2>2, <3>4 DEF OwnTestcase, StatusTrue
        <3>. QED
            BY <2>1, <3>3, <3>5 DEF ReadsEnded
    <2>. QED
        BY <2>3, <2>4
<1>5. CASE RetrieverPop
    <2>1. ToSet(queue) = ToSet(queue') \union {testcase'} /\ UNCHANGED <<proc, proc_testcase>>
        BY <1>5, TailElements DEF RetrieverPop, os_vars
    <2>. QED
        BY <2>1 DEF ReadsEnded, ToRead
<1>6. CASE /\ UNCHANGED <<queue, proc, proc_testcase>>
           /\ \/ retriever_pc' \notin {"lookup", "integrate"}
              \/ /\ UNCHANGED testcase
                 /\ retriever_pc' # retriever_pc => retriever_pc = "lookup"
    BY <1>6 DEF ReadsEnded, ToRead
<1>7. \/ \E p \in Pids : Launch(p) \/ Child(p) \/ WatcherWait(p) \/ MonitorPush(p)
      \/ RetrieverPop
      \/ /\ UNCHANGED <<queue, proc, proc_testcase>>
         /\ \/ retriever_pc' \notin {"lookup", "integrate"}
            \/ /\ UNCHANGED testcase
               /\ retriever_pc' # retriever_pc => retriever_pc = "lookup"
    <2>. USE DEF os_vars, queue_vars, retriever_vars
    <2>1. CASE Main
        BY <2>1 DEF Main, Evolve, ClearTable, ClearSent, ClearReceived, ClearRetriever, LaunchFails,
                    RecordTestcase, PublishStatus, PublishTimer, PublishPid, AllReceived, SeeSent,
                    SeeCount, Report
    <2>2. CASE Watcher
        BY <2>2 DEF Watcher, WatcherCopy, WatcherInTime, TimeoutKill, WatcherUpdate
    <2>3. CASE Monitor
        BY <2>3 DEF Monitor, MonitorSeesEmpty, MonitorFlags, MonitorCopy, MonitorScan,
                    MonitorRemoveStatus, MonitorRemoveTimer, MonitorRemovePid, MonitorPassOver,
                    MonitorDone, MonitorForget
    <2>4. CASE Retriever
        BY <2>4 DEF Retriever, RetrieverSeesEmpty, GetTrace, AddTrace, AddTraceFails, CountTimedOut,
                    RetrieverLoops
    <2>5. CASE UNCHANGED vars
        BY <2>5 DEF vars
    <2>. QED
        BY <2>1, <2>2, <2>3, <2>4, <2>5 DEF Next
<1>. QED
    BY <1>1, <1>2, <1>3, <1>4, <1>5, <1>6, <1>7

(***************************************************************************)
(* The theorem                                                             *)
(***************************************************************************)

\* Unless a pid is recycled while the fuzzer still refers to it, the trace that is
\* taken into the knowledge is complete: its child has ended, been reaped or been
\* stopped, although the list is read without the container's lock
\* (handler.cpp:303-307, commander.cpp:44-62, 111-122).
THEOREM TracesAreComplete ==
    ASSUME ~EarlyReuse
    PROVE  Spec => []TraceComplete
<1>1. TraceInv /\ IndInv /\ IndInv' /\ [Next]_vars => TraceInv'
    BY TableStep, TestcaseStep, StatusStep, ReadsStep DEF Both, TraceInv
<1>2. TraceInv => TraceComplete
    BY DEF TraceInv, ReadsEnded, ToRead, TraceComplete
<1>. QED
    BY <1>1, <1>2, InitTraceInv, Invariance, PTL DEF Spec

=============================================================================
