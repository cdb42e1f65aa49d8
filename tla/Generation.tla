----------------------------- MODULE Generation -----------------------------
(***************************************************************************)
(* One fuzzing campaign of the single-threaded loop, generation after      *)
(* generation: the main thread (FuzzerHandler::single_threaded_loop), the  *)
(* timeout watcher of the process table (TimeoutWatcher), the process      *)
(* monitor (FuzzerProcessMonitor), the trace retriever                     *)
(* (FuzzerTraceRetriever) and the children running the instrumented        *)
(* target.                                                                 *)
(*                                                                         *)
(* One action is one access to shared state: an atomic, a tbb map or       *)
(* queue, the pid set under its mutex, the shared memory container, a      *)
(* system call.  Locals that are not read again are reset, so that they do *)
(* not tell states apart.                                                  *)
(***************************************************************************)
EXTENDS Naturals, FiniteSets, SequencesExt

CONSTANTS
    Pids,             \* process ids the kernel hands out
    NoPid,            \* "no process"
    MaxProcesses,     \* --max-num-processes
    MaxTestcases,     \* --max-num-testcases
    PopulationSizes,  \* sizes evolve() may give the population
    Faults,           \* what may go wrong: "forkfails", "silent", "stops", "throws"
    EarlyReuse        \* may the kernel recycle a pid the fuzzer still refers to?

ASSUME GenerationAssumption ==
    /\ IsFiniteSet(Pids)
    /\ NoPid \notin Pids
    /\ MaxProcesses \in Nat
    /\ MaxTestcases \in Nat
    /\ PopulationSizes \subseteq Nat
    /\ EarlyReuse \in BOOLEAN

VARIABLES
    \* The main thread and its local variables.
    pc,             \* where single_threaded_loop stands
    generated,      \* generated_testcases = current_testcase_id
    to_launch,      \* individuals the for loop has still to call
    to_process,     \* size of the population less the calls that failed
    launched,       \* current_testcase_ids
    new_pid,        \* the pid Commander::call got from exec
    \* The operating system and the shared memory.
    proc,           \* state of every process
    proc_testcase,  \* COVERAGE_FUZZING_TESTCASE_ID of every process
    traces,         \* testcases that have a trace list in the container
    \* Commander and ProcessStatuses.
    testcase_pids,  \* pid -> testcase id, 0 when absent
    all_pids,       \* ProcessStatuses::all_pids
    pid_statuses,   \* ProcessStatuses::pid_statuses, "none" when absent
    pid_timers,     \* the pids in ProcessStatuses::pid_timers
    \* TimeoutWatcher.
    watcher_pids,   \* rest of its copy of all_pids
    watcher_pid,    \* the pid being looked at, or NoPid
    watcher_status, \* what waitpid said of it
    \* FuzzerProcessMonitor.
    monitor_pc,     \* where its loop stands
    monitor_pids,   \* rest of its copy of all_pids, then of to_remove
    monitor_pid,    \* the pid it removes, or whose testcase it has just pushed
    terminated,     \* result of get_terminated_processes
    received,       \* all_testscases_received
    sent,           \* all_testscases_sent
    \* The two queues between monitor and retriever.
    queue,
    timed_out_queue,
    \* FuzzerTraceRetriever.
    retriever_pc,   \* where its loop stands
    testcase,       \* the testcase it has popped
    processed,      \* processed_testcases
    accounted,      \* the testcases counted in processed_testcases
    scored          \* testcases ProgramKnowledge holds a score for

main_vars == <<pc, generated, to_launch, to_process, launched, new_pid>>
os_vars == <<proc, proc_testcase, traces>>
table_vars == <<all_pids, pid_statuses, pid_timers>>
watcher_vars == <<watcher_pids, watcher_pid, watcher_status>>
monitor_vars == <<monitor_pc, monitor_pids, monitor_pid, terminated>>
flag_vars == <<received, sent>>
queue_vars == <<queue, timed_out_queue>>
retriever_vars == <<retriever_pc, testcase, processed, accounted>>

vars == <<main_vars, os_vars, testcase_pids, table_vars, watcher_vars, monitor_vars,
          flag_vars, queue_vars, retriever_vars, scored>>

(***************************************************************************)
(* Types                                                                   *)
(***************************************************************************)

\* "alive" runs and has published nothing, "flushing" runs and its trace
\* list exists, "held" is stopped by a signal and waitpid has not told yet,
\* "zombie" has died and is not reaped, "none" does not exist.
ProcStates == {"none", "alive", "flushing", "held", "stopped", "zombie"}
Running == {"alive", "flushing"}

Statuses == {"RUNNING", "TERMINATED", "TIMEDOUT", "UNKNOWN"}

\* The main thread is between two generations.
ClosedPcs == {"report", "evolve", "clearTable", "clearMonitor", "clearReceived", "clearRetriever"}
CallPcs == {"record", "publish", "publishTimer", "publishPid"}
OpenPcs == {"gate", "awaitSent", "awaitCount"} \union CallPcs

TypeOK ==
    /\ pc \in ClosedPcs \union OpenPcs
    /\ generated \in Nat
    /\ to_launch \in Nat
    /\ to_process \in Nat
    /\ launched \subseteq 1..generated
    /\ new_pid \in Pids \union {NoPid}
    /\ proc \in [Pids -> ProcStates]
    /\ proc_testcase \in [Pids -> Nat]
    /\ traces \subseteq 1..generated
    /\ testcase_pids \in [Pids -> Nat]
    /\ all_pids \subseteq Pids
    /\ pid_statuses \in [Pids -> Statuses \union {"none"}]
    /\ pid_timers \subseteq Pids
    /\ watcher_pids \subseteq Pids
    /\ watcher_pid \in Pids \union {NoPid}
    /\ watcher_status \in Statuses
    /\ monitor_pc \in {"poll", "flags", "scan", "remove", "removeTimer", "removePid",
                      "report", "note"}
    /\ monitor_pids \subseteq Pids
    /\ monitor_pid \in Pids \union {NoPid}
    /\ terminated \in [Pids -> Statuses \union {"none"}]
    /\ received \in BOOLEAN
    /\ sent \in BOOLEAN
    /\ queue \in Seq(Nat)
    /\ timed_out_queue \in Seq(Nat)
    /\ retriever_pc \in {"queue", "lookup", "integrate", "timedout"}
    /\ testcase \in Nat
    /\ processed \in Nat
    /\ accounted \subseteq 1..generated
    /\ scored \subseteq 1..generated

\* FuzzerHandler::initialize and the start of single_threaded_loop.  The two
\* flags of the monitor are default-constructed atomics, and the monitor runs
\* before the first clear(): they hold whatever the memory held.
Init ==
    /\ pc = "evolve"
    /\ generated = 0
    /\ to_launch = 0
    /\ to_process = 0
    /\ launched = {}
    /\ new_pid = NoPid
    /\ proc = [p \in Pids |-> "none"]
    /\ proc_testcase = [p \in Pids |-> 0]
    /\ traces = {}
    /\ testcase_pids = [p \in Pids |-> 0]
    /\ all_pids = {}
    /\ pid_statuses = [p \in Pids |-> "none"]
    /\ pid_timers = {}
    /\ watcher_pids = {}
    /\ watcher_pid = NoPid
    /\ watcher_status = "RUNNING"
    /\ monitor_pc = "poll"
    /\ monitor_pids = {}
    /\ monitor_pid = NoPid
    /\ terminated = [p \in Pids |-> "none"]
    /\ received \in BOOLEAN
    /\ sent \in BOOLEAN
    /\ queue = <<>>
    /\ timed_out_queue = <<>>
    /\ retriever_pc = "queue"
    /\ testcase = 0
    /\ processed = 0
    /\ accounted = {}
    /\ scored = {}

(***************************************************************************)
(* The main thread                                                         *)
(***************************************************************************)

\* has_more_cases(), one_generation() (which reads the scores), and
\* reset_scores().
Evolve ==
    /\ pc = "evolve"
    /\ generated < MaxTestcases
    /\ \E n \in PopulationSizes : to_launch' = n
    /\ scored' = {}
    /\ pc' = "clearTable"
    /\ UNCHANGED <<generated, to_process, launched, new_pid, os_vars, testcase_pids, table_vars,
                   watcher_vars, monitor_vars, flag_vars, queue_vars, retriever_vars>>

\* Commander::clear(): the pids, their statuses and timers, not testcase_pids.
\* remove() looks for the status first.
ClearTable ==
    /\ pc = "clearTable"
    /\ all_pids' = {}
    /\ pid_timers' = pid_timers \ {p \in all_pids : pid_statuses[p] # "none"}
    /\ pid_statuses' = [p \in Pids |-> IF p \in all_pids THEN "none" ELSE pid_statuses[p]]
    /\ pc' = "clearMonitor"
    /\ UNCHANGED <<generated, to_launch, to_process, launched, new_pid, os_vars, testcase_pids,
                   watcher_vars, monitor_vars, flag_vars, queue_vars, retriever_vars, scored>>

\* FuzzerProcessMonitor::clear() is two stores that the monitor can see apart.
ClearSent ==
    /\ pc = "clearMonitor"
    /\ sent' = FALSE
    /\ pc' = "clearReceived"
    /\ UNCHANGED <<generated, to_launch, to_process, launched, new_pid, os_vars, testcase_pids,
                   table_vars, watcher_vars, monitor_vars, received, queue_vars, retriever_vars,
                   scored>>

ClearReceived ==
    /\ pc = "clearReceived"
    /\ received' = FALSE
    /\ pc' = "clearRetriever"
    /\ UNCHANGED <<generated, to_launch, to_process, launched, new_pid, os_vars, testcase_pids,
                   table_vars, watcher_vars, monitor_vars, sent, queue_vars, retriever_vars, scored>>

\* The count a generation starts from.  Mutant: clear() leaves it as it was.
ClearedCountKept == processed
ClearedCount == 0

\* FuzzerTraceRetriever::clear(), and the locals of the new generation.  The
\* two queues are not cleared.
ClearRetriever ==
    /\ pc = "clearRetriever"
    /\ processed' = ClearedCount
    /\ accounted' = {}
    /\ to_process' = to_launch
    /\ launched' = {}
    /\ pc' = "gate"
    /\ UNCHANGED <<generated, to_launch, new_pid, os_vars, testcase_pids, table_vars,
                   watcher_vars, monitor_vars, flag_vars, queue_vars, retriever_pc, testcase, scored>>

\* Pids the kernel may give to a new process: never one of a process that
\* runs or waits to be reaped.  Without EarlyReuse, also none the fuzzer still
\* has a note of (the kernel cycles through tens of thousands of pids).
FreePids ==
    {p \in Pids :
        /\ proc[p] = "none"
        /\ EarlyReuse \/ /\ testcase_pids[p] = 0
                         /\ p \notin all_pids \union watcher_pids \union {watcher_pid}}

\* Below the limit of processes: the next individual gets its id and
\* Commander::Impl::exec forks.
Launch(p) ==
    /\ pc = "gate"
    /\ to_launch > 0
    /\ Cardinality(all_pids) < MaxProcesses
    /\ p \in FreePids
    /\ generated' = generated + 1
    /\ to_launch' = to_launch - 1
    /\ new_pid' = p
    /\ proc' = [proc EXCEPT ![p] = "alive"]
    /\ proc_testcase' = [proc_testcase EXCEPT ![p] = generated']
    /\ pc' = "record"
    /\ UNCHANGED <<to_process, launched, traces, testcase_pids, table_vars, watcher_vars,
                   monitor_vars, flag_vars, queue_vars, retriever_vars, scored>>

\* Mutants: both call() and the loop take the individual off; nobody does.
LessFailedCallTwice == to_process - 2
LessFailedCallKept == to_process
LessFailedCall == to_process - 1

\* exec throws, call() returns false: the id is spent, the individual is taken
\* off the count.
LaunchFails ==
    /\ pc = "gate"
    /\ to_launch > 0
    /\ Cardinality(all_pids) < MaxProcesses
    /\ "forkfails" \in Faults
    /\ generated' = generated + 1
    /\ to_launch' = to_launch - 1
    /\ to_process' = LessFailedCall
    /\ UNCHANGED <<pc, launched, new_pid, os_vars, testcase_pids, table_vars, watcher_vars,
                   monitor_vars, flag_vars, queue_vars, retriever_vars, scored>>

\* testcase_pids.insert() does not overwrite.
RecordTestcase ==
    /\ pc = "record"
    /\ testcase_pids' = [testcase_pids EXCEPT ![new_pid] = IF @ = 0 THEN generated ELSE @]
    /\ pc' = "publish"
    /\ UNCHANGED <<generated, to_launch, to_process, launched, new_pid, os_vars, table_vars,
                   watcher_vars, monitor_vars, flag_vars, queue_vars, retriever_vars, scored>>

\* ProcessStatuses::insert(): the status, the timer and the pid, one after the
\* other, none over what is there.  call() returns true.
PublishStatus ==
    /\ pc = "publish"
    /\ pid_statuses' = [pid_statuses EXCEPT ![new_pid] = IF @ = "none" THEN "RUNNING" ELSE @]
    /\ pc' = "publishTimer"
    /\ UNCHANGED <<generated, to_launch, to_process, launched, new_pid, os_vars, testcase_pids,
                   all_pids, pid_timers, watcher_vars, monitor_vars, flag_vars, queue_vars,
                   retriever_vars, scored>>

PublishTimer ==
    /\ pc = "publishTimer"
    /\ pid_timers' = pid_timers \union {new_pid}
    /\ pc' = "publishPid"
    /\ UNCHANGED <<generated, to_launch, to_process, launched, new_pid, os_vars, testcase_pids,
                   all_pids, pid_statuses, watcher_vars, monitor_vars, flag_vars, queue_vars,
                   retriever_vars, scored>>

PublishPid ==
    /\ pc = "publishPid"
    /\ all_pids' = all_pids \union {new_pid}
    /\ launched' = launched \union {generated}
    /\ new_pid' = NoPid
    /\ pc' = "gate"
    /\ UNCHANGED <<generated, to_launch, to_process, os_vars, testcase_pids, pid_statuses,
                   pid_timers, watcher_vars, monitor_vars, flag_vars, queue_vars, retriever_vars,
                   scored>>

AllReceived ==
    /\ pc = "gate"
    /\ to_launch = 0
    /\ received' = TRUE
    /\ pc' = "awaitSent"
    /\ UNCHANGED <<generated, to_launch, to_process, launched, new_pid, os_vars, testcase_pids,
                   table_vars, watcher_vars, monitor_vars, sent, queue_vars, retriever_vars, scored>>

SeeSent ==
    /\ pc = "awaitSent"
    /\ sent
    /\ pc' = "awaitCount"
    /\ UNCHANGED <<generated, to_launch, to_process, launched, new_pid, os_vars, testcase_pids,
                   table_vars, watcher_vars, monitor_vars, flag_vars, queue_vars, retriever_vars,
                   scored>>

\* What ends the wait for the trace retriever.  Mutants: the queues are polled
\* instead of the count; the bound is off by one.
QueuesDrained == queue = <<>> /\ timed_out_queue = <<>>
AllButOneCounted == processed + 1 >= to_process
AllCounted == processed >= to_process

SeeCount ==
    /\ pc = "awaitCount"
    /\ AllCounted
    /\ pc' = "report"
    /\ UNCHANGED <<generated, to_launch, to_process, launched, new_pid, os_vars, testcase_pids,
                   table_vars, watcher_vars, monitor_vars, flag_vars, queue_vars, retriever_vars,
                   scored>>

\* consume_local_coverage, the crashing testcases and assign_best_ro: the main
\* thread reads the knowledge.
Report ==
    /\ pc = "report"
    /\ pc' = "evolve"
    /\ UNCHANGED <<generated, to_launch, to_process, launched, new_pid, os_vars, testcase_pids,
                   table_vars, watcher_vars, monitor_vars, flag_vars, queue_vars, retriever_vars,
                   scored>>

(***************************************************************************)
(* The children                                                            *)
(***************************************************************************)

\* The runtime's first Container::add creates the trace list.
ChildFlush(p) ==
    /\ proc[p] = "alive"
    /\ proc' = [proc EXCEPT ![p] = "flushing"]
    /\ traces' = traces \union {proc_testcase[p]}
    /\ UNCHANGED <<main_vars, proc_testcase, testcase_pids, table_vars, watcher_vars, monitor_vars,
                   flag_vars, queue_vars, retriever_vars, scored>>

\* A child dies once its trace is written, or, when it is killed, calls _exit
\* or cannot be executed, without having written any.
ChildExit(p) ==
    /\ \/ proc[p] = "flushing"
       \/ proc[p] = "alive" /\ "silent" \in Faults
    /\ proc' = [proc EXCEPT ![p] = "zombie"]
    /\ UNCHANGED <<main_vars, proc_testcase, traces, testcase_pids, table_vars, watcher_vars,
                   monitor_vars, flag_vars, queue_vars, retriever_vars, scored>>

\* A stop signal; nothing in the fuzzer resumes the child.
ChildStop(p) ==
    /\ "stops" \in Faults
    /\ proc[p] \in Running
    /\ proc' = [proc EXCEPT ![p] = "held"]
    /\ UNCHANGED <<main_vars, proc_testcase, traces, testcase_pids, table_vars, watcher_vars,
                   monitor_vars, flag_vars, queue_vars, retriever_vars, scored>>

(***************************************************************************)
(* TimeoutWatcher::operator()                                              *)
(***************************************************************************)

WatcherCopy ==
    /\ watcher_pid = NoPid
    /\ watcher_pids = {}
    /\ all_pids # {}
    /\ watcher_pids' = all_pids
    /\ UNCHANGED <<main_vars, os_vars, testcase_pids, table_vars, watcher_pid, watcher_status,
                   monitor_vars, flag_vars, queue_vars, retriever_vars, scored>>

\* get_pid_status with WNOHANG | WUNTRACED.  A pid that is not (or no more) a
\* child of the fuzzer makes waitpid fail, which counts as running.
StatusOf(p) ==
    CASE proc[p] = "zombie" -> "TERMINATED"
      [] proc[p] = "held"   -> "UNKNOWN"
      [] OTHER              -> "RUNNING"

\* waitpid reaps a dead child and tells of a stop only once.
AfterWait(p) ==
    CASE proc[p] = "zombie" -> "none"
      [] proc[p] = "held"   -> "stopped"
      [] OTHER              -> proc[p]

WatcherWait(p) ==
    /\ watcher_pid = NoPid
    /\ p \in watcher_pids
    /\ watcher_pids' = watcher_pids \ {p}
    /\ watcher_pid' = p
    /\ watcher_status' = StatusOf(p)
    /\ proc' = [proc EXCEPT ![p] = AfterWait(p)]
    /\ proc_testcase' = [proc_testcase EXCEPT ![p] = IF proc'[p] = "none" THEN 0 ELSE @]
    /\ UNCHANGED <<main_vars, traces, testcase_pids, table_vars, monitor_vars,
                   flag_vars, queue_vars, retriever_vars, scored>>

\* Running and within its time, or without a timer any more.
WatcherInTime ==
    /\ watcher_pid # NoPid
    /\ watcher_status = "RUNNING"
    /\ watcher_pid' = NoPid
    /\ UNCHANGED <<main_vars, os_vars, testcase_pids, table_vars, watcher_pids, watcher_status,
                   monitor_vars, flag_vars, queue_vars, retriever_vars, scored>>

\* The timer is found and has run out (it measures the CPU time of the fuzzer
\* itself, so it can at any moment): SIGUSR2, which makes a living child flush
\* its trace and exit.
TimeoutKill ==
    /\ watcher_pid # NoPid
    /\ watcher_status = "RUNNING"
    /\ watcher_pid \in pid_timers
    /\ watcher_status' = "TIMEDOUT"
    /\ UNCHANGED <<main_vars, os_vars, testcase_pids, table_vars, watcher_pids, watcher_pid,
                   monitor_vars, flag_vars, queue_vars, retriever_vars, scored>>

\* ProcessStatuses::update() of a pid that is still in the map.
WatcherUpdate ==
    /\ watcher_pid # NoPid
    /\ watcher_status # "RUNNING"
    /\ pid_statuses' = [pid_statuses EXCEPT ![watcher_pid] =
                            IF @ = "none" THEN @ ELSE watcher_status]
    /\ watcher_pid' = NoPid
    /\ watcher_status' = "RUNNING"
    /\ UNCHANGED <<main_vars, os_vars, testcase_pids, all_pids, pid_timers, watcher_pids,
                   monitor_vars, flag_vars, queue_vars, retriever_vars, scored>>

(***************************************************************************)
(* FuzzerProcessMonitor::operator()                                        *)
(***************************************************************************)

MonitorSeesEmpty ==
    /\ monitor_pc = "poll"
    /\ all_pids = {}
    /\ monitor_pc' = "flags"
    /\ UNCHANGED <<main_vars, os_vars, testcase_pids, table_vars, watcher_vars, monitor_pids,
                   monitor_pid, terminated, flag_vars, queue_vars, retriever_vars, scored>>

\* The flags are read after empty() has released its mutex.  Two loads and a
\* store, taken together: only the monitor sets the flag and only this
\* thread's own store ends the wait in which the main thread reads it.
MonitorFlags ==
    /\ monitor_pc = "flags"
    /\ sent' = (sent \/ received)
    /\ monitor_pc' = "poll"
    /\ UNCHANGED <<main_vars, os_vars, testcase_pids, table_vars, watcher_vars, monitor_pids,
                   monitor_pid, terminated, received, queue_vars, retriever_vars, scored>>

MonitorCopy ==
    /\ monitor_pc = "poll"
    /\ all_pids # {}
    /\ monitor_pids' = all_pids
    /\ monitor_pc' = "scan"
    /\ UNCHANGED <<main_vars, os_vars, testcase_pids, table_vars, watcher_vars, monitor_pid,
                   terminated, flag_vars, queue_vars, retriever_vars, scored>>

\* Every status but running counts as terminated.  Mutant: every known pid does.
KnownPid(p) == pid_statuses[p] # "none"
CountsAsTerminated(p) == pid_statuses[p] \notin {"none", "RUNNING"}

\* get_terminated_processes(): it scans its copy of the pids, then removes those
\* it has found.
MonitorScan(p) ==
    /\ monitor_pc = "scan"
    /\ p \in monitor_pids
    /\ terminated' = [terminated EXCEPT ![p] = IF CountsAsTerminated(p) THEN pid_statuses[p] ELSE @]
    /\ IF monitor_pids = {p}
       THEN /\ monitor_pids' = {q \in Pids : terminated'[q] # "none"}
            /\ monitor_pc' = IF monitor_pids' = {} THEN "report" ELSE "remove"
       ELSE /\ monitor_pids' = monitor_pids \ {p}
            /\ UNCHANGED monitor_pc
    /\ UNCHANGED <<main_vars, os_vars, testcase_pids, table_vars, watcher_vars, monitor_pid,
                   flag_vars, queue_vars, retriever_vars, scored>>

\* ProcessStatuses::remove(): the status, the timer and the pid, one after the
\* other, or nothing where there is no status.
MonitorRemoveStatus(p) ==
    /\ monitor_pc = "remove"
    /\ p \in monitor_pids
    /\ pid_statuses' = [pid_statuses EXCEPT ![p] = "none"]
    /\ monitor_pids' = monitor_pids \ {p}
    /\ IF pid_statuses[p] # "none"
       THEN monitor_pid' = p /\ monitor_pc' = "removeTimer"
       ELSE /\ monitor_pc' = IF monitor_pids' = {} THEN "report" ELSE "remove"
            /\ UNCHANGED monitor_pid
    /\ UNCHANGED <<main_vars, os_vars, testcase_pids, all_pids, pid_timers, watcher_vars,
                   terminated, flag_vars, queue_vars, retriever_vars, scored>>

MonitorRemoveTimer ==
    /\ monitor_pc = "removeTimer"
    /\ pid_timers' = pid_timers \ {monitor_pid}
    /\ monitor_pc' = "removePid"
    /\ UNCHANGED <<main_vars, os_vars, testcase_pids, all_pids, pid_statuses, watcher_vars,
                   monitor_pids, monitor_pid, terminated, flag_vars, queue_vars, retriever_vars,
                   scored>>

MonitorRemovePid ==
    /\ monitor_pc = "removePid"
    /\ all_pids' = all_pids \ {monitor_pid}
    /\ monitor_pid' = NoPid
    /\ monitor_pc' = IF monitor_pids = {} THEN "report" ELSE "remove"
    /\ UNCHANGED <<main_vars, os_vars, testcase_pids, pid_statuses, pid_timers, watcher_vars,
                   monitor_pids, terminated, flag_vars, queue_vars, retriever_vars, scored>>

\* The testcase of a terminated process goes to the queue of its status.
MonitorPush(p) ==
    /\ monitor_pc = "report"
    /\ terminated[p] # "none"
    /\ testcase_pids[p] >= 1
    /\ IF terminated[p] = "TIMEDOUT"
       THEN /\ timed_out_queue' = Append(timed_out_queue, testcase_pids[p])
            /\ UNCHANGED queue
       ELSE /\ queue' = Append(queue, testcase_pids[p])
            /\ UNCHANGED timed_out_queue
    /\ terminated' = [terminated EXCEPT ![p] = "none"]
    /\ monitor_pid' = p
    /\ monitor_pc' = "note"
    /\ UNCHANGED <<main_vars, os_vars, testcase_pids, table_vars, watcher_vars, monitor_pids,
                   flag_vars, retriever_vars, scored>>

\* A pid without testcase is passed over.
MonitorPassOver(p) ==
    /\ monitor_pc = "report"
    /\ terminated[p] # "none"
    /\ testcase_pids[p] < 1
    /\ terminated' = [terminated EXCEPT ![p] = "none"]
    /\ UNCHANGED <<main_vars, os_vars, testcase_pids, table_vars, watcher_vars, monitor_pc,
                   monitor_pids, monitor_pid, flag_vars, queue_vars, retriever_vars, scored>>

\* The map processed_pid() leaves.  Mutant: the entry is not erased.
PidKept == testcase_pids
PidForgotten == [testcase_pids EXCEPT ![monitor_pid] = 0]

\* all_processed.insert() and Commander::processed_pid().
MonitorForget ==
    /\ monitor_pc = "note"
    /\ testcase_pids' = PidForgotten
    /\ monitor_pid' = NoPid
    /\ monitor_pc' = "report"
    /\ UNCHANGED <<main_vars, os_vars, table_vars, watcher_vars, monitor_pids, terminated,
                   flag_vars, queue_vars, retriever_vars, scored>>

MonitorDone ==
    /\ monitor_pc = "report"
    /\ \A p \in Pids : terminated[p] = "none"
    /\ monitor_pc' = "poll"
    /\ UNCHANGED <<main_vars, os_vars, testcase_pids, table_vars, watcher_vars, monitor_pids,
                   monitor_pid, terminated, flag_vars, queue_vars, retriever_vars, scored>>

(***************************************************************************)
(* FuzzerTraceRetriever::operator() and process()                          *)
(***************************************************************************)

RetrieverPop ==
    /\ retriever_pc = "queue"
    /\ queue # <<>>
    /\ testcase' = Head(queue)
    /\ queue' = Tail(queue)
    /\ retriever_pc' = "lookup"
    /\ UNCHANGED <<main_vars, os_vars, testcase_pids, table_vars, watcher_vars, monitor_vars,
                   flag_vars, timed_out_queue, processed, accounted, scored>>

RetrieverSeesEmpty ==
    /\ retriever_pc = "queue"
    /\ queue = <<>>
    /\ retriever_pc' = "timedout"
    /\ UNCHANGED <<main_vars, os_vars, testcase_pids, table_vars, watcher_vars, monitor_vars,
                   flag_vars, queue_vars, testcase, processed, accounted, scored>>

\* Container::get_trace.  Without a trace, process() returns false and the
\* testcase is never counted.
GetTrace ==
    /\ retriever_pc = "lookup"
    /\ IF testcase \in traces
       THEN retriever_pc' = "integrate" /\ UNCHANGED testcase
       ELSE retriever_pc' = "timedout" /\ testcase' = 0
    /\ UNCHANGED <<main_vars, os_vars, testcase_pids, table_vars, watcher_vars, monitor_vars,
                   flag_vars, queue_vars, processed, accounted, scored>>

\* knowledge->add_trace has gone through the list; then the count.
AddTrace ==
    /\ retriever_pc = "integrate"
    /\ scored' = scored \union {testcase}
    /\ processed' = processed + 1
    /\ accounted' = accounted \union {testcase}
    /\ testcase' = 0
    /\ retriever_pc' = "timedout"
    /\ UNCHANGED <<main_vars, os_vars, testcase_pids, table_vars, watcher_vars, monitor_vars,
                   flag_vars, queue_vars>>

\* add_trace throws, before or after it has scored the testcase: that is logged,
\* and the testcase is never counted.
AddTraceFails ==
    /\ retriever_pc = "integrate"
    /\ "throws" \in Faults
    /\ scored' \in {scored, scored \union {testcase}}
    /\ testcase' = 0
    /\ retriever_pc' = "timedout"
    /\ UNCHANGED <<main_vars, os_vars, testcase_pids, table_vars, watcher_vars, monitor_vars,
                   flag_vars, queue_vars, processed, accounted>>

\* A timed out testcase is counted, its trace is left alone.
CountTimedOut ==
    /\ retriever_pc = "timedout"
    /\ timed_out_queue # <<>>
    /\ timed_out_queue' = Tail(timed_out_queue)
    /\ processed' = processed + 1
    /\ accounted' = accounted \union {Head(timed_out_queue)}
    /\ retriever_pc' = "queue"
    /\ UNCHANGED <<main_vars, os_vars, testcase_pids, table_vars, watcher_vars, monitor_vars,
                   flag_vars, queue, testcase, scored>>

RetrieverLoops ==
    /\ retriever_pc = "timedout"
    /\ timed_out_queue = <<>>
    /\ retriever_pc' = "queue"
    /\ UNCHANGED <<main_vars, os_vars, testcase_pids, table_vars, watcher_vars, monitor_vars,
                   flag_vars, queue_vars, testcase, processed, accounted, scored>>

(***************************************************************************)
(* The system                                                              *)
(***************************************************************************)

Main ==
    \/ Evolve \/ ClearTable \/ ClearSent \/ ClearReceived \/ ClearRetriever
    \/ \E p \in Pids : Launch(p)
    \/ LaunchFails \/ RecordTestcase \/ PublishStatus \/ PublishTimer \/ PublishPid
    \/ AllReceived \/ SeeSent \/ SeeCount \/ Report

Child(p) == ChildFlush(p) \/ ChildExit(p) \/ ChildStop(p)

Watcher ==
    \/ WatcherCopy
    \/ \E p \in Pids : WatcherWait(p)
    \/ WatcherInTime \/ TimeoutKill \/ WatcherUpdate

Monitor ==
    \/ MonitorSeesEmpty \/ MonitorFlags \/ MonitorCopy
    \/ \E p \in Pids : \/ MonitorScan(p) \/ MonitorRemoveStatus(p)
                       \/ MonitorPush(p) \/ MonitorPassOver(p)
    \/ MonitorRemoveTimer \/ MonitorRemovePid \/ MonitorForget \/ MonitorDone

Retriever ==
    \/ RetrieverPop \/ RetrieverSeesEmpty \/ GetTrace \/ AddTrace \/ AddTraceFails
    \/ CountTimedOut \/ RetrieverLoops

Next == Main \/ (\E p \in Pids : Child(p)) \/ Watcher \/ Monitor \/ Retriever

Spec == Init /\ [][Next]_vars

\* The four threads are scheduled.  The monitor polls a non-empty table
\* without sleeping, so the CPU time of the fuzzer grows and the timer of a
\* process that stays running is found run out some day.  Nothing is assumed
\* of the children.
FairSpec ==
    /\ Spec
    /\ WF_vars(Main)
    /\ WF_vars(Watcher)
    /\ WF_vars(Monitor)
    /\ WF_vars(Retriever)
    /\ \A p \in Pids : SF_vars(watcher_pid = p /\ TimeoutKill)

(***************************************************************************)
(* Properties                                                              *)
(***************************************************************************)

\* What this generation has started, the call under way included.
Launched == launched \union (IF pc \in CallPcs THEN {generated} ELSE {})

\* What the monitor has pushed and the retriever has not counted.
InFlight ==
    ToSet(queue) \union ToSet(timed_out_queue)
        \union (IF retriever_pc \in {"lookup", "integrate"} THEN {testcase} ELSE {})

Distinct(s) == \A i, j \in DOMAIN s : s[i] = s[j] => i = j

\* A testcase reaches the count of its generation at most once, by one way:
\* it is in one queue, at one place, or being read, or counted, and belongs to
\* the generation under way although the queues are never cleared
\* (handler.cpp:371-373) and although a recycled pid can carry the id of
\* another testcase.
EachOnce ==
    /\ Distinct(queue)
    /\ Distinct(timed_out_queue)
    /\ ToSet(queue) \intersect ToSet(timed_out_queue) = {}
    /\ retriever_pc \in {"lookup", "integrate"} =>
           testcase \notin ToSet(queue) \union ToSet(timed_out_queue)
    /\ InFlight \intersect accounted = {}
    /\ InFlight \union accounted \subseteq Launched
    /\ processed = Cardinality(accounted)

\* When the main thread reads the knowledge to report and to evolve, without
\* any lock, no trace is being added to it, none can still be, and the scores
\* are those of testcases of the generation that has just ended.
KnowledgeExclusive ==
    pc \in {"report", "evolve"} =>
        /\ InFlight = {}
        /\ accounted = launched
        /\ scored \subseteq launched

(***************************************************************************)
(* The inductive invariant behind EachOnce, KnowledgeExclusive and         *)
(* LedgerSpec, see GenerationProofs.                                       *)
(***************************************************************************)

\* Pids whose testcase the monitor has still to push.
Outstanding == {p \in Pids : testcase_pids[p] # 0 /\ ~(monitor_pc = "note" /\ p = monitor_pid)}

\* What the main thread knows at each place of its loop.
MainPlaces ==
    /\ pc \in CallPcs => new_pid \in Pids /\ generated \in Nat \ {0}
    /\ pc \in CallPcs => generated \notin launched
    /\ pc \in {"awaitSent", "awaitCount"} => to_launch = 0
    /\ pc \in OpenPcs => to_process = Cardinality(Launched) + to_launch
    /\ pc \in ClosedPcs => accounted = launched

\* A process that exists runs a testcase of this campaign.
ChildrenNumbered == \A p \in Pids : proc[p] # "none" => proc_testcase[p] \in 1..generated

\* The testcase a pid stands for is of this generation, is no other pid's and
\* is not on its way to the count; the id of a child that is not recorded yet
\* is nowhere.
OutstandingOnce ==
    /\ \A p \in Outstanding : testcase_pids[p] \in Launched \ (InFlight \union accounted)
    /\ \A p, q \in Outstanding : testcase_pids[p] = testcase_pids[q] => p = q
    /\ pc = "record" =>
           /\ generated \notin InFlight \union accounted
           /\ \A p \in Outstanding : testcase_pids[p] # generated

\* The scores belong to the generation that has started last.
ScoresCurrent ==
    /\ scored \subseteq Launched
    /\ pc \in {"clearTable", "clearMonitor", "clearReceived", "clearRetriever"} => scored = {}

\* The testcases of a generation are launched and not recorded, or stand for
\* one pid, or are on their way, or are counted, one place each, whatever the
\* threads do and even when pids are recycled early (handler.cpp:361-458).
IndInv ==
    /\ TypeOK
    /\ MainPlaces
    /\ ChildrenNumbered
    /\ EachOnce
    /\ OutstandingOnce
    /\ ScoresCurrent

\* The ledger of testcases as the loop keeps it.
Ledger == INSTANCE TestcaseLedger WITH
    open <- pc \in OpenPcs, launched <- Launched, accounted <- accounted, last_id <- generated

\* The threads together keep the ledger: ids are never reused, a testcase is
\* accounted for once, in its own generation, and no generation ends before
\* all of its testcases are (single_threaded_loop's "All processes are
\* accounted for.").
LedgerSpec == Ledger!Spec

\* The retriever never walks the list of a testcase while a child appends to
\* it: the list is read without the container's lock (handler.cpp:303-307).
TraceComplete ==
    retriever_pc = "integrate" =>
        \A p \in Pids : proc_testcase[p] = testcase => proc[p] \notin Running

\* A generation that was started is reported: the wait for the trace retriever
\* ends (handler.cpp:433-458).
GenerationCompletes == pc = "gate" ~> pc = "report"

\* Never more children running than --max-num-processes, "maximum number of
\* processes running at the same time" (coverage-fuzz.cpp:109).
WithinProcessLimit == Cardinality({p \in Pids : proc[p] \in Running}) <= MaxProcesses
=============================================================================
