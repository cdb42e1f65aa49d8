----------------------------- MODULE SutRuntime -----------------------------
(***************************************************************************)
(* The runtime that is linked into the instrumented target                 *)
(* (SHMRuntimeWriterSingleton and the hooks of runtime.cpp) and the trace  *)
(* container in shared memory it writes to: processes with several threads *)
(* that buffer trace elements under trace_mutex and move them to the       *)
(* container under a mutex the fuzzer shares, while they return from main, *)
(* crash, are told of a timeout by SIGUSR2 or are killed.                  *)
(*                                                                         *)
(* A signal handler runs on top of the thread it interrupts and never      *)
(* returns to it: the interrupted code is forgotten, the mutexes it held   *)
(* stay locked.                                                            *)
(***************************************************************************)
EXTENDS Naturals, FiniteSets, SequencesExt

CONSTANTS
    Procs,        \* processes of the target, each one testcase
    Threads,      \* threads of each of them
    Nobody,       \* "no owner"
    Fuzzer,       \* the fuzzer as owner of the container's mutex
    FlushRate,    \* FLUSH_EVENT_RATE
    MaxCalls,     \* bound: instrumented program points each process reaches
    MaxSignals,   \* bound: SIGUSR2 each process is sent
    Faults        \* what the environment does: "crashes", "full", "killed"

ASSUME RuntimeAssumption ==
    /\ Nobody \notin Procs \union Threads \union {Fuzzer}
    /\ Fuzzer \notin Procs
    /\ FlushRate \in Nat \ {0}
    /\ MaxCalls \in Nat
    /\ MaxSignals \in Nat

VARIABLES
    phase,        \* of every process
    at,           \* where every thread stands
    activity,     \* what the runtime code it is in was called for
    begun,        \* the hooks that run once and have been started
    buffer,       \* SHMRuntimeWriterSingleton::trace
    trace_owner,  \* who has trace_mutex
    list,         \* the trace of the process in the container
    owner,        \* which process has the container's named mutex
    looked_up,    \* processes whose trace the fuzzer has looked up
    added,        \* everything pushed to the buffer so far
    failed,       \* Container::add has thrown in this process
    calls,
    signals

lock_vars == <<trace_owner, owner>>
data_vars == <<buffer, list, added, failed>>
env_vars == <<looked_up, calls, signals>>
vars == <<phase, at, activity, begun, lock_vars, data_vars, env_vars>>

\* "starting" has not built the writer, so no handler is installed either.
Dead == {"exited", "crashed", "killed"}
Phases == {"starting", "running"} \union Dead

\* In the target's own code; at the lock of add(), inside it; at the lock of
\* flush(); inside it and at the lock of Container::add(); inside that one;
\* back from the runtime.
Places == {"code", "add", "push", "flush", "append", "publish", "back"}

Activities == {"call", "terminate", "crash", "timeout"}

Elements == {"BRANCH", "TERMINATED", "CRASHED", "TIMEDOUT"}

\* The element each hook adds.  Mutant: the exit hook adds that of a function.
ElementOfFunctionExit(a) ==
    CASE a = "call"      -> "BRANCH"
      [] a = "terminate" -> "EXIT_FUNCTION"
      [] a = "crash"     -> "CRASHED"
      [] a = "timeout"   -> "TIMEDOUT"
ElementOf(a) ==
    CASE a = "call"      -> "BRANCH"
      [] a = "terminate" -> "TERMINATED"
      [] a = "crash"     -> "CRASHED"
      [] a = "timeout"   -> "TIMEDOUT"

TypeOK ==
    /\ phase \in [Procs -> Phases]
    /\ at \in [Procs -> [Threads -> Places]]
    /\ activity \in [Procs -> [Threads -> Activities]]
    /\ begun \in [Procs -> SUBSET {"terminate", "crash"}]
    /\ buffer \in [Procs -> Seq(Elements)]
    /\ trace_owner \in [Procs -> Threads \union {Nobody}]
    /\ list \in [Procs -> Seq(Elements)]
    /\ owner \in Procs \union {Nobody, Fuzzer}
    /\ looked_up \subseteq Procs
    /\ added \in [Procs -> Seq(Elements)]
    /\ failed \in [Procs -> BOOLEAN]
    /\ calls \in [Procs -> 0..MaxCalls]
    /\ signals \in [Procs -> 0..MaxSignals]

Init ==
    /\ phase = [p \in Procs |-> "starting"]
    /\ at = [p \in Procs |-> [t \in Threads |-> "code"]]
    /\ activity = [p \in Procs |-> [t \in Threads |-> "call"]]
    /\ begun = [p \in Procs |-> {}]
    /\ buffer = [p \in Procs |-> <<>>]
    /\ trace_owner = [p \in Procs |-> Nobody]
    /\ list = [p \in Procs |-> <<>>]
    /\ owner = Nobody
    /\ looked_up = {}
    /\ added = [p \in Procs |-> <<>>]
    /\ failed = [p \in Procs |-> FALSE]
    /\ calls = [p \in Procs |-> 0]
    /\ signals = [p \in Procs |-> 0]

(***************************************************************************)
(* What the target and its environment do                                  *)
(***************************************************************************)

\* The first __coverage_enter_func: the writer is built, the exit, signal and
\* crash handlers are installed.
Start(p) ==
    /\ phase[p] = "starting"
    /\ phase' = [phase EXCEPT ![p] = "running"]
    /\ UNCHANGED <<at, activity, begun, lock_vars, data_vars, env_vars>>

Enters(p, t, a) ==
    /\ at' = [at EXCEPT ![p][t] = "add"]
    /\ activity' = [activity EXCEPT ![p][t] = a]

\* An instrumented program point calls handle_trace_element.
Call(p, t) ==
    /\ phase[p] = "running"
    /\ at[p][t] = "code"
    /\ calls[p] < MaxCalls
    /\ calls' = [calls EXCEPT ![p] = @ + 1]
    /\ Enters(p, t, "call")
    /\ UNCHANGED <<phase, begun, lock_vars, data_vars, looked_up, signals>>

\* atexit hooks and the crash handler run once in a process.
Begins(p, t, a) ==
    /\ begun' = [begun EXCEPT ![p] = @ \union {a}]
    /\ Enters(p, t, a)

\* main returns, or the target calls exit, as a correct target does once:
\* __coverage_terminated.
Exit(p, t) ==
    /\ phase[p] = "running"
    /\ at[p][t] = "code"
    /\ "terminate" \notin begun[p]
    /\ Begins(p, t, "terminate")
    /\ UNCHANGED <<phase, lock_vars, data_vars, env_vars>>

\* The target crashes: breakpad_dump_callback, on the thread that crashed.
\* Breakpad keeps a second thread that crashes waiting.
Crash(p, t) ==
    /\ "crashes" \in Faults
    /\ phase[p] = "running"
    /\ at[p][t] = "code"
    /\ "crash" \notin begun[p]
    /\ Begins(p, t, "crash")
    /\ UNCHANGED <<phase, lock_vars, data_vars, env_vars>>

\* SIGUSR2 before the handler is installed ends the process.
SignalEarly(p) ==
    /\ phase[p] = "starting"
    /\ signals[p] < MaxSignals
    /\ signals' = [signals EXCEPT ![p] = @ + 1]
    /\ phase' = [phase EXCEPT ![p] = "killed"]
    /\ UNCHANGED <<at, activity, begun, lock_vars, data_vars, looked_up, calls>>

\* handle_custom_signal interrupts one of the threads, wherever it is.  The
\* signal is blocked in a thread that is in its handler.
Signal(p, t) ==
    /\ phase[p] = "running"
    /\ signals[p] < MaxSignals
    /\ activity[p][t] # "timeout"
    /\ signals' = [signals EXCEPT ![p] = @ + 1]
    /\ Enters(p, t, "timeout")
    /\ UNCHANGED <<phase, begun, lock_vars, data_vars, looked_up, calls>>

\* SIGKILL, or the memory of the machine runs out.
Kill(p) ==
    /\ "killed" \in Faults
    /\ phase[p] \notin Dead
    /\ phase' = [phase EXCEPT ![p] = "killed"]
    /\ UNCHANGED <<at, activity, begun, lock_vars, data_vars, env_vars>>

(***************************************************************************)
(* handle_trace_element and flush                                          *)
(***************************************************************************)

\* eventsSinceLastFlush is initialised and reset, and incremented nowhere.
EventsSinceLastFlush == 0

\* The place a thread goes to once an element is in the buffer: only the hooks
\* that end the process flush by themselves.  Mutant: they leave it to the rate.
AfterPushAtRate(a) == IF EventsSinceLastFlush < FlushRate THEN "back" ELSE "flush"
AfterPush(a) ==
    IF a = "call" /\ EventsSinceLastFlush < FlushRate THEN "back" ELSE "flush"

\* The two places where a thread waits for trace_mutex, a std::mutex that is not
\* recursive.  Mutant: the lock is not taken.
NotAwaited(p) == TRUE
TraceMutexFree(p) == trace_owner[p] = Nobody

LockAdd(p, t) ==
    /\ phase[p] = "running"
    /\ at[p][t] = "add"
    /\ TraceMutexFree(p)
    /\ trace_owner' = [trace_owner EXCEPT ![p] = t]
    /\ at' = [at EXCEPT ![p][t] = "push"]
    /\ UNCHANGED <<phase, activity, begun, owner, data_vars, env_vars>>

Push(p, t) ==
    /\ phase[p] = "running"
    /\ at[p][t] = "push"
    /\ buffer' = [buffer EXCEPT ![p] = Append(@, ElementOf(activity[p][t]))]
    /\ added' = [added EXCEPT ![p] = Append(@, ElementOf(activity[p][t]))]
    /\ trace_owner' = [trace_owner EXCEPT ![p] = Nobody]
    /\ at' = [at EXCEPT ![p][t] = AfterPush(activity[p][t])]
    /\ UNCHANGED <<phase, activity, begun, owner, list, failed, env_vars>>

\* flush() with nothing to write returns at once.
LockFlush(p, t) ==
    /\ phase[p] = "running"
    /\ at[p][t] = "flush"
    /\ TraceMutexFree(p)
    /\ IF buffer[p] = <<>>
       THEN /\ at' = [at EXCEPT ![p][t] = "back"]
            /\ UNCHANGED trace_owner
       ELSE /\ at' = [at EXCEPT ![p][t] = "append"]
            /\ trace_owner' = [trace_owner EXCEPT ![p] = t]
    /\ UNCHANGED <<phase, activity, begun, owner, data_vars, env_vars>>

LockContainer(p, t) ==
    /\ phase[p] = "running"
    /\ at[p][t] = "append"
    /\ owner = Nobody
    /\ owner' = p
    /\ at' = [at EXCEPT ![p][t] = "publish"]
    /\ UNCHANGED <<phase, activity, begun, trace_owner, data_vars, env_vars>>

\* The container's mutex once the scoped_lock is gone.  Mutant: it is not unlocked.
StillLocked == owner
Unlocked == Nobody

\* What is left in the buffer.  Mutant: trace.clear() is missing.
BufferKept(p) == buffer[p]
BufferLeft(p) == <<>>

\* Container::add and trace.clear(); both mutexes are released.
Publish(p, t) ==
    /\ phase[p] = "running"
    /\ at[p][t] = "publish"
    /\ list' = [list EXCEPT ![p] = @ \o buffer[p]]
    /\ buffer' = [buffer EXCEPT ![p] = BufferLeft(p)]
    /\ owner' = Unlocked
    /\ trace_owner' = [trace_owner EXCEPT ![p] = Nobody]
    /\ at' = [at EXCEPT ![p][t] = "back"]
    /\ UNCHANGED <<phase, activity, begun, added, failed, env_vars>>

\* The segment has no room: Container::add throws with part of the trace in the
\* list.  Nobody catches, so the stack is not unwound, both mutexes stay locked,
\* and the abort runs the crash handler on the same thread; inside the crash
\* handler it waits for Breakpad's own mutex, which is no different.
PublishThrows(p, t) ==
    /\ "full" \in Faults
    /\ phase[p] = "running"
    /\ at[p][t] = "publish"
    /\ \E k \in 0..(Len(buffer[p]) - 1) :
           list' = [list EXCEPT ![p] = @ \o SubSeq(buffer[p], 1, k)]
    /\ failed' = [failed EXCEPT ![p] = TRUE]
    /\ Begins(p, t, "crash")
    /\ UNCHANGED <<phase, lock_vars, buffer, added, env_vars>>

\* Where each hook returns to.  The signal handler calls exit, which runs
\* __coverage_terminated unless it has been started already.
Return(p, t) ==
    /\ phase[p] = "running"
    /\ at[p][t] = "back"
    /\ UNCHANGED <<lock_vars, data_vars, env_vars>>
    /\ \/ /\ activity[p][t] = "call"
          /\ at' = [at EXCEPT ![p][t] = "code"]
          /\ UNCHANGED <<phase, activity, begun>>
       \/ /\ activity[p][t] = "timeout"
          /\ "terminate" \notin begun[p]
          /\ Begins(p, t, "terminate")
          /\ UNCHANGED phase
       \/ /\ activity[p][t] \in {"terminate", "timeout"}
          /\ activity[p][t] = "timeout" => "terminate" \in begun[p]
          /\ phase' = [phase EXCEPT ![p] = "exited"]
          /\ UNCHANGED <<at, activity, begun>>
       \/ /\ activity[p][t] = "crash"
          /\ phase' = [phase EXCEPT ![p] = "crashed"]
          /\ UNCHANGED <<at, activity, begun>>

(***************************************************************************)
(* The fuzzer's side of the container                                      *)
(***************************************************************************)

\* Container::get_trace, once for each process that has ended.
FuzzerLocks ==
    /\ owner = Nobody
    /\ \E p \in Procs \ looked_up : phase[p] \in Dead
    /\ owner' = Fuzzer
    /\ UNCHANGED <<phase, at, activity, begun, trace_owner, data_vars, env_vars>>

FuzzerFinds(p) ==
    /\ owner = Fuzzer
    /\ p \notin looked_up
    /\ phase[p] \in Dead
    /\ looked_up' = looked_up \union {p}
    /\ owner' = Unlocked
    /\ UNCHANGED <<phase, at, activity, begun, trace_owner, data_vars, calls, signals>>

(***************************************************************************)
(* The system                                                              *)
(***************************************************************************)

\* The steps of the runtime's own code.
Runtime(p, t) ==
    \/ LockAdd(p, t) \/ Push(p, t) \/ LockFlush(p, t) \/ LockContainer(p, t)
    \/ Publish(p, t) \/ PublishThrows(p, t) \/ Return(p, t)

Target(p, t) == Call(p, t) \/ Exit(p, t) \/ Crash(p, t) \/ Signal(p, t)

FuzzerSide == FuzzerLocks \/ \E p \in Procs : FuzzerFinds(p)

Next ==
    \/ \E p \in Procs : Start(p) \/ SignalEarly(p) \/ Kill(p)
    \/ \E p \in Procs, t \in Threads : Target(p, t) \/ Runtime(p, t)
    \/ FuzzerSide

Spec == Init /\ [][Next]_vars

\* Every thread that is in the runtime is scheduled, and so is the fuzzer; the
\* target's own code need not go on.
FairSpec ==
    /\ Spec
    /\ \A p \in Procs, t \in Threads : WF_vars(Runtime(p, t))
    /\ WF_vars(FuzzerSide)

(***************************************************************************)
(* Properties                                                              *)
(***************************************************************************)

\* What threads push is never repeated or put out of order on its way through the
\* buffer into the container, whichever of them push and flush at the same time and
\* also where the segment is full; and unless it is, nothing is lost
\* (runtime.cpp:113-135).
FlushedInOrder ==
    \A p \in Procs :
        /\ IsPrefix(list[p], added[p])
        /\ ~failed[p] => list[p] \o buffer[p] = added[p]

\* A process that ends by itself leaves word of how in the container: the element
\* the fuzzer tells a clean exit, a timeout and a crash by. A process whose segment
\* was full can end too, if a thread had told before.
OutcomeTold ==
    \A p \in Procs :
        /\ phase[p] = "exited" => {"TERMINATED", "TIMEDOUT"} \intersect ToSet(list[p]) # {}
        /\ phase[p] = "crashed" => "CRASHED" \in ToSet(list[p])

\* Only a second thread can take the container's mutex with it when a process
\* ends: the thread that ends it, in any of the three hooks and whatever it
\* interrupted, is not the one that holds a mutex (runtime.cpp:113-125, 137-171,
\* 286-296).  The named mutex is not robust, so a target with one thread that
\* left it locked would stop the fuzzer and every other child for good.
LeftLockedByOther ==
    \A p \in Procs :
        owner = p /\ phase[p] \in {"exited", "crashed"} =>
            \E t, u \in Threads : t # u /\ trace_owner[p] = t /\ at[p][u] = "back"

\* A thread that holds trace_mutex and waits for it.
WaitsForItself(p) ==
    /\ phase[p] = "running"
    /\ \E t \in Threads : trace_owner[p] = t /\ at[p][t] \in {"add", "flush"}

LeftLocked(p) == owner = p /\ phase[p] \in Dead

\* A process that has begun to exit or to report a crash ends, unless a thread
\* of some process was interrupted, or had Container::add throw, while it held
\* trace_mutex, or a process ended in the container: nothing else hangs a child,
\* whatever the threads and processes do (runtime.cpp:113-135, 155-171).
EndsUnlessInterrupted ==
    \A p \in Procs :
        (phase[p] = "running" /\ begun[p] # {}) ~>
            (phase[p] \in Dead \/ \E q \in Procs : WaitsForItself(q) \/ LeftLocked(q))

\* A child that is told of its timeout "will then flush the trace and then
\* commit suicide" (commander.cpp:51-52).
EndsWhenTold == \A p \in Procs : (signals[p] > 0) ~> (phase[p] \in Dead)
=============================================================================
