--------------------------- MODULE SutRuntimeProofs ---------------------------
(***************************************************************************)
(* Proofs about SutRuntime, for every set of processes and of threads and  *)
(* whatever the environment does: the trace reaches the container in order *)
(* and says how the process has ended, and a process that ends by itself   *)
(* takes the container's mutex with it only by a second thread.            *)
(***************************************************************************)
EXTENDS SutRuntime, SequenceTheorems, TLAPS

(***************************************************************************)
(* The inductive invariant                                                 *)
(***************************************************************************)

\* Who has got past the lock of trace_mutex holds it.
MutexHeld ==
    \A p \in Procs, t \in Threads :
        at[p][t] \in {"push", "append", "publish"} => trace_owner[p] = t

\* The container's mutex is held by the thread that holds trace_mutex, which is
\* in Container::add or waits for itself in a handler that has interrupted it.
ContainerHeld ==
    \A p \in Procs :
        owner = p => \E t \in Threads : trace_owner[p] = t /\ at[p][t] \in {"publish", "add"}

\* A hook that ends the process has its element in the trace before it flushes,
\* and in the container when it returns.
HookTold ==
    \A p \in Procs, t \in Threads :
        activity[p][t] # "call" =>
            /\ at[p][t] \in {"flush", "append", "publish"}
                   => ElementOf(activity[p][t]) \in ToSet(added[p])
            /\ at[p][t] = "back" => ElementOf(activity[p][t]) \in ToSet(list[p])

\* A process that has ended by itself was ended by a hook that returned.
EndedByHook ==
    \A p \in Procs :
        /\ phase[p] = "exited" =>
               \E t \in Threads : at[p][t] = "back" /\ activity[p][t] \in {"terminate", "timeout"}
        /\ phase[p] = "crashed" =>
               \E t \in Threads : at[p][t] = "back" /\ activity[p][t] = "crash"

\* Once the segment was full, trace_mutex is never unlocked: nobody gets at the trace.
FailedStops ==
    \A p \in Procs :
        failed[p] => /\ trace_owner[p] # Nobody
                     /\ \A t \in Threads : at[p][t] \notin {"push", "append", "publish"}

IInv ==
    /\ TypeOK /\ MutexHeld /\ ContainerHeld
    /\ FlushedInOrder /\ HookTold /\ EndedByHook /\ FailedStops

(***************************************************************************)
(* Threads and sequences                                                   *)
(***************************************************************************)

LEMMA Owners ==
    /\ \A t \in Threads : t # Nobody
    /\ \A p \in Procs : p # Nobody /\ p # Fuzzer
BY RuntimeAssumption

\* What becomes of the place and of the activity of every thread when one moves.
LEMMA OneMoves ==
    ASSUME NEW S, NEW f \in [Procs -> [Threads -> S]], NEW p \in Procs, NEW t \in Threads,
           NEW x \in S
    PROVE  /\ [f EXCEPT ![p][t] = x] \in [Procs -> [Threads -> S]]
           /\ [f EXCEPT ![p][t] = x][p][t] = x
           /\ \A q \in Procs, u \in Threads :
                  q # p \/ u # t => [f EXCEPT ![p][t] = x][q][u] = f[q][u]
OBVIOUS

LEMMA AppendedToSet ==
    ASSUME NEW S, NEW s \in Seq(S), NEW e \in S
    PROVE  ToSet(Append(s, e)) = ToSet(s) \union {e}
<1>1. /\ DOMAIN s = 1..Len(s) /\ Len(s) \in Nat
      /\ DOMAIN Append(s, e) = 1..(Len(s) + 1)
      /\ Append(s, e)[Len(s) + 1] = e
      /\ \A i \in 1..Len(s) : Append(s, e)[i] = s[i]
    OBVIOUS
<1>2. 1..(Len(s) + 1) = 1..Len(s) \union {Len(s) + 1}
    BY <1>1
<1>. QED
    BY <1>1, <1>2 DEF ToSet

LEMMA ConcatenatedToSet ==
    ASSUME NEW S, NEW s \in Seq(S), NEW q \in Seq(S)
    PROVE  ToSet(s) \subseteq ToSet(s \o q)
<1>1. /\ DOMAIN s = 1..Len(s) /\ Len(s) \in Nat /\ Len(q) \in Nat
      /\ DOMAIN (s \o q) = 1..(Len(s) + Len(q))
      /\ \A i \in 1..Len(s) : (s \o q)[i] = s[i]
    OBVIOUS
<1>. QED
    BY <1>1 DEF ToSet

LEMMA ConcatenatedEmpty ==
    ASSUME NEW S, NEW s \in Seq(S)
    PROVE  s \o <<>> = s
OBVIOUS

LEMMA PushedElement ==
    \A s \in Seq(Elements) : \A q \in Seq(Elements) : \A e \in Elements :
        s \o Append(q, e) = Append(s \o q, e)
<1>. TAKE s \in Seq(Elements)
<1>. TAKE q \in Seq(Elements)
<1>. TAKE e \in Elements
<1>. QED
    OBVIOUS

\* A prefix, element by element.
LEMMA PrefixElements ==
    ASSUME NEW S, NEW s \in Seq(S), NEW q \in Seq(S)
    PROVE  IsPrefix(s, q) <=> Len(s) <= Len(q) /\ \A i \in 1..Len(s) : s[i] = q[i]
<1>1. Len(s) \in Nat /\ Len(q) \in Nat /\ SubSeq(s, 1, Len(s)) = s
    OBVIOUS
<1>. DEFINE cut == SubSeq(q, 1, Len(s))
<1>2. ASSUME Len(s) <= Len(q)
      PROVE  cut \in Seq(S) /\ Len(cut) = Len(s) /\ \A i \in 1..Len(s) : cut[i] = q[i]
    BY <1>1, <1>2
<1>3. ASSUME Len(s) <= Len(q), \A i \in 1..Len(s) : s[i] = q[i]
      PROVE  s = cut
    <2>1. cut \in Seq(S) /\ Len(cut) = Len(s) /\ \A i \in 1..Len(s) : s[i] = cut[i]
        BY <1>2, <1>3
    <2>. HIDE DEF cut
    <2>. QED
        BY <2>1, SeqEqual
<1>. QED
    BY <1>1, <1>2, <1>3 DEF IsPrefix

\* Appending only the first k elements of q to s (what still fits in the segment)
\* gives a prefix of what appending all of q would have given.
LEMMA PrefixOfConcatenation ==
    ASSUME NEW S, NEW s \in Seq(S), NEW q \in Seq(S), NEW k \in 0..Len(q)
    PROVE  IsPrefix(s \o SubSeq(q, 1, k), s \o q)
<1>1. /\ Len(s) \in Nat /\ Len(q) \in Nat /\ k \in Nat /\ k <= Len(q)
      /\ SubSeq(q, 1, k) \in Seq(S) /\ Len(SubSeq(q, 1, k)) = k
      /\ \A i \in 1..k : SubSeq(q, 1, k)[i] = q[i]
    OBVIOUS
<1>. DEFINE cut == SubSeq(q, 1, k)
<1>2. cut \in Seq(S) /\ Len(cut) = k /\ \A i \in 1..k : cut[i] = q[i]
    BY <1>1
<1>. HIDE DEF cut
<1>3. /\ s \o cut \in Seq(S) /\ Len(s \o cut) = Len(s) + k
      /\ s \o q \in Seq(S) /\ Len(s \o q) = Len(s) + Len(q)
    BY <1>1, <1>2
<1>4. ASSUME NEW i \in 1..(Len(s) + k)
      PROVE  (s \o cut)[i] = (s \o q)[i]
    <2>1. (s \o cut)[i] = IF i <= Len(s) THEN s[i] ELSE cut[i - Len(s)]
        BY <1>1, <1>2
    <2>2. (s \o q)[i] = IF i <= Len(s) THEN s[i] ELSE q[i - Len(s)]
        BY <1>1
    <2>3. i > Len(s) => i - Len(s) \in 1..k
        BY <1>1
    <2>. QED
        BY <1>1, <1>2, <2>1, <2>2, <2>3
<1>5. Len(s \o cut) <= Len(s \o q) /\ \A i \in 1..Len(s \o cut) : (s \o cut)[i] = (s \o q)[i]
    BY <1>1, <1>3, <1>4
<1>. QED
    BY <1>3, <1>5, PrefixElements DEF cut

\* A prefix of a sequence stays one when an element is added at the end.
LEMMA PrefixOfAppended ==
    ASSUME NEW S, NEW s \in Seq(S), NEW q \in Seq(S), NEW e \in S, IsPrefix(s, q)
    PROVE  IsPrefix(s, Append(q, e))
<1>1. /\ Len(s) \in Nat /\ Len(q) \in Nat /\ Append(q, e) \in Seq(S)
      /\ Len(Append(q, e)) = Len(q) + 1
      /\ \A i \in 1..Len(q) : Append(q, e)[i] = q[i]
    OBVIOUS
<1>2. Len(s) <= Len(q) /\ \A i \in 1..Len(s) : s[i] = q[i]
    BY PrefixElements
<1>3. Len(s) <= Len(Append(q, e)) /\ \A i \in 1..Len(s) : s[i] = Append(q, e)[i]
    <2>1. Len(s) <= Len(q) + 1 /\ \A i \in 1..Len(s) : i \in 1..Len(q)
        BY <1>1, <1>2
    <2>. QED
        BY <1>1, <1>2, <2>1
<1>. QED
    BY <1>1, <1>3, PrefixElements

LEMMA ElementsOfHooks == \A a \in Activities : ElementOf(a) \in Elements
BY DEF Activities, Elements, ElementOf

(***************************************************************************)
(* Types                                                                   *)
(***************************************************************************)

LEMMA InitHolds == Init => IInv
<1>. SUFFICES ASSUME Init PROVE IInv
    OBVIOUS
<1>1. TypeOK
    BY RuntimeAssumption DEF Init, TypeOK, Phases, Places, Activities
<1>2. MutexHeld
    BY DEF Init, MutexHeld
<1>3. ContainerHeld
    BY Owners DEF Init, ContainerHeld
<1>4. FlushedInOrder
    BY DEF Init, FlushedInOrder, IsPrefix
<1>5. HookTold
    BY DEF Init, HookTold
<1>6. EndedByHook
    BY DEF Init, EndedByHook
<1>7. FailedStops
    BY DEF Init, FailedStops
<1>. QED
    BY <1>1, <1>2, <1>3, <1>4, <1>5, <1>6, <1>7 DEF IInv

(***************************************************************************)
(* What every step leaves alone                                            *)
(***************************************************************************)

\* A step of a thread that moves to a place of the runtime, under an activity.
LEMMA EntersKeeps ==
    ASSUME TypeOK, NEW p \in Procs, NEW t \in Threads, NEW a \in Activities, Enters(p, t, a)
    PROVE  /\ at' \in [Procs -> [Threads -> Places]]
           /\ activity' \in [Procs -> [Threads -> Activities]]
           /\ at'[p][t] = "add" /\ activity'[p][t] = a
           /\ \A q \in Procs, u \in Threads :
                  q # p \/ u # t => at'[q][u] = at[q][u] /\ activity'[q][u] = activity[q][u]
<1>1. at \in [Procs -> [Threads -> Places]] /\ activity \in [Procs -> [Threads -> Activities]]
    BY DEF TypeOK
<1>2. at' = [at EXCEPT ![p][t] = "add"] /\ activity' = [activity EXCEPT ![p][t] = a]
    BY DEF Enters
<1>3. "add" \in Places
    BY DEF Places
<1>4. /\ at' \in [Procs -> [Threads -> Places]] /\ at'[p][t] = "add"
      /\ \A q \in Procs, u \in Threads : q # p \/ u # t => at'[q][u] = at[q][u]
    BY <1>1, <1>2, <1>3, OneMoves
<1>5. /\ activity' \in [Procs -> [Threads -> Activities]] /\ activity'[p][t] = a
      /\ \A q \in Procs, u \in Threads : q # p \/ u # t => activity'[q][u] = activity[q][u]
    BY <1>1, <1>2, OneMoves
<1>. QED
    BY <1>4, <1>5

\* A step of a thread that stays in its hook.
LEMMA MoveKeeps ==
    ASSUME TypeOK, NEW p \in Procs, NEW t \in Threads, NEW x \in Places,
           at' = [at EXCEPT ![p][t] = x]
    PROVE  /\ at' \in [Procs -> [Threads -> Places]]
           /\ at'[p][t] = x
           /\ \A q \in Procs, u \in Threads : q # p \/ u # t => at'[q][u] = at[q][u]
BY OneMoves DEF TypeOK

LEMMA AfterPushPlace == \A a : AfterPush(a) \in {"back", "flush"} /\ (a # "call" => AfterPush(a) = "flush")
BY DEF AfterPush

LEMMA TypeKept ==
    ASSUME TypeOK, [Next]_vars
    PROVE  TypeOK'
<1>. USE DEF TypeOK
<1>1. ASSUME NEW p \in Procs, Start(p) \/ Kill(p) PROVE TypeOK'
    BY <1>1 DEF Start, Kill, Phases, Dead, lock_vars, data_vars, env_vars
<1>2. ASSUME NEW p \in Procs, SignalEarly(p) PROVE TypeOK'
    <2>1. signals[p] + 1 \in 0..MaxSignals
        BY <1>2, RuntimeAssumption DEF SignalEarly
    <2>. QED
        BY <1>2, <2>1 DEF SignalEarly, Phases, Dead, lock_vars, data_vars
<1>3. ASSUME NEW p \in Procs, NEW t \in Threads, Call(p, t) PROVE TypeOK'
    <2>1. calls[p] + 1 \in 0..MaxCalls
        BY <1>3, RuntimeAssumption DEF Call
    <2>2. Enters(p, t, "call") /\ "call" \in Activities
        BY <1>3 DEF Call, Activities
    <2>. QED
        BY <1>3, <2>1, <2>2, EntersKeeps DEF Call, lock_vars, data_vars
<1>4. ASSUME NEW p \in Procs, NEW t \in Threads, Exit(p, t) PROVE TypeOK'
    <2>1. Enters(p, t, "terminate") /\ "terminate" \in Activities
        BY <1>4 DEF Exit, Begins, Activities
    <2>. QED
        BY <1>4, <2>1, EntersKeeps DEF Exit, Begins, lock_vars, data_vars, env_vars
<1>5. ASSUME NEW p \in Procs, NEW t \in Threads, Crash(p, t) PROVE TypeOK'
    <2>1. Enters(p, t, "crash") /\ "crash" \in Activities
        BY <1>5 DEF Crash, Begins, Activities
    <2>. QED
        BY <1>5, <2>1, EntersKeeps DEF Crash, Begins, lock_vars, data_vars, env_vars
<1>6. ASSUME NEW p \in Procs, NEW t \in Threads, Signal(p, t) PROVE TypeOK'
    <2>1. signals[p] + 1 \in 0..MaxSignals
        BY <1>6, RuntimeAssumption DEF Signal
    <2>2. Enters(p, t, "timeout") /\ "timeout" \in Activities
        BY <1>6 DEF Signal, Activities
    <2>. QED
        BY <1>6, <2>1, <2>2, EntersKeeps DEF Signal, lock_vars, data_vars
<1>7. ASSUME NEW p \in Procs, NEW t \in Threads, LockAdd(p, t) PROVE TypeOK'
    <2>1. at' = [at EXCEPT ![p][t] = "push"] /\ "push" \in Places
        BY <1>7 DEF LockAdd, Places
    <2>. QED
        BY <1>7, <2>1, MoveKeeps DEF LockAdd, data_vars, env_vars
<1>8. ASSUME NEW p \in Procs, NEW t \in Threads, Push(p, t) PROVE TypeOK'
    <2>1. at' = [at EXCEPT ![p][t] = AfterPush(activity[p][t])] /\ AfterPush(activity[p][t]) \in Places
        BY <1>8, AfterPushPlace DEF Push, Places
    <2>2. ElementOf(activity[p][t]) \in Elements
        BY ElementsOfHooks
    <2>. QED
        BY <1>8, <2>1, <2>2, MoveKeeps DEF Push, env_vars
<1>9. ASSUME NEW p \in Procs, NEW t \in Threads, LockFlush(p, t) PROVE TypeOK'
    <2>1. CASE buffer[p] = <<>>
        <3>1. at' = [at EXCEPT ![p][t] = "back"] /\ "back" \in Places
            BY <1>9, <2>1 DEF LockFlush, Places
        <3>. QED
            BY <1>9, <2>1, <3>1, MoveKeeps DEF LockFlush, data_vars, env_vars
    <2>2. CASE buffer[p] # <<>>
        <3>1. at' = [at EXCEPT ![p][t] = "append"] /\ "append" \in Places
            BY <1>9, <2>2 DEF LockFlush, Places
        <3>2. trace_owner' \in [Procs -> Threads \union {Nobody}]
            BY <1>9, <2>2 DEF LockFlush
        <3>3. at' \in [Procs -> [Threads -> Places]]
            BY <3>1, MoveKeeps
        <3>. QED
            BY <1>9, <3>2, <3>3 DEF LockFlush, data_vars, env_vars
    <2>. QED
        BY <2>1, <2>2
<1>10. ASSUME NEW p \in Procs, NEW t \in Threads, LockContainer(p, t) PROVE TypeOK'
    <2>1. at' = [at EXCEPT ![p][t] = "publish"] /\ "publish" \in Places
        BY <1>10 DEF LockContainer, Places
    <2>. QED
        BY <1>10, <2>1, MoveKeeps DEF LockContainer, data_vars, env_vars
<1>11. ASSUME NEW p \in Procs, NEW t \in Threads, Publish(p, t) PROVE TypeOK'
    <2>1. at' = [at EXCEPT ![p][t] = "back"] /\ "back" \in Places
        BY <1>11 DEF Publish, Places
    <2>2. list[p] \o buffer[p] \in Seq(Elements) /\ BufferLeft(p) \in Seq(Elements)
        BY DEF BufferLeft
    <2>. QED
        BY <1>11, <2>1, <2>2, MoveKeeps DEF Publish, Unlocked, env_vars
<1>12. ASSUME NEW p \in Procs, NEW t \in Threads, PublishThrows(p, t) PROVE TypeOK'
    <2>1. Enters(p, t, "crash") /\ "crash" \in Activities
        BY <1>12 DEF PublishThrows, Begins, Activities
    <2>2. PICK k \in 0..(Len(buffer[p]) - 1) :
              list' = [list EXCEPT ![p] = @ \o SubSeq(buffer[p], 1, k)]
        BY <1>12 DEF PublishThrows
    <2>3. list[p] \o SubSeq(buffer[p], 1, k) \in Seq(Elements)
        <3>1. buffer[p] \in Seq(Elements) /\ list[p] \in Seq(Elements) /\ k \in 0..Len(buffer[p])
            OBVIOUS
        <3>. QED
            BY <3>1
    <2>. QED
        BY <1>12, <2>1, <2>2, <2>3, EntersKeeps DEF PublishThrows, Begins, lock_vars, env_vars
<1>13. ASSUME NEW p \in Procs, NEW t \in Threads, Return(p, t) PROVE TypeOK'
    <2>1. CASE at' = [at EXCEPT ![p][t] = "code"] /\ UNCHANGED <<phase, activity, begun>>
        <3>1. "code" \in Places
            BY DEF Places
        <3>. QED
            BY <1>13, <2>1, <3>1, MoveKeeps DEF Return, lock_vars, data_vars, env_vars
    <2>2. CASE Begins(p, t, "terminate") /\ UNCHANGED phase
        <3>1. Enters(p, t, "terminate") /\ "terminate" \in Activities
            BY <2>2 DEF Begins, Activities
        <3>. QED
            BY <1>13, <2>2, <3>1, EntersKeeps DEF Return, Begins, lock_vars, data_vars, env_vars
    <2>3. CASE /\ phase' \in {[phase EXCEPT ![p] = "exited"], [phase EXCEPT ![p] = "crashed"]}
               /\ UNCHANGED <<at, activity, begun>>
        BY <1>13, <2>3 DEF Return, Phases, Dead, lock_vars, data_vars, env_vars
    <2>. QED
        BY <1>13, <2>1, <2>2, <2>3 DEF Return
<1>14. ASSUME FuzzerLocks PROVE TypeOK'
    BY <1>14 DEF FuzzerLocks, data_vars, env_vars
<1>15. ASSUME NEW p \in Procs, FuzzerFinds(p) PROVE TypeOK'
    BY <1>15 DEF FuzzerFinds, Unlocked, data_vars
<1>16. CASE UNCHANGED vars
    BY <1>16 DEF vars, lock_vars, data_vars, env_vars
<1>. QED
    BY <1>1, <1>2, <1>3, <1>4, <1>5, <1>6, <1>7, <1>8, <1>9, <1>10, <1>11, <1>12, <1>13, <1>14,
       <1>15, <1>16
    DEF Next, Target, Runtime, FuzzerSide

(***************************************************************************)
(* The mutexes, the trace and the end of a process                         *)
(***************************************************************************)

\* The ends a process comes to by itself.
Ended == {"exited", "crashed"}

\* The part of the invariant that is about where the threads are.
ThreadsInv == MutexHeld /\ ContainerHeld /\ HookTold /\ EndedByHook /\ FailedStops

\* Steps that move no thread and touch no trace.
LEMMA ElsewhereKeeps ==
    ASSUME ThreadsInv, UNCHANGED <<at, activity, trace_owner, data_vars>>,
           owner' = owner \/ owner' \notin Procs,
           \A p \in Procs : phase'[p] \in Ended => phase'[p] = phase[p]
    PROVE  ThreadsInv'
<1>1. MutexHeld' /\ ContainerHeld'
    BY DEF ThreadsInv, MutexHeld, ContainerHeld
<1>2. HookTold'
    BY DEF ThreadsInv, HookTold, data_vars
<1>3. EndedByHook'
    BY DEF ThreadsInv, EndedByHook, Ended
<1>4. FailedStops'
    BY DEF ThreadsInv, FailedStops, data_vars
<1>. QED
    BY <1>1, <1>2, <1>3, <1>4 DEF ThreadsInv

\* A hook or a handler starts, and leaves what its thread holds locked; it may be
\* because the segment was full.
LEMMA EnteringKeeps ==
    ASSUME TypeOK, ThreadsInv, NEW p \in Procs, NEW t \in Threads, NEW a \in Activities,
           phase[p] = "running", Enters(p, t, a), UNCHANGED <<phase, lock_vars, added>>,
           \A q \in Procs : failed'[q] = failed[q] \/ (q = p /\ trace_owner[p] = t),
           \A q \in Procs : ToSet(list[q]) \subseteq ToSet(list'[q])
    PROVE  ThreadsInv'
<1>1. /\ at'[p][t] = "add" /\ activity'[p][t] = a
      /\ \A q \in Procs, u \in Threads :
             q # p \/ u # t => at'[q][u] = at[q][u] /\ activity'[q][u] = activity[q][u]
    BY EntersKeeps
<1>2. MutexHeld'
    BY <1>1 DEF ThreadsInv, MutexHeld, lock_vars
<1>3. ContainerHeld'
    <2>. SUFFICES ASSUME NEW q \in Procs, owner' = q
                  PROVE  \E u \in Threads : trace_owner'[q] = u /\ at'[q][u] \in {"publish", "add"}
        BY DEF ContainerHeld
    <2>1. PICK u \in Threads : trace_owner[q] = u /\ at[q][u] \in {"publish", "add"}
        BY DEF ThreadsInv, ContainerHeld, lock_vars
    <2>2. at'[q][u] \in {"publish", "add"}
        BY <1>1, <2>1
    <2>. QED
        BY <2>1, <2>2 DEF lock_vars
<1>4. HookTold'
    <2>. SUFFICES ASSUME NEW q \in Procs, NEW u \in Threads, activity'[q][u] # "call"
                  PROVE  /\ at'[q][u] \in {"flush", "append", "publish"}
                                => ElementOf(activity'[q][u]) \in ToSet(added'[q])
                         /\ at'[q][u] = "back" => ElementOf(activity'[q][u]) \in ToSet(list'[q])
        BY DEF HookTold
    <2>1. CASE q = p /\ u = t
        BY <1>1, <2>1
    <2>2. CASE q # p \/ u # t
        <3>1. at'[q][u] = at[q][u] /\ activity'[q][u] = activity[q][u]
            BY <1>1, <2>2
        <3>. QED
            BY <3>1 DEF ThreadsInv, HookTold
    <2>. QED
        BY <2>1, <2>2
<1>5. EndedByHook'
    <2>. SUFFICES ASSUME NEW q \in Procs
                  PROVE  /\ phase[q] = "exited" =>
                                \E u \in Threads : /\ at'[q][u] = "back"
                                                   /\ activity'[q][u] \in {"terminate", "timeout"}
                         /\ phase[q] = "crashed" =>
                                \E u \in Threads : at'[q][u] = "back" /\ activity'[q][u] = "crash"
        BY DEF EndedByHook
    <2>1. CASE q = p
        BY <2>1
    <2>2. CASE q # p
        BY <1>1, <2>2 DEF ThreadsInv, EndedByHook
    <2>. QED
        BY <2>1, <2>2
<1>6. FailedStops'
    <2>. SUFFICES ASSUME NEW q \in Procs, failed'[q]
                  PROVE  /\ trace_owner[q] # Nobody
                         /\ \A u \in Threads : at'[q][u] \notin {"push", "append", "publish"}
        BY DEF FailedStops, lock_vars
    <2>1. CASE failed[q]
        BY <1>1, <2>1 DEF ThreadsInv, FailedStops
    <2>2. CASE q = p /\ trace_owner[p] = t
        BY <1>1, <2>2, Owners DEF ThreadsInv, MutexHeld
    <2>. QED
        BY <2>1, <2>2
<1>. QED
    BY <1>2, <1>3, <1>4, <1>5, <1>6 DEF ThreadsInv

\* A thread goes on within its hook: what has to hold of its new place.
Moves(p, t, x) ==
    /\ x \in Places
    /\ phase[p] = "running"
    /\ at' = [at EXCEPT ![p][t] = x]
    /\ UNCHANGED <<phase, activity, failed>>
    /\ \A q \in Procs : /\ ToSet(added[q]) \subseteq ToSet(added'[q])
                        /\ ToSet(list[q]) \subseteq ToSet(list'[q])
    /\ \A q \in Procs, u \in Threads :
           (q # p \/ u # t) /\ trace_owner[q] = u => trace_owner'[q] = u
    /\ x \in {"push", "append", "publish"} => trace_owner'[p] = t
    /\ \A q \in Procs : owner' = q => owner = q \/ (q = p /\ x = "publish")
    /\ owner' = p => x = "publish" \/ trace_owner[p] # t \/ at[p][t] \notin {"publish", "add"}
    /\ failed[p] => trace_owner' = trace_owner /\ x \notin {"push", "append", "publish"}
    /\ activity[p][t] # "call" =>
           /\ x \in {"flush", "append", "publish"}
                  => ElementOf(activity[p][t]) \in ToSet(added'[p])
           /\ x = "back" => ElementOf(activity[p][t]) \in ToSet(list'[p])

LEMMA MovingKeeps ==
    ASSUME TypeOK, ThreadsInv, NEW p \in Procs, NEW t \in Threads, NEW x, Moves(p, t, x)
    PROVE  ThreadsInv'
<1>0. x \in Places /\ at' = [at EXCEPT ![p][t] = x]
    BY DEF Moves
<1>1. /\ at'[p][t] = x
      /\ \A q \in Procs, u \in Threads : q # p \/ u # t => at'[q][u] = at[q][u]
    BY <1>0, MoveKeeps, ZenonT(60)
<1>. USE DEF Moves
<1>2. MutexHeld'
    <2>. SUFFICES ASSUME NEW q \in Procs, NEW u \in Threads,
                         at'[q][u] \in {"push", "append", "publish"}
                  PROVE  trace_owner'[q] = u
        BY DEF MutexHeld
    <2>1. CASE q = p /\ u = t
        BY <1>1, <2>1
    <2>2. CASE q # p \/ u # t
        BY <1>1, <2>2 DEF ThreadsInv, MutexHeld
    <2>. QED
        BY <2>1, <2>2
<1>3. ContainerHeld'
    <2>. SUFFICES ASSUME NEW q \in Procs, owner' = q
                  PROVE  \E u \in Threads : trace_owner'[q] = u /\ at'[q][u] \in {"publish", "add"}
        BY DEF ContainerHeld
    <2>1. CASE q = p /\ x = "publish"
        BY <1>1, <2>1
    <2>2. CASE ~(q = p /\ x = "publish")
        <3>1. owner = q
            BY <2>2
        <3>2. PICK u \in Threads : trace_owner[q] = u /\ at[q][u] \in {"publish", "add"}
            BY <3>1 DEF ThreadsInv, ContainerHeld
        <3>3. q # p \/ u # t
            BY <2>2, <3>2
        <3>. QED
            BY <1>1, <3>2, <3>3
    <2>. QED
        BY <2>1, <2>2
<1>4. HookTold'
    <2>. SUFFICES ASSUME NEW q \in Procs, NEW u \in Threads, activity[q][u] # "call"
                  PROVE  /\ at'[q][u] \in {"flush", "append", "publish"}
                                => ElementOf(activity[q][u]) \in ToSet(added'[q])
                         /\ at'[q][u] = "back" => ElementOf(activity[q][u]) \in ToSet(list'[q])
        BY DEF HookTold
    <2>1. CASE q = p /\ u = t
        BY <1>1, <2>1
    <2>2. CASE q # p \/ u # t
        BY <1>1, <2>2 DEF ThreadsInv, HookTold
    <2>. QED
        BY <2>1, <2>2
<1>5. EndedByHook'
    <2>. SUFFICES ASSUME NEW q \in Procs
                  PROVE  /\ phase[q] = "exited" =>
                                \E u \in Threads : /\ at'[q][u] = "back"
                                                   /\ activity[q][u] \in {"terminate", "timeout"}
                         /\ phase[q] = "crashed" =>
                                \E u \in Threads : at'[q][u] = "back" /\ activity[q][u] = "crash"
        BY DEF EndedByHook
    <2>1. CASE q = p
        BY <2>1
    <2>2. CASE q # p
        BY <1>1, <2>2 DEF ThreadsInv, EndedByHook
    <2>. QED
        BY <2>1, <2>2
<1>6. FailedStops'
    <2>. SUFFICES ASSUME NEW q \in Procs, failed[q]
                  PROVE  /\ trace_owner'[q] # Nobody
                         /\ \A u \in Threads : at'[q][u] \notin {"push", "append", "publish"}
        BY DEF FailedStops
    <2>1. CASE q = p
        BY <1>1, <2>1 DEF ThreadsInv, FailedStops
    <2>2. CASE q # p
        <3>1. PICK u \in Threads : trace_owner[q] = u
            BY DEF ThreadsInv, FailedStops, TypeOK
        <3>. QED
            BY <1>1, <2>2, <3>1, Owners DEF ThreadsInv, FailedStops
    <2>. QED
        BY <2>1, <2>2
<1>. QED
    BY <1>2, <1>3, <1>4, <1>5, <1>6 DEF ThreadsInv

LEMMA ThreadsKept ==
    ASSUME TypeOK, FlushedInOrder, ThreadsInv, [Next]_vars
    PROVE  ThreadsInv'
<1>1. ASSUME NEW p \in Procs, Start(p) \/ SignalEarly(p) \/ Kill(p) PROVE ThreadsInv'
    <2>1. UNCHANGED <<at, activity, trace_owner, owner, data_vars>>
        BY <1>1 DEF Start, SignalEarly, Kill, lock_vars
    <2>2. phase' \in {[phase EXCEPT ![p] = "running"], [phase EXCEPT ![p] = "killed"]}
        BY <1>1 DEF Start, SignalEarly, Kill
    <2>3. \A q \in Procs : phase'[q] \in Ended => phase'[q] = phase[q]
        BY <2>2 DEF TypeOK, Ended
    <2>. QED
        BY <2>1, <2>3, ElsewhereKeeps
<1>2. ASSUME NEW p \in Procs, NEW t \in Threads, Target(p, t) PROVE ThreadsInv'
    <2>1. PICK a \in {"call", "terminate", "crash", "timeout"} : Enters(p, t, a)
        BY <1>2 DEF Target, Call, Exit, Crash, Signal, Begins
    <2>2. phase[p] = "running" /\ UNCHANGED <<phase, lock_vars, data_vars>>
        BY <1>2 DEF Target, Call, Exit, Crash, Signal, env_vars
    <2>3. a \in Activities
        BY <2>1 DEF Activities
    <2>. QED
        BY <2>1, <2>2, <2>3, EnteringKeeps, Zenon DEF data_vars
<1>3. ASSUME NEW p \in Procs, NEW t \in Threads, LockAdd(p, t) PROVE ThreadsInv'
    <2>1. /\ phase[p] = "running" /\ at' = [at EXCEPT ![p][t] = "push"] /\ "push" \in Places
          /\ UNCHANGED <<phase, activity, failed, added, list, owner>>
        BY <1>3 DEF LockAdd, Places, data_vars
    <2>2. trace_owner' = [trace_owner EXCEPT ![p] = t] /\ trace_owner[p] = Nobody
        BY <1>3 DEF LockAdd, TraceMutexFree
    <2>3. trace_owner'[p] = t
        BY <2>2 DEF TypeOK
    <2>4. \A q \in Procs, u \in Threads : trace_owner[q] = u => trace_owner'[q] = u
        BY <2>2, Owners DEF TypeOK
    <2>5. trace_owner[p] # t
        BY <2>2, Owners
    <2>6. ~failed[p]
        BY <2>2 DEF ThreadsInv, FailedStops
    <2>7. Moves(p, t, "push")
        BY <2>1, <2>3, <2>4, <2>5, <2>6 DEF Moves
    <2>. QED
        BY <2>7, MovingKeeps
<1>4. ASSUME NEW p \in Procs, NEW t \in Threads, Push(p, t) PROVE ThreadsInv'
    <2>. DEFINE a == activity[p][t]
                x == AfterPush(a)
    <2>1. /\ phase[p] = "running" /\ at[p][t] = "push" /\ at' = [at EXCEPT ![p][t] = x]
          /\ UNCHANGED <<phase, activity, failed, list, owner>>
        BY <1>4 DEF Push
    <2>2. /\ trace_owner' = [trace_owner EXCEPT ![p] = Nobody]
          /\ added' = [added EXCEPT ![p] = Append(@, ElementOf(a))]
        BY <1>4 DEF Push
    <2>3. /\ x \in {"back", "flush"} /\ x \in Places /\ (a # "call" => x = "flush")
        BY AfterPushPlace DEF Places
    <2>4. a \in Activities /\ ElementOf(a) \in Elements
        BY ElementsOfHooks DEF TypeOK
    <2>5. ToSet(added'[p]) = ToSet(added[p]) \union {ElementOf(a)}
        <3>1. added[p] \in Seq(Elements) /\ added'[p] = Append(added[p], ElementOf(a))
            BY <2>2 DEF TypeOK
        <3>. QED
            BY <2>4, <3>1, AppendedToSet
    <2>6. \A q \in Procs : ToSet(added[q]) \subseteq ToSet(added'[q])
        <3>1. \A q \in Procs : q # p => added'[q] = added[q]
            BY <2>2 DEF TypeOK
        <3>. QED
            BY <2>5, <3>1
    <2>7. trace_owner[p] = t
        BY <2>1 DEF ThreadsInv, MutexHeld
    <2>8. \A q \in Procs, u \in Threads :
              (q # p \/ u # t) /\ trace_owner[q] = u => trace_owner'[q] = u
        BY <2>7, <2>2 DEF TypeOK
    <2>9. /\ x = "flush" \/ (x = "back" /\ activity[p][t] = "call")
          /\ ElementOf(activity[p][t]) \in ToSet(added'[p])
        BY <2>3, <2>5
    <2>10. x \in Places
        BY <2>3
    <2>f. ~failed[p]
        BY <2>1 DEF ThreadsInv, FailedStops
    <2>. HIDE DEF a, x
    <2>11. Moves(p, t, x)
        BY <2>1, <2>6, <2>8, <2>9, <2>10, <2>f DEF Moves
    <2>. QED
        BY <2>11, MovingKeeps
<1>5. ASSUME NEW p \in Procs, NEW t \in Threads, LockFlush(p, t) PROVE ThreadsInv'
    <2>1. /\ phase[p] = "running" /\ at[p][t] = "flush" /\ trace_owner[p] = Nobody
          /\ UNCHANGED <<phase, activity, failed, added, list, buffer, owner>>
        BY <1>5 DEF LockFlush, TraceMutexFree, data_vars
    <2>2. trace_owner[p] # t
        BY <2>1, Owners
    <2>3. /\ ~failed[p]
          /\ activity[p][t] # "call" => ElementOf(activity[p][t]) \in ToSet(added[p])
        BY <2>1 DEF ThreadsInv, HookTold, FailedStops
    <2>4. CASE buffer[p] = <<>>
        <3>1. /\ at' = [at EXCEPT ![p][t] = "back"] /\ "back" \in Places
              /\ trace_owner' = trace_owner
            BY <1>5, <2>4 DEF LockFlush, Places
        <3>2. added[p] = list[p]
            <4>1. list[p] \in Seq(Elements)
                BY DEF TypeOK
            <4>2. list[p] \o buffer[p] = added[p]
                BY <2>3 DEF FlushedInOrder
            <4>3. list[p] \o <<>> = list[p]
                BY <4>1, ConcatenatedEmpty
            <4>. QED
                BY <2>4, <4>2, <4>3
        <3>3. Moves(p, t, "back")
            BY <2>1, <2>2, <2>3, <3>1, <3>2 DEF Moves
        <3>. QED
            BY <3>3, MovingKeeps
    <2>5. CASE buffer[p] # <<>>
        <3>1. at' = [at EXCEPT ![p][t] = "append"] /\ "append" \in Places
            BY <1>5, <2>5 DEF LockFlush, Places
        <3>2. trace_owner' = [trace_owner EXCEPT ![p] = t]
            BY <1>5, <2>5 DEF LockFlush
        <3>3. trace_owner'[p] = t
            BY <3>2 DEF TypeOK
        <3>4. \A q \in Procs, u \in Threads : trace_owner[q] = u => trace_owner'[q] = u
            BY <2>1, <3>2, Owners DEF TypeOK
        <3>5. Moves(p, t, "append")
            BY <2>1, <2>2, <2>3, <3>1, <3>3, <3>4 DEF Moves
        <3>. QED
            BY <3>5, MovingKeeps
    <2>. QED
        BY <2>4, <2>5
<1>6. ASSUME NEW p \in Procs, NEW t \in Threads, LockContainer(p, t) PROVE ThreadsInv'
    <2>1. /\ phase[p] = "running" /\ at[p][t] = "append"
          /\ at' = [at EXCEPT ![p][t] = "publish"] /\ "publish" \in Places
          /\ owner' = p
          /\ UNCHANGED <<phase, activity, failed, added, list, trace_owner>>
        BY <1>6 DEF LockContainer, Places, data_vars
    <2>2. trace_owner[p] = t
        BY <2>1 DEF ThreadsInv, MutexHeld
    <2>3. /\ ~failed[p]
          /\ activity[p][t] # "call" => ElementOf(activity[p][t]) \in ToSet(added[p])
        BY <2>1 DEF ThreadsInv, HookTold, FailedStops
    <2>4. Moves(p, t, "publish")
        BY <2>1, <2>2, <2>3 DEF Moves
    <2>. QED
        BY <2>4, MovingKeeps
<1>7. ASSUME NEW p \in Procs, NEW t \in Threads, Publish(p, t) PROVE ThreadsInv'
    <2>1. /\ phase[p] = "running" /\ at[p][t] = "publish"
          /\ at' = [at EXCEPT ![p][t] = "back"] /\ "back" \in Places
          /\ owner' = Nobody
          /\ UNCHANGED <<phase, activity, failed, added>>
        BY <1>7 DEF Publish, Unlocked, Places
    <2>2. /\ list' = [list EXCEPT ![p] = @ \o buffer[p]]
          /\ trace_owner' = [trace_owner EXCEPT ![p] = Nobody]
        BY <1>7 DEF Publish
    <2>3. trace_owner[p] = t
        BY <2>1 DEF ThreadsInv, MutexHeld
    <2>4. \A q \in Procs, u \in Threads :
              (q # p \/ u # t) /\ trace_owner[q] = u => trace_owner'[q] = u
        BY <2>3, <2>2 DEF TypeOK
    <2>5. list'[p] = list[p] \o buffer[p] /\ \A q \in Procs : q # p => list'[q] = list[q]
        BY <2>2 DEF TypeOK
    <2>6. \A q \in Procs : ToSet(list[q]) \subseteq ToSet(list'[q])
        <3>1. list[p] \in Seq(Elements) /\ buffer[p] \in Seq(Elements)
            BY DEF TypeOK
        <3>2. ToSet(list[p]) \subseteq ToSet(list'[p])
            BY <2>5, <3>1, ConcatenatedToSet
        <3>. QED
            BY <2>5, <3>2
    <2>7. /\ ~failed[p]
          /\ activity[p][t] # "call" => ElementOf(activity[p][t]) \in ToSet(list'[p])
        <3>1. ~failed[p]
            BY <2>1 DEF ThreadsInv, FailedStops
        <3>2. list'[p] = added[p]
            BY <2>5, <3>1 DEF FlushedInOrder
        <3>. QED
            BY <2>1, <3>1, <3>2 DEF ThreadsInv, HookTold
    <2>8. \A q \in Procs : owner' # q
        BY <2>1, Owners
    <2>9. Moves(p, t, "back")
        BY <2>1, <2>4, <2>6, <2>7, <2>8 DEF Moves
    <2>. QED
        BY <2>9, MovingKeeps
<1>8. ASSUME NEW p \in Procs, NEW t \in Threads, PublishThrows(p, t) PROVE ThreadsInv'
    <2>1. /\ phase[p] = "running" /\ Enters(p, t, "crash") /\ "crash" \in Activities
          /\ UNCHANGED <<phase, lock_vars, added>>
          /\ failed' = [failed EXCEPT ![p] = TRUE]
        BY <1>8 DEF PublishThrows, Begins, Activities
    <2>2. PICK k \in 0..(Len(buffer[p]) - 1) :
              list' = [list EXCEPT ![p] = @ \o SubSeq(buffer[p], 1, k)]
        BY <1>8 DEF PublishThrows
    <2>3. \A q \in Procs : q # p => list'[q] = list[q]
        BY <2>2 DEF TypeOK
    <2>4. trace_owner[p] = t /\ \A q \in Procs : q # p => failed'[q] = failed[q]
        BY <1>8, <2>1 DEF TypeOK, PublishThrows, ThreadsInv, MutexHeld
    <2>5. ToSet(list[p]) \subseteq ToSet(list'[p])
        <3>1. /\ list[p] \in Seq(Elements) /\ SubSeq(buffer[p], 1, k) \in Seq(Elements)
              /\ list'[p] = list[p] \o SubSeq(buffer[p], 1, k)
            <4>1. buffer[p] \in Seq(Elements) /\ k \in 0..Len(buffer[p])
                BY DEF TypeOK
            <4>. QED
                BY <2>2, <4>1, SMTT(30) DEF TypeOK
        <3>. QED
            BY <3>1, ConcatenatedToSet
    <2>6. \A q \in Procs : failed'[q] = failed[q] \/ (q = p /\ trace_owner[p] = t)
        BY <2>4
    <2>7. \A q \in Procs : ToSet(list[q]) \subseteq ToSet(list'[q])
        BY <2>3, <2>5
    <2>. QED
        BY <2>1, <2>6, <2>7, EnteringKeeps
<1>9. ASSUME NEW p \in Procs, NEW t \in Threads, Return(p, t) PROVE ThreadsInv'
    <2>1. phase[p] = "running" /\ at[p][t] = "back" /\ UNCHANGED <<lock_vars, data_vars>>
        BY <1>9 DEF Return
    <2>2. CASE at' = [at EXCEPT ![p][t] = "code"] /\ UNCHANGED <<phase, activity>>
        <3>1. "code" \in Places /\ UNCHANGED <<trace_owner, owner, failed, added, list>>
            BY <2>1 DEF Places, lock_vars, data_vars
        <3>2. Moves(p, t, "code")
            BY <2>1, <2>2, <3>1 DEF Moves
        <3>. QED
            BY <3>2, MovingKeeps
    <2>3. CASE Begins(p, t, "terminate") /\ UNCHANGED phase
        <3>1. Enters(p, t, "terminate") /\ "terminate" \in Activities
            BY <2>3 DEF Begins, Activities
        <3>. QED
            BY <2>1, <2>3, <3>1, EnteringKeeps DEF data_vars
    <2>4. CASE /\ \/ activity[p][t] \in {"terminate", "timeout"} /\ phase' = [phase EXCEPT ![p] = "exited"]
                  \/ activity[p][t] = "crash" /\ phase' = [phase EXCEPT ![p] = "crashed"]
               /\ UNCHANGED <<at, activity>>
        <3>1. UNCHANGED <<trace_owner, owner, failed, added, list>>
            BY <2>1 DEF lock_vars, data_vars
        <3>2. MutexHeld' /\ ContainerHeld' /\ HookTold' /\ FailedStops'
            BY <2>4, <3>1 DEF ThreadsInv, MutexHeld, ContainerHeld, HookTold, FailedStops
        <3>3. EndedByHook'
            <4>1. \A q \in Procs : q # p => phase'[q] = phase[q]
                BY <2>4 DEF TypeOK
            <4>2. phase'[p] \in {"exited", "crashed"}
                BY <2>4 DEF TypeOK
            <4>3. phase'[p] = "exited" => activity[p][t] \in {"terminate", "timeout"}
                BY <2>4 DEF TypeOK
            <4>4. phase'[p] = "crashed" => activity[p][t] = "crash"
                BY <2>4 DEF TypeOK
            <4>. QED
                BY <2>1, <2>4, <4>1, <4>3, <4>4 DEF ThreadsInv, EndedByHook
        <3>. QED
            BY <3>2, <3>3 DEF ThreadsInv
    <2>. QED
        BY <1>9, <2>2, <2>3, <2>4 DEF Return
<1>10. ASSUME FuzzerSide PROVE ThreadsInv'
    <2>1. UNCHANGED <<at, activity, trace_owner, data_vars, phase>> /\ owner' \in {Fuzzer, Nobody}
        BY <1>10 DEF FuzzerSide, FuzzerLocks, FuzzerFinds, Unlocked
    <2>2. owner' \notin Procs
        BY <2>1, Owners
    <2>. QED
        BY <2>1, <2>2, ElsewhereKeeps
<1>11. CASE UNCHANGED vars
    BY <1>11, ElsewhereKeeps DEF vars, lock_vars
<1>. QED
    BY <1>1, <1>2, <1>3, <1>4, <1>5, <1>6, <1>7, <1>8, <1>9, <1>10, <1>11 DEF Next, Runtime

\* Only a push, a flush and a full segment touch the trace.
LEMMA TraceKept ==
    ASSUME TypeOK, FlushedInOrder, ThreadsInv, [Next]_vars
    PROVE  FlushedInOrder'
<1>1. CASE UNCHANGED <<list, buffer, added, failed>>
    BY <1>1 DEF FlushedInOrder
<1>2. ASSUME NEW p \in Procs, NEW t \in Threads, Push(p, t) PROVE FlushedInOrder'
    <2>. DEFINE e == ElementOf(activity[p][t])
    <2>1. /\ buffer' = [buffer EXCEPT ![p] = Append(@, e)]
          /\ added' = [added EXCEPT ![p] = Append(@, e)]
          /\ UNCHANGED <<list, failed>>
        BY <1>2 DEF Push
    <2>2. e \in Elements
        BY ElementsOfHooks DEF TypeOK
    <2>3. list[p] \in Seq(Elements) /\ buffer[p] \in Seq(Elements)
        BY DEF TypeOK
    <2>. HIDE DEF e
    <2>4. list[p] \o Append(buffer[p], e) = Append(list[p] \o buffer[p], e)
        BY <2>2, <2>3, PushedElement, Zenon
    <2>5. /\ buffer'[p] = Append(buffer[p], e) /\ added'[p] = Append(added[p], e)
          /\ \A q \in Procs : q # p => buffer'[q] = buffer[q] /\ added'[q] = added[q]
        BY <2>1 DEF TypeOK
    <2>6. IsPrefix(list[p], added'[p])
        <3>1. IsPrefix(list[p], added[p]) /\ added[p] \in Seq(Elements)
            BY DEF FlushedInOrder, TypeOK
        <3>. QED
            BY <2>2, <2>3, <2>5, <3>1, PrefixOfAppended
    <2>. QED
        BY <2>1, <2>4, <2>5, <2>6 DEF FlushedInOrder
<1>3. ASSUME NEW p \in Procs, NEW t \in Threads, Publish(p, t) PROVE FlushedInOrder'
    <2>1. /\ list' = [list EXCEPT ![p] = @ \o buffer[p]] /\ buffer' = [buffer EXCEPT ![p] = <<>>]
          /\ UNCHANGED <<added, failed>>
        BY <1>3 DEF Publish, BufferLeft
    <2>2. list[p] \in Seq(Elements) /\ buffer[p] \in Seq(Elements)
        BY DEF TypeOK
    <2>3. (list[p] \o buffer[p]) \o <<>> = list[p] \o buffer[p]
        <3>1. list[p] \o buffer[p] \in Seq(Elements)
            BY <2>2
        <3>. QED
            BY <3>1, ConcatenatedEmpty
    <2>4. /\ list'[p] = list[p] \o buffer[p] /\ buffer'[p] = <<>>
          /\ \A q \in Procs : q # p => list'[q] = list[q] /\ buffer'[q] = buffer[q]
        BY <2>1 DEF TypeOK
    <2>5. list'[p] = added[p]
        <3>1. ~failed[p]
            BY <1>3 DEF Publish, ThreadsInv, FailedStops
        <3>. QED
            BY <2>4, <3>1 DEF FlushedInOrder
    <2>6. IsPrefix(added[p], added[p])
        <3>1. added[p] \in Seq(Elements)
            BY DEF TypeOK
        <3>2. Len(added[p]) <= Len(added[p])
            BY <3>1
        <3>. QED
            BY <3>2 DEF IsPrefix
    <2>. QED
        BY <2>1, <2>3, <2>4, <2>5, <2>6 DEF FlushedInOrder
<1>4. ASSUME NEW p \in Procs, NEW t \in Threads, PublishThrows(p, t) PROVE FlushedInOrder'
    <2>1. failed' = [failed EXCEPT ![p] = TRUE] /\ UNCHANGED <<buffer, added>>
        BY <1>4 DEF PublishThrows
    <2>2. PICK k \in 0..(Len(buffer[p]) - 1) :
              list' = [list EXCEPT ![p] = @ \o SubSeq(buffer[p], 1, k)]
        BY <1>4 DEF PublishThrows
    <2>3. /\ failed'[p]
          /\ \A q \in Procs : q # p => failed'[q] = failed[q] /\ list'[q] = list[q]
        BY <2>1, <2>2 DEF TypeOK
    <2>4. IsPrefix(list'[p], added[p])
        <3>1. list'[p] = list[p] \o SubSeq(buffer[p], 1, k) /\ k \in 0..Len(buffer[p])
              /\ list[p] \in Seq(Elements) /\ buffer[p] \in Seq(Elements)
            BY <2>2 DEF TypeOK
        <3>2. added[p] = list[p] \o buffer[p]
            BY <1>4 DEF PublishThrows, ThreadsInv, FailedStops, FlushedInOrder
        <3>. QED
            BY <3>1, <3>2, PrefixOfConcatenation
    <2>. QED
        BY <2>1, <2>3, <2>4 DEF FlushedInOrder
<1>5. \/ UNCHANGED <<list, buffer, added, failed>>
      \/ \E p \in Procs, t \in Threads : Push(p, t) \/ Publish(p, t) \/ PublishThrows(p, t)
    BY DEF Next, Start, SignalEarly, Kill, Target, Call, Exit, Crash, Signal, Runtime, LockAdd,
           LockFlush, LockContainer, Return, FuzzerSide, FuzzerLocks, FuzzerFinds, vars, data_vars
<1>. QED
    BY <1>1, <1>2, <1>3, <1>4, <1>5

LEMMA Invariance == Spec => []IInv
<1>1. IInv /\ [Next]_vars => IInv'
    BY TypeKept, ThreadsKept, TraceKept DEF IInv, ThreadsInv
<1>. QED
    BY <1>1, InitHolds, PTL DEF Spec

(***************************************************************************)
(* Theorems                                                                *)
(***************************************************************************)

\* The variables keep their types: what is in a buffer or in the container is what
\* a hook adds, and only threads hold trace_mutex (runtime.cpp:113-135, 173-296).
THEOREM RuntimeTypeCorrect == Spec => []TypeOK
<1>1. IInv => TypeOK
    BY DEF IInv
<1>. QED
    BY <1>1, Invariance, PTL

\* What threads push reaches the container in order and once
\* (runtime.cpp:113-135).
THEOREM TraceInOrder == Spec => []FlushedInOrder
<1>1. IInv => FlushedInOrder
    BY DEF IInv
<1>. QED
    BY <1>1, Invariance, PTL

\* The container tells how a process has ended that ended by itself
\* (runtime.cpp:137-171, 286-296).
THEOREM OutcomeIsTold == Spec => []OutcomeTold
<1>1. IInv => OutcomeTold
    <2>. SUFFICES ASSUME IInv, NEW p \in Procs
                  PROVE  /\ phase[p] = "exited" => {"TERMINATED", "TIMEDOUT"} \intersect ToSet(list[p]) # {}
                         /\ phase[p] = "crashed" => "CRASHED" \in ToSet(list[p])
        BY DEF OutcomeTold
    <2>1. CASE phase[p] = "exited"
        <3>1. PICK t \in Threads : at[p][t] = "back" /\ activity[p][t] \in {"terminate", "timeout"}
            BY <2>1 DEF IInv, EndedByHook
        <3>2. ElementOf(activity[p][t]) \in ToSet(list[p])
            BY <3>1 DEF IInv, HookTold
        <3>3. ElementOf(activity[p][t]) \in {"TERMINATED", "TIMEDOUT"}
            BY <3>1 DEF ElementOf
        <3>. QED
            BY <2>1, <3>2, <3>3
    <2>2. CASE phase[p] = "crashed"
        <3>1. PICK t \in Threads : at[p][t] = "back" /\ activity[p][t] = "crash"
            BY <2>2 DEF IInv, EndedByHook
        <3>2. ElementOf("crash") \in ToSet(list[p])
            BY <3>1 DEF IInv, HookTold
        <3>. QED
            BY <2>2, <3>2 DEF ElementOf
    <2>. QED
        BY <2>1, <2>2
<1>. QED
    BY <1>1, Invariance, PTL

\* A process that ends by itself and leaves the container locked has a second
\* thread, which holds trace_mutex (runtime.cpp:113-125, 155-171).
THEOREM LeftLockedBySecondThread == Spec => []LeftLockedByOther
<1>1. IInv => LeftLockedByOther
    <2>. SUFFICES ASSUME IInv, NEW p \in Procs, owner = p, phase[p] \in {"exited", "crashed"}
                  PROVE  \E t, u \in Threads : t # u /\ trace_owner[p] = t /\ at[p][u] = "back"
        BY DEF LeftLockedByOther
    <2>1. PICK t \in Threads : trace_owner[p] = t /\ at[p][t] \in {"publish", "add"}
        BY DEF IInv, ContainerHeld
    <2>2. PICK u \in Threads : at[p][u] = "back"
        BY DEF IInv, EndedByHook
    <2>. QED
        BY <2>1, <2>2
<1>. QED
    BY <1>1, Invariance, PTL

=============================================================================
