------------------------------- MODULE UiQueues -------------------------------
(***************************************************************************)
(* What the main loop tells the UI: each testcase it launches, and after a *)
(* generation the testcases that have crashed (handler.cpp); and the UI's   *)
(* queue reader, which stores the one and summarises the other (handler.cpp *)
(* and UIDataStore, UICrashSummarization of ui.cpp). Two threads, and two   *)
(* queues that are meant for one producer and one consumer each.            *)
(*                                                                         *)
(* The crash analyzer marks testcases at any time; see CrashFiles for how. *)
(***************************************************************************)
EXTENDS Naturals, FiniteSets, Sequences

CONSTANTS
    MaxTestcases,      \* bound: testcases of the campaign
    GenerationSize,
    Capacity,          \* of the queues
    MaxPutFailures     \* bound: insertions the database does not take

ASSUME UiQueuesAssumption ==
    /\ {MaxTestcases, MaxPutFailures} \subseteq Nat
    /\ {GenerationSize, Capacity} \subseteq Nat \ {0}

VARIABLES
    errored,                          \* the UI could not start, or is disabled
    pc, launched, current_testcase_ids, crashing_testcase_ids,  \* the main loop
    crashers,                         \* the analyzer's Bloom filter
    slot, read, written, loaded,      \* testcase_queue
    refused, overlapped,              \* history of its pushes
    ind, store, put_failures,         \* the queue reader's own, the data store
    crashing_queue, delay_processing, summarised

main_vars == <<launched, current_testcase_ids, crashing_testcase_ids>>
push_vars == <<slot, written, loaded, refused, overlapped>>
store_vars == <<ind, store, put_failures>>
summary_vars == <<delay_processing, summarised>>
vars == <<errored, pc, main_vars, crashers, push_vars, read, store_vars, crashing_queue, summary_vars>>

Testcases == 1..MaxTestcases
MaxPushes == MaxTestcases + MaxPutFailures
Producers == {"main", "queue reader"}

TypeOK ==
    /\ errored \in BOOLEAN
    /\ pc \in {"launch", "push", "call", "ask"}
    /\ launched \in 0..MaxTestcases
    /\ {current_testcase_ids, crashing_testcase_ids, crashers} \subseteq SUBSET Testcases
    /\ slot \in [1..MaxPushes -> 0..MaxTestcases]
    /\ {read, written} \subseteq 0..MaxPushes
    /\ loaded \in [Producers -> 0..MaxPushes]
    /\ overlapped \in BOOLEAN
    /\ {refused, store, delay_processing} \subseteq SUBSET Testcases
    /\ ind \in 0..MaxTestcases
    /\ put_failures \in 0..MaxPutFailures
    /\ crashing_queue \in Seq(SUBSET Testcases) /\ Len(crashing_queue) <= Capacity
    /\ summarised \in [Testcases -> Nat]

\* The server starts, or fails to, before any thread looks at it.
Init ==
    /\ errored \in BOOLEAN
    /\ pc = "launch" /\ launched = 0
    /\ current_testcase_ids = {} /\ crashing_testcase_ids = {} /\ crashers = {}
    /\ slot = [i \in 1..MaxPushes |-> 0] /\ read = 0 /\ written = 0
    /\ loaded = [p \in Producers |-> 0]
    /\ refused = {} /\ overlapped = FALSE
    /\ ind = 0 /\ store = {} /\ put_failures = 0
    /\ crashing_queue = <<>> /\ delay_processing = {}
    /\ summarised = [t \in Testcases |-> 0]

-----------------------------------------------------------------------------
\* push() loads the write index, and is refused where the queue is full; then
\* it writes the element and stores the index that follows the one it loaded.
Full == written - read >= Capacity
\* Mutant: it skips one.
LoadIndexAfter(producer) == loaded' = [loaded EXCEPT ![producer] = written + 2]
LoadIndex(producer) == loaded' = [loaded EXCEPT ![producer] = written + 1]
StoreElement(producer, t) ==
    /\ slot' = [slot EXCEPT ![loaded[producer]] = t]
    /\ written' = loaded[producer]
    /\ loaded' = [loaded EXCEPT ![producer] = 0]
    /\ overlapped' = (overlapped \/ loaded[producer] # written + 1)
    /\ UNCHANGED refused

-----------------------------------------------------------------------------
\* The main loop. Nobody looks at what push() returns.
PushTestcase ==
    /\ pc = "launch" /\ launched < MaxTestcases
    /\ launched' = launched + 1
    /\ IF Full
       THEN refused' = refused \union {launched + 1} /\ pc' = "call" /\ UNCHANGED loaded
       ELSE LoadIndex("main") /\ pc' = "push" /\ UNCHANGED refused
    /\ UNCHANGED <<errored, current_testcase_ids, crashing_testcase_ids, crashers, slot, written,
                   overlapped, read, store_vars, crashing_queue, summary_vars>>

FinishPush ==
    /\ pc = "push"
    /\ StoreElement("main", launched)
    /\ pc' = "call"
    /\ UNCHANGED <<errored, main_vars, crashers, read, store_vars, crashing_queue, summary_vars>>

\* commander->call(), which may fail: the id is not gathered then.
Call ==
    /\ pc = "call"
    /\ current_testcase_ids' \in {current_testcase_ids, current_testcase_ids \union {launched}}
    /\ pc' = IF launched % GenerationSize = 0 \/ launched = MaxTestcases
             THEN "ask" ELSE "launch"
    /\ UNCHANGED <<errored, launched, crashing_testcase_ids, crashers, push_vars, read, store_vars,
                   crashing_queue, summary_vars>>

\* set_is_crashing(), by the analyzer: at any time after the launch, also after
\* the generation.
MarkCrashing(t) ==
    /\ t <= launched /\ t \notin crashers
    /\ crashers' = crashers \union {t}
    /\ UNCHANGED <<errored, pc, main_vars, push_vars, read, store_vars, crashing_queue,
                   summary_vars>>

\* is_crashing(), in a Bloom filter: it may take a testcase that is not there
\* for one that is.
AskCrashing(t) ==
    /\ pc = "ask"
    /\ t \in current_testcase_ids /\ \A u \in current_testcase_ids : t <= u
    /\ current_testcase_ids' = current_testcase_ids \ {t}
    /\ \/ crashing_testcase_ids' = crashing_testcase_ids \union {t}
       \/ t \notin crashers /\ UNCHANGED crashing_testcase_ids
    /\ UNCHANGED <<errored, pc, launched, crashers, push_vars, read, store_vars, crashing_queue,
                   summary_vars>>

Report ==
    /\ pc = "ask" /\ current_testcase_ids = {}
    /\ \/ /\ crashing_testcase_ids # {} /\ Len(crashing_queue) < Capacity
          /\ crashing_queue' = Append(crashing_queue, crashing_testcase_ids)
       \/ /\ crashing_testcase_ids = {} \/ Len(crashing_queue) = Capacity
          /\ UNCHANGED crashing_queue
    /\ crashing_testcase_ids' = {}
    /\ pc' = "launch"
    /\ UNCHANGED <<errored, launched, current_testcase_ids, crashers, push_vars, read, store_vars,
                   summary_vars>>

-----------------------------------------------------------------------------
\* The queue reader. It looks at the queues in turn; any order is allowed here.
\* Where the server is errored it pops nothing, and where the UI is disabled it
\* does not run: the queues fill up.
\* A write index that is behind the read index would be undefined; nothing is
\* read then.
PopTestcase ==
    /\ ~errored /\ ind = 0 /\ read < written
    /\ read' = read + 1
    /\ ind' = slot[read + 1]
    /\ UNCHANGED <<errored, pc, main_vars, crashers, push_vars, store, put_failures, crashing_queue,
                   summary_vars>>

Put ==
    /\ ind # 0 /\ loaded["queue reader"] = 0
    /\ store' = store \union {ind}
    /\ ind' = 0
    /\ UNCHANGED <<errored, pc, main_vars, crashers, push_vars, read, put_failures, crashing_queue,
                   summary_vars>>

\* The database does not take the testcase: it is added back to the queue,
\* where that is not full.
PutFails ==
    /\ ind # 0 /\ loaded["queue reader"] = 0
    /\ put_failures < MaxPutFailures
    /\ put_failures' = put_failures + 1
    /\ IF Full
       THEN refused' = refused \union {ind} /\ ind' = 0 /\ UNCHANGED loaded
       ELSE LoadIndex("queue reader") /\ UNCHANGED <<ind, refused>>
    /\ UNCHANGED <<errored, pc, main_vars, crashers, slot, written, overlapped, read, store,
                   crashing_queue, summary_vars>>

\* Mutant: the testcase is not added back.
GiveUp ==
    /\ loaded' = [loaded EXCEPT !["queue reader"] = 0]
    /\ UNCHANGED <<slot, written, refused, overlapped>>
PushBack == StoreElement("queue reader", ind)

FinishPushBack ==
    /\ loaded["queue reader"] # 0
    /\ PushBack
    /\ ind' = 0
    /\ UNCHANGED <<errored, pc, main_vars, crashers, read, store, put_failures, crashing_queue,
                   summary_vars>>

\* What is still to be integrated after update_crashers(ids).  Mutant: what has
\* been processed is not erased.
NeverErased(ids) == delay_processing \union (ids \ store)
StillDelayed(ids) == (delay_processing \union ids) \ store

\* How often update_crashers(ids) inserts a testcase: once if it was delayed and
\* once if it is new, where the store has it.
Insertions(t, ids) ==
    IF t \in store THEN Cardinality({S \in {<<1, delay_processing>>, <<2, ids>>} : t \in S[2]})
    ELSE 0

\* A testcase that is not in the store yet has to wait for the next set.
UpdateCrashers ==
    /\ ~errored /\ ind = 0 /\ crashing_queue # <<>>
    /\ summarised' = [t \in Testcases |-> summarised[t] + Insertions(t, Head(crashing_queue))]
    /\ delay_processing' = StillDelayed(Head(crashing_queue))
    /\ crashing_queue' = Tail(crashing_queue)
    /\ UNCHANGED <<errored, pc, main_vars, crashers, push_vars, read, store_vars>>

-----------------------------------------------------------------------------
Main == PushTestcase \/ FinishPush \/ Call \/ (\E t \in Testcases : AskCrashing(t)) \/ Report

QueueReader == PopTestcase \/ Put \/ PutFails \/ FinishPushBack \/ UpdateCrashers

Next == Main \/ (\E t \in Testcases : MarkCrashing(t)) \/ QueueReader

Spec == Init /\ [][Next]_vars

\* Both threads are scheduled.
FairSpec == Spec /\ WF_vars(Main) /\ WF_vars(QueueReader)

(***************************************************************************)
(* Properties                                                              *)
(***************************************************************************)

InQueue == {slot[i] : i \in (read + 1)..written}

\* A testcase that was launched is in the store or on its way there, unless the
\* queue was full: the queue reader, which adds back what the database refused
\* (handler.cpp:724-728), is a second producer of a queue for one, and nothing is
\* lost unless a push of its own and one of the main loop overlap.
NoneLost ==
    ~overlapped =>
        \A t \in 1..launched :
            \/ t \in store \union refused \union InQueue \union {ind}
            \/ pc = "push" /\ t = launched

\* A testcase is summarised at most once, although it may be reported before it
\* is stored and is then retried with every set that follows, whose ids may be
\* in the store at last (ui.cpp:570-601, handler.cpp:467-477).
SummarisedOnce ==
    \A t \in Testcases :
        /\ summarised[t] <= 1
        /\ summarised[t] = 1 => t \notin delay_processing

\* Where the UI has started, a testcase that is launched ends in the store, where
\* the UI finds it, unless it was refused or the pushes overlapped, in whatever
\* order the two threads use the queue and however often the database fails
\* (handler.cpp:661, 691-731).
StoredInTheEnd ==
    \A t \in Testcases :
        (~errored /\ launched >= t) ~> (t \in store \union refused \/ overlapped)
=============================================================================
