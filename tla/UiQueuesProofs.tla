---------------------------- MODULE UiQueuesProofs ----------------------------
(***************************************************************************)
(* Proofs about UiQueues, for any number of testcases, size of a           *)
(* generation, capacity of the queues and number of failed insertions: no  *)
(* testcase is lost but to a full queue or to two pushes that overlap, and *)
(* none is summarised twice.                                               *)
(***************************************************************************)
EXTENDS UiQueues, TLAPS, FiniteSetTheorems

(***************************************************************************)
(* The inductive invariant                                                 *)
(***************************************************************************)

\* The types of what belongs to the queue of testcases, and of the rest.
QueueTypes ==
    /\ pc \in {"launch", "push", "call", "ask"}
    /\ launched \in 0..MaxTestcases
    /\ put_failures \in 0..MaxPutFailures
    /\ slot \in [1..MaxPushes -> 0..MaxTestcases]
    /\ read \in 0..MaxPushes /\ written \in 0..MaxPushes
    /\ loaded \in [Producers -> 0..MaxPushes]
    /\ ind \in 0..MaxTestcases
    /\ refused \subseteq Testcases /\ store \subseteq Testcases

SummaryTypes ==
    /\ current_testcase_ids \subseteq Testcases /\ crashing_testcase_ids \subseteq Testcases
    /\ crashers \subseteq Testcases /\ delay_processing \subseteq Testcases
    /\ crashing_queue \in Seq(SUBSET Testcases) /\ Len(crashing_queue) <= Capacity
    /\ summarised \in [Testcases -> Nat]

\* A push writes no further than what was launched or added back.
Pushes == launched + put_failures
QueueBounded == written <= Pushes /\ \A p \in Producers : loaded[p] <= Pushes

\* Who is inside a push.
PushPlaces ==
    /\ pc = "push" <=> loaded["main"] # 0
    /\ loaded["queue reader"] # 0 => ind # 0
    /\ pc # "launch" => launched # 0

\* The indices are in order as long as no two pushes overlap.
Ordered == overlapped \in BOOLEAN /\ (~overlapped => read <= written)

QueueInv == QueueTypes /\ QueueBounded /\ PushPlaces /\ Ordered /\ NoneLost

\* The testcases whose call has returned, which may have been gathered.
Gathered == {t \in Testcases : t <= launched /\ (pc \in {"push", "call"} => t < launched)}

\* Where a testcase may be on its way to the summary: it is gathered, reported,
\* queued, delayed or summarised.
QueuedIn(queue) == UNION {queue[k] : k \in 1..Len(queue)}
DisjointIn(queue) ==
    \A k, l \in 1..Len(queue) : k # l => queue[k] \intersect queue[l] = {}
Summarised == {t \in Testcases : summarised[t] # 0}

InOne(gathered, reported, queued, delayed, done) ==
    /\ gathered \union reported \union queued \union delayed \union done \subseteq Gathered
    /\ gathered \intersect (reported \union queued \union delayed \union done) = {}
    /\ reported \intersect (queued \union delayed \union done) = {}
    /\ queued \intersect (delayed \union done) = {}
    /\ delayed \intersect done = {}

OnePlace ==
    /\ InOne(current_testcase_ids, crashing_testcase_ids, QueuedIn(crashing_queue),
             delay_processing, Summarised)
    /\ DisjointIn(crashing_queue)
    /\ \A t \in Testcases : summarised[t] <= 1

SummaryInv == SummaryTypes /\ OnePlace

IInv == errored \in BOOLEAN /\ QueueInv /\ SummaryInv

LEMMA Constants ==
    /\ MaxTestcases \in Nat /\ MaxPutFailures \in Nat
    /\ GenerationSize \in Nat \ {0} /\ Capacity \in Nat \ {0}
    /\ MaxPushes \in Nat /\ MaxPushes = MaxTestcases + MaxPutFailures
BY UiQueuesAssumption DEF MaxPushes

LEMMA TypesFollow == ASSUME IInv PROVE TypeOK
<1>. USE DEF IInv, QueueInv, SummaryInv
<1>1. /\ errored \in BOOLEAN /\ pc \in {"launch", "push", "call", "ask"}
      /\ launched \in 0..MaxTestcases /\ put_failures \in 0..MaxPutFailures
      /\ slot \in [1..MaxPushes -> 0..MaxTestcases] /\ loaded \in [Producers -> 0..MaxPushes]
      /\ {read, written} \subseteq 0..MaxPushes /\ ind \in 0..MaxTestcases
      /\ refused \in SUBSET Testcases /\ store \in SUBSET Testcases
    BY DEF QueueTypes
<1>2. /\ {current_testcase_ids, crashing_testcase_ids, crashers} \subseteq SUBSET Testcases
      /\ delay_processing \in SUBSET Testcases
      /\ crashing_queue \in Seq(SUBSET Testcases) /\ Len(crashing_queue) <= Capacity
      /\ summarised \in [Testcases -> Nat]
    BY DEF SummaryTypes
<1>3. overlapped \in BOOLEAN
    BY DEF Ordered
<1>4. {refused, store, delay_processing} \subseteq SUBSET Testcases
    BY <1>1, <1>2
<1>. QED
    BY <1>1, <1>2, <1>3, <1>4, Zenon DEF TypeOK

(***************************************************************************)
(* The initial state                                                       *)
(***************************************************************************)

LEMMA InitHolds == Init => IInv
<1>. SUFFICES ASSUME Init PROVE IInv
    OBVIOUS
<1>. USE Constants
<1>1. QueueTypes
    BY DEF Init, QueueTypes
<1>2. QueueBounded /\ PushPlaces
    <2>1. /\ launched = 0 /\ put_failures = 0 /\ written = 0 /\ pc = "launch"
          /\ \A p \in Producers : loaded[p] = 0
        BY DEF Init
    <2>2. loaded["main"] = 0 /\ loaded["queue reader"] = 0
        BY <2>1 DEF Producers
    <2>3. QueueBounded
        BY <2>1 DEF QueueBounded, Pushes
    <2>4. PushPlaces
        BY <2>1, <2>2 DEF PushPlaces
    <2>. QED
        BY <2>3, <2>4
<1>3. Ordered
    <2>1. read <= written
        BY DEF Init
    <2>2. overlapped = FALSE
        BY DEF Init
    <2>. QED
        BY <2>1, <2>2 DEF Ordered
<1>4. NoneLost
    <2>1. 1..launched = {}
        BY DEF Init
    <2>. QED
        BY <2>1 DEF NoneLost
<1>5. SummaryTypes
    BY DEF Init, SummaryTypes
<1>6. OnePlace
    <2>1. current_testcase_ids = {} /\ crashing_testcase_ids = {} /\ delay_processing = {}
        BY DEF Init
    <2>2. \A t \in Testcases : summarised[t] = 0
        BY DEF Init
    <2>3. Len(crashing_queue) = 0
        BY DEF Init
    <2>4. QueuedIn(crashing_queue) = {} /\ DisjointIn(crashing_queue)
        BY <2>3 DEF QueuedIn, DisjointIn
    <2>5. Summarised = {}
        BY <2>2 DEF Summarised
    <2>. QED
        BY <2>1, <2>2, <2>4, <2>5 DEF OnePlace, InOne
<1>. QED
    BY <1>1, <1>2, <1>3, <1>4, <1>5, <1>6 DEF IInv, QueueInv, SummaryInv, Init

(***************************************************************************)
(* A push                                                                  *)
(***************************************************************************)

LEMMA PushTypes ==
    ASSUME QueueInv
    PROVE  /\ launched \in Nat /\ launched <= MaxTestcases
           /\ put_failures \in Nat /\ put_failures <= MaxPutFailures
           /\ Pushes \in Nat /\ Pushes = launched + put_failures /\ Pushes <= MaxPushes
           /\ read \in Nat /\ written \in Nat /\ written <= Pushes
<1>1. /\ launched \in Nat /\ launched <= MaxTestcases
      /\ put_failures \in Nat /\ put_failures <= MaxPutFailures
      /\ read \in Nat /\ written \in Nat
    BY Constants DEF QueueInv, QueueTypes
<1>2. Pushes = launched + put_failures
    BY DEF Pushes
<1>3. written <= Pushes
    BY DEF QueueInv, QueueBounded
<1>. QED
    BY <1>1, <1>2, <1>3, Constants

\* The testcase in the hands of the queue reader.
LEMMA HeldTestcase ==
    ASSUME QueueInv
    PROVE  ind \in 0..MaxTestcases /\ 0 \in 0..MaxTestcases /\ (ind # 0 => ind \in Testcases)
<1>1. ind \in 0..MaxTestcases
    BY DEF QueueInv, QueueTypes
<1>. QED
    BY <1>1, Constants DEF Testcases

\* The first half of a push, for which there is room.
LEMMA LoadKeeps ==
    ASSUME QueueInv, NEW producer \in Producers, LoadIndex(producer),
           Pushes' = Pushes + 1, Pushes' <= MaxPushes
    PROVE  /\ loaded' \in [Producers -> 0..MaxPushes]
           /\ \A p \in Producers : loaded'[p] <= Pushes'
           /\ loaded'[producer] # 0
           /\ \A p \in Producers \ {producer} : loaded'[p] = loaded[p]
<1>1. /\ loaded \in [Producers -> 0..MaxPushes]
      /\ \A p \in Producers : loaded[p] <= Pushes
    BY DEF QueueInv, QueueTypes, QueueBounded
<1>2. written + 1 \in 1..MaxPushes /\ written + 1 <= Pushes' /\ Pushes \in Nat
    BY PushTypes, Constants
<1>3. loaded' = [loaded EXCEPT ![producer] = written + 1]
    BY DEF LoadIndex
<1>. QED
    BY <1>1, <1>2, <1>3, Constants

\* The second half.  A push that does not overlap another puts its testcase
\* behind what is queued.
LEMMA StoreKeeps ==
    ASSUME QueueInv, NEW producer \in Producers, NEW t \in Testcases,
           loaded[producer] # 0, StoreElement(producer, t), Pushes' = Pushes, read' = read
    PROVE  /\ slot' \in [1..MaxPushes -> 0..MaxTestcases]
           /\ written' \in 0..MaxPushes
           /\ loaded' \in [Producers -> 0..MaxPushes]
           /\ QueueBounded'
           /\ loaded'[producer] = 0
           /\ \A p \in Producers \ {producer} : loaded'[p] = loaded[p]
           /\ overlapped' \in BOOLEAN
           /\ ~overlapped' => ~overlapped /\ read' <= written' /\ InQueue' = InQueue \union {t}
<1>1. /\ slot \in [1..MaxPushes -> 0..MaxTestcases] /\ loaded \in [Producers -> 0..MaxPushes]
      /\ \A p \in Producers : loaded[p] <= Pushes
    BY DEF QueueInv, QueueTypes, QueueBounded
<1>2. /\ slot' = [slot EXCEPT ![loaded[producer]] = t] /\ written' = loaded[producer]
      /\ loaded' = [loaded EXCEPT ![producer] = 0]
    BY DEF StoreElement
<1>3. loaded[producer] \in 1..MaxPushes /\ loaded[producer] <= Pushes
    BY <1>1, Constants
<1>4. slot' \in [1..MaxPushes -> 0..MaxTestcases]
    BY <1>1, <1>2, <1>3, Constants DEF Testcases
<1>5. /\ loaded' \in [Producers -> 0..MaxPushes] /\ loaded'[producer] = 0
      /\ \A p \in Producers \ {producer} : loaded'[p] = loaded[p]
    BY <1>1, <1>2, Constants
<1>6. QueueBounded'
    <2>1. \A p \in Producers : loaded'[p] <= Pushes
        BY <1>1, <1>2, PushTypes
    <2>. QED
        BY <1>2, <1>3, <2>1 DEF QueueBounded
<1>7. overlapped' \in BOOLEAN
    BY DEF StoreElement
<1>8. ASSUME ~overlapped'
      PROVE  ~overlapped /\ read' <= written' /\ InQueue' = InQueue \union {t}
    <2>1. ~overlapped /\ loaded[producer] = written + 1
        BY <1>8 DEF StoreElement
    <2>2. read <= written
        BY <2>1 DEF QueueInv, Ordered
    <2>3. read \in Nat /\ written \in Nat
        BY PushTypes
    <2>4. slot'[written + 1] = t
        BY <1>1, <1>2, <1>3, <2>1
    <2>5. \A i \in (read + 1)..written : slot'[i] = slot[i]
        BY <1>1, <1>2, <1>3, <2>1, <2>2, <2>3
    <2>6. (read' + 1)..written' = ((read + 1)..written) \union {written + 1}
        BY <1>2, <2>1, <2>2, <2>3
    <2>7. InQueue' = InQueue \union {t}
        BY <2>4, <2>5, <2>6 DEF InQueue
    <2>8. read' <= written'
        BY <1>2, <2>1, <2>2, <2>3
    <2>. QED
        BY <2>1, <2>7, <2>8
<1>. QED
    BY <1>2, <1>3, <1>4, <1>5, <1>6, <1>7, <1>8, Constants

(***************************************************************************)
(* The queue of testcases                                                  *)
(***************************************************************************)

\* What a step that leaves the indices and the elements alone keeps.
LEMMA SameElements ==
    ASSUME QueueInv, UNCHANGED <<slot, read, written, overlapped>>
    PROVE  Ordered' /\ InQueue' = InQueue
BY DEF QueueInv, Ordered, InQueue

LEMMA PushTestcaseKeepsQueue ==
    ASSUME QueueInv, PushTestcase
    PROVE  QueueInv'
<1>1. QueueTypes /\ QueueBounded /\ PushPlaces /\ NoneLost
    BY DEF QueueInv
<1>2. /\ pc = "launch" /\ launched < MaxTestcases /\ launched' = launched + 1
      /\ UNCHANGED <<put_failures, slot, written, read, ind, overlapped, store>>
    BY DEF PushTestcase, store_vars
<1>3. /\ launched' \in 1..MaxTestcases /\ Pushes' = Pushes + 1 /\ Pushes' <= MaxPushes
      /\ loaded["main"] = 0
    <2>1. launched' \in 1..MaxTestcases
        BY <1>2, PushTypes, Constants
    <2>2. Pushes' = Pushes + 1
        BY <1>2, PushTypes DEF Pushes
    <2>3. Pushes' <= MaxPushes
        BY <1>2, <2>2, PushTypes, Constants
    <2>4. loaded["main"] = 0
        BY <1>1, <1>2 DEF PushPlaces
    <2>. QED
        BY <2>1, <2>2, <2>3, <2>4
<1>4. /\ loaded' \in [Producers -> 0..MaxPushes]
      /\ \A p \in Producers : loaded'[p] <= Pushes'
      /\ loaded'["queue reader"] = loaded["queue reader"]
      /\ refused \subseteq refused' /\ refused' \subseteq Testcases
      /\ \/ pc' = "push" /\ loaded'["main"] # 0
         \/ pc' = "call" /\ loaded'["main"] = 0 /\ launched' \in refused'
    <2>1. CASE Full
        <3>1. refused' = refused \union {launched'} /\ pc' = "call" /\ UNCHANGED loaded
            BY <1>2, <2>1 DEF PushTestcase
        <3>2. refused' \subseteq Testcases /\ launched' \in refused' /\ refused \subseteq refused'
            BY <1>1, <1>3, <3>1 DEF QueueTypes, Testcases
        <3>3. \A p \in Producers : loaded'[p] <= Pushes'
            <4>1. \A p \in Producers : loaded[p] \in Nat /\ loaded[p] <= Pushes
                BY <1>1, Constants DEF QueueTypes, QueueBounded
            <4>. QED
                BY <1>3, <3>1, <4>1, PushTypes
        <3>. QED
            BY <1>1, <1>3, <3>1, <3>2, <3>3 DEF QueueTypes
    <2>2. CASE ~Full
        <3>1. LoadIndex("main") /\ pc' = "push" /\ UNCHANGED refused
            BY <2>2 DEF PushTestcase
        <3>2. refused' \subseteq Testcases
            BY <1>1, <3>1 DEF QueueTypes
        <3>3. "main" \in Producers /\ "queue reader" \in Producers \ {"main"}
            BY DEF Producers
        <3>. QED
            BY <1>3, <3>1, <3>2, <3>3, LoadKeeps
    <2>. QED
        BY <2>1, <2>2
<1>5. QueueTypes'
    <2>1. launched' \in 0..MaxTestcases
        BY <1>3
    <2>2. pc' \in {"launch", "push", "call", "ask"}
        BY <1>4
    <2>. QED
        BY <1>1, <1>2, <1>4, <2>1, <2>2 DEF QueueTypes
<1>6. QueueBounded'
    <2>1. written' <= Pushes'
        BY <1>2, <1>3, PushTypes
    <2>. QED
        BY <1>4, <2>1 DEF QueueBounded
<1>7. PushPlaces'
    <2>1. launched' # 0
        BY <1>3
    <2>2. pc' = "push" <=> loaded'["main"] # 0
        BY <1>4
    <2>. QED
        BY <1>1, <1>2, <1>4, <2>1, <2>2 DEF PushPlaces
<1>8. Ordered' /\ InQueue' = InQueue
    BY <1>2, SameElements
<1>9. NoneLost'
    <2>. SUFFICES ASSUME ~overlapped', NEW t \in 1..launched'
                  PROVE  \/ t \in store' \union refused' \union InQueue' \union {ind'}
                         \/ pc' = "push" /\ t = launched'
        BY DEF NoneLost
    <2>1. ~overlapped
        BY <1>2
    <2>2. t \in 1..launched \/ t = launched'
        BY <1>2, PushTypes
    <2>3. CASE t \in 1..launched
        <3>1. t \in store \union refused \union InQueue \union {ind}
            BY <1>1, <1>2, <2>1, <2>3 DEF NoneLost
        <3>. QED
            BY <1>2, <1>4, <1>8, <3>1
    <2>. QED
        BY <1>4, <2>2, <2>3
<1>. QED
    BY <1>5, <1>6, <1>7, <1>8, <1>9 DEF QueueInv

LEMMA FinishPushKeepsQueue ==
    ASSUME QueueInv, FinishPush
    PROVE  QueueInv'
<1>1. QueueTypes /\ QueueBounded /\ PushPlaces /\ NoneLost
    BY DEF QueueInv
<1>2. /\ pc = "push" /\ pc' = "call" /\ StoreElement("main", launched)
      /\ UNCHANGED <<launched, put_failures, read, ind, store, refused>>
    BY DEF FinishPush, StoreElement, main_vars, store_vars
<1>3. /\ launched \in Testcases /\ loaded["main"] # 0 /\ Pushes' = Pushes
    <2>1. launched # 0 /\ loaded["main"] # 0
        BY <1>1, <1>2 DEF PushPlaces
    <2>2. launched \in Testcases
        BY <2>1, PushTypes, Constants DEF Testcases
    <2>3. Pushes' = Pushes
        BY <1>2 DEF Pushes
    <2>. QED
        BY <2>1, <2>2, <2>3
<1>4. "main" \in Producers /\ "queue reader" \in Producers \ {"main"}
    BY DEF Producers
<1>5. /\ slot' \in [1..MaxPushes -> 0..MaxTestcases] /\ written' \in 0..MaxPushes
      /\ loaded' \in [Producers -> 0..MaxPushes] /\ QueueBounded'
      /\ loaded'["main"] = 0 /\ loaded'["queue reader"] = loaded["queue reader"]
      /\ overlapped' \in BOOLEAN
      /\ ~overlapped' => /\ ~overlapped /\ read' <= written'
                         /\ InQueue' = InQueue \union {launched}
    BY <1>2, <1>3, <1>4, StoreKeeps
<1>6. QueueTypes'
    BY <1>1, <1>2, <1>5 DEF QueueTypes
<1>7. PushPlaces'
    BY <1>1, <1>2, <1>5 DEF PushPlaces
<1>8. Ordered'
    BY <1>5 DEF Ordered
<1>9. NoneLost'
    <2>. SUFFICES ASSUME ~overlapped', NEW t \in 1..launched'
                  PROVE  t \in store' \union refused' \union InQueue' \union {ind'}
        BY DEF NoneLost
    <2>1. \/ t \in store \union refused \union InQueue \union {ind}
          \/ t = launched
        BY <1>1, <1>2, <1>5 DEF NoneLost
    <2>. QED
        BY <1>2, <1>5, <2>1
<1>. QED
    BY <1>5, <1>6, <1>7, <1>8, <1>9 DEF QueueInv

\* Steps of the main loop, of the analyzer and of the summary, which leave the
\* queue alone.
LEMMA ElsewhereKeepsQueue ==
    ASSUME QueueInv, pc # "push", pc' # "push", pc = "launch" => pc' = "launch",
           pc' \in {"launch", "push", "call", "ask"},
           UNCHANGED <<launched, push_vars, read, store_vars>>
    PROVE  QueueInv'
<1>1. QueueTypes /\ QueueBounded /\ PushPlaces /\ NoneLost
    BY DEF QueueInv
<1>2. UNCHANGED <<launched, put_failures, slot, written, loaded, refused, overlapped, read, ind,
                  store>>
    BY DEF push_vars, store_vars
<1>3. QueueTypes' /\ QueueBounded' /\ PushPlaces'
    BY <1>1, <1>2 DEF QueueTypes, QueueBounded, PushPlaces, Pushes
<1>4. Ordered' /\ InQueue' = InQueue
    BY <1>2, SameElements
<1>5. NoneLost'
    BY <1>1, <1>2, <1>4 DEF NoneLost
<1>. QED
    BY <1>3, <1>4, <1>5 DEF QueueInv

\* Steps that keep pc where it is, too.
LEMMA ApartKeepsQueue ==
    ASSUME QueueInv, UNCHANGED <<pc, launched, push_vars, read, store_vars>>
    PROVE  QueueInv'
<1>1. QueueTypes /\ QueueBounded /\ PushPlaces /\ NoneLost
    BY DEF QueueInv
<1>2. UNCHANGED <<pc, launched, put_failures, slot, written, loaded, refused, overlapped, read,
                  ind, store>>
    BY DEF push_vars, store_vars
<1>3. QueueTypes' /\ QueueBounded' /\ PushPlaces'
    BY <1>1, <1>2 DEF QueueTypes, QueueBounded, PushPlaces, Pushes
<1>4. Ordered' /\ InQueue' = InQueue
    BY <1>2, SameElements
<1>5. NoneLost'
    BY <1>1, <1>2, <1>4 DEF NoneLost
<1>. QED
    BY <1>3, <1>4, <1>5 DEF QueueInv

LEMMA PopKeepsQueue ==
    ASSUME QueueInv, PopTestcase
    PROVE  QueueInv'
<1>1. QueueTypes /\ QueueBounded /\ PushPlaces /\ NoneLost
    BY DEF QueueInv
<1>2. /\ ind = 0 /\ read < written /\ read' = read + 1 /\ ind' = slot[read + 1]
      /\ UNCHANGED <<pc, launched, put_failures, slot, written, loaded, refused, overlapped, store>>
    BY DEF PopTestcase, main_vars, push_vars
<1>3. read \in Nat /\ written \in Nat /\ written <= MaxPushes /\ Pushes' = Pushes
    BY <1>1, <1>2, Constants DEF QueueTypes, Pushes
<1>4. QueueTypes'
    <2>1. read' \in 0..MaxPushes /\ ind' \in 0..MaxTestcases
        BY <1>1, <1>2, <1>3, Constants DEF QueueTypes
    <2>. QED
        BY <1>1, <1>2, <2>1 DEF QueueTypes
<1>5. QueueBounded'
    BY <1>1, <1>2, <1>3 DEF QueueBounded
<1>6. PushPlaces'
    <2>1. loaded["queue reader"] = 0
        BY <1>1, <1>2, PushTypes DEF PushPlaces
    <2>. QED
        BY <1>1, <1>2, <2>1 DEF PushPlaces
<1>7. Ordered'
    <2>1. read' <= written'
        BY <1>2, <1>3
    <2>2. overlapped' \in BOOLEAN
        BY <1>2 DEF QueueInv, Ordered
    <2>. QED
        BY <2>1, <2>2 DEF Ordered
<1>8. InQueue \subseteq InQueue' \union {ind'}
    <2>1. \A i \in (read + 1)..written : i = read + 1 \/ i \in (read' + 1)..written'
        BY <1>2, <1>3
    <2>. QED
        BY <1>2, <2>1 DEF InQueue
<1>9. NoneLost'
    <2>. SUFFICES ASSUME ~overlapped', NEW t \in 1..launched'
                  PROVE  \/ t \in store' \union refused' \union InQueue' \union {ind'}
                         \/ pc' = "push" /\ t = launched'
        BY DEF NoneLost
    <2>1. \/ t \in store \union refused \union InQueue \union {ind}
          \/ pc = "push" /\ t = launched
        BY <1>1, <1>2 DEF NoneLost
    <2>2. t # 0
        BY <1>2, PushTypes
    <2>. QED
        BY <1>2, <1>8, <2>1, <2>2
<1>. QED
    BY <1>4, <1>5, <1>6, <1>7, <1>9 DEF QueueInv

LEMMA PutKeepsQueue ==
    ASSUME QueueInv, Put
    PROVE  QueueInv'
<1>1. QueueTypes /\ QueueBounded /\ PushPlaces /\ NoneLost
    BY DEF QueueInv
<1>2. /\ ind # 0 /\ loaded["queue reader"] = 0 /\ ind' = 0 /\ store' = store \union {ind}
      /\ UNCHANGED <<pc, launched, put_failures, slot, written, loaded, refused, overlapped, read>>
    BY DEF Put, main_vars, push_vars
<1>3. QueueTypes'
    <2>1. ind \in Testcases /\ ind' \in 0..MaxTestcases
        BY <1>2, HeldTestcase
    <2>2. store' \subseteq Testcases
        BY <1>1, <1>2, <2>1 DEF QueueTypes
    <2>. QED
        BY <1>1, <1>2, <2>1, <2>2 DEF QueueTypes
<1>4. QueueBounded' /\ PushPlaces'
    BY <1>1, <1>2 DEF QueueBounded, PushPlaces, Pushes
<1>5. Ordered' /\ InQueue' = InQueue
    BY <1>2, SameElements
<1>6. NoneLost'
    BY <1>1, <1>2, <1>5 DEF NoneLost
<1>. QED
    BY <1>3, <1>4, <1>5, <1>6 DEF QueueInv

LEMMA PutFailsKeepsQueue ==
    ASSUME QueueInv, PutFails
    PROVE  QueueInv'
<1>1. QueueTypes /\ QueueBounded /\ PushPlaces /\ NoneLost
    BY DEF QueueInv
<1>2. /\ ind # 0 /\ loaded["queue reader"] = 0
      /\ put_failures < MaxPutFailures /\ put_failures' = put_failures + 1
      /\ UNCHANGED <<pc, launched, slot, written, overlapped, read, store>>
    BY DEF PutFails, main_vars
<1>3. /\ put_failures' \in 0..MaxPutFailures /\ Pushes' = Pushes + 1 /\ Pushes' <= MaxPushes
      /\ ind \in Testcases
    <2>0. /\ put_failures < MaxPutFailures /\ put_failures' = put_failures + 1
          /\ launched' = launched
        BY <1>2
    <2>1. put_failures' \in 0..MaxPutFailures
        BY <2>0, PushTypes, Constants
    <2>2. Pushes' = Pushes + 1
        BY <2>0, PushTypes DEF Pushes
    <2>3. Pushes' <= MaxPushes
        BY <2>0, <2>2, PushTypes, Constants
    <2>. QED
        BY <1>2, <2>1, <2>2, <2>3, HeldTestcase
<1>4. /\ loaded' \in [Producers -> 0..MaxPushes]
      /\ \A p \in Producers : loaded'[p] <= Pushes'
      /\ loaded'["main"] = loaded["main"]
      /\ refused \subseteq refused' /\ refused' \subseteq Testcases
      /\ \/ ind' = 0 /\ ind \in refused' /\ loaded'["queue reader"] = 0
         \/ ind' = ind
    <2>1. CASE Full
        <3>1. refused' = refused \union {ind} /\ ind' = 0 /\ UNCHANGED loaded
            BY <2>1 DEF PutFails
        <3>2. refused' \subseteq Testcases /\ ind \in refused' /\ refused \subseteq refused'
            BY <1>1, <1>3, <3>1 DEF QueueTypes
        <3>3. \A p \in Producers : loaded'[p] <= Pushes'
            <4>1. \A p \in Producers : loaded[p] \in Nat /\ loaded[p] <= Pushes
                BY <1>1, Constants DEF QueueTypes, QueueBounded
            <4>. QED
                BY <1>3, <3>1, <4>1, PushTypes
        <3>. QED
            BY <1>1, <1>2, <3>1, <3>2, <3>3 DEF QueueTypes
    <2>2. CASE ~Full
        <3>1. LoadIndex("queue reader") /\ UNCHANGED <<ind, refused>>
            BY <2>2 DEF PutFails
        <3>2. refused' \subseteq Testcases
            BY <1>1, <3>1 DEF QueueTypes
        <3>3. "queue reader" \in Producers /\ "main" \in Producers \ {"queue reader"}
            BY DEF Producers
        <3>. QED
            BY <1>3, <3>1, <3>2, <3>3, LoadKeeps
    <2>. QED
        BY <2>1, <2>2
<1>5. QueueTypes'
    <2>1. ind' \in 0..MaxTestcases
        BY <1>4, HeldTestcase
    <2>2. put_failures' \in 0..MaxPutFailures
        BY <1>3
    <2>. QED
        BY <1>1, <1>2, <1>4, <2>1, <2>2 DEF QueueTypes
<1>6. QueueBounded'
    <2>1. written' <= Pushes'
        <3>1. written' = written /\ Pushes' = Pushes + 1
            BY <1>2, <1>3
        <3>. QED
            BY <3>1, PushTypes
    <2>. QED
        BY <1>4, <2>1 DEF QueueBounded
<1>7. PushPlaces'
    <2>1. loaded'["queue reader"] # 0 => ind' # 0
        BY <1>2, <1>4
    <2>. QED
        BY <1>1, <1>2, <1>4, <2>1 DEF PushPlaces
<1>8. Ordered' /\ InQueue' = InQueue
    BY <1>2, SameElements
<1>9. NoneLost'
    <2>. SUFFICES ASSUME ~overlapped', NEW t \in 1..launched'
                  PROVE  \/ t \in store' \union refused' \union InQueue' \union {ind'}
                         \/ pc' = "push" /\ t = launched'
        BY DEF NoneLost
    <2>1. \/ t \in store \union refused \union InQueue \union {ind}
          \/ pc = "push" /\ t = launched
        BY <1>1, <1>2 DEF NoneLost
    <2>. QED
        BY <1>2, <1>4, <1>8, <2>1
<1>. QED
    BY <1>5, <1>6, <1>7, <1>8, <1>9 DEF QueueInv

LEMMA FinishPushBackKeepsQueue ==
    ASSUME QueueInv, FinishPushBack
    PROVE  QueueInv'
<1>1. QueueTypes /\ QueueBounded /\ PushPlaces /\ NoneLost
    BY DEF QueueInv
<1>2. /\ loaded["queue reader"] # 0 /\ ind' = 0 /\ StoreElement("queue reader", ind)
      /\ UNCHANGED <<pc, launched, put_failures, read, store, refused>>
    BY DEF FinishPushBack, PushBack, StoreElement, main_vars
<1>3. ind \in Testcases /\ loaded["queue reader"] # 0 /\ Pushes' = Pushes
    <2>1. ind # 0
        BY <1>1, <1>2 DEF PushPlaces
    <2>2. Pushes' = Pushes
        BY <1>2 DEF Pushes
    <2>. QED
        BY <1>2, <2>1, <2>2, HeldTestcase
<1>4. "queue reader" \in Producers /\ "main" \in Producers \ {"queue reader"}
    BY DEF Producers
<1>5. /\ slot' \in [1..MaxPushes -> 0..MaxTestcases] /\ written' \in 0..MaxPushes
      /\ loaded' \in [Producers -> 0..MaxPushes] /\ QueueBounded'
      /\ loaded'["queue reader"] = 0 /\ loaded'["main"] = loaded["main"]
      /\ overlapped' \in BOOLEAN
      /\ ~overlapped' => /\ ~overlapped /\ read' <= written'
                         /\ InQueue' = InQueue \union {ind}
    BY <1>2, <1>3, <1>4, StoreKeeps
<1>6. QueueTypes'
    <2>1. ind' \in 0..MaxTestcases
        BY <1>2, HeldTestcase
    <2>. QED
        BY <1>1, <1>2, <1>5, <2>1 DEF QueueTypes
<1>7. PushPlaces'
    BY <1>1, <1>2, <1>5 DEF PushPlaces
<1>8. Ordered'
    BY <1>5 DEF Ordered
<1>9. NoneLost'
    <2>. SUFFICES ASSUME ~overlapped', NEW t \in 1..launched'
                  PROVE  \/ t \in store' \union refused' \union InQueue' \union {ind'}
                         \/ pc' = "push" /\ t = launched'
        BY DEF NoneLost
    <2>1. \/ t \in store \union refused \union InQueue \union {ind}
          \/ pc = "push" /\ t = launched
        BY <1>1, <1>2, <1>5 DEF NoneLost
    <2>. QED
        BY <1>2, <1>5, <2>1
<1>. QED
    BY <1>5, <1>6, <1>7, <1>8, <1>9 DEF QueueInv

(***************************************************************************)
(* The summary of the crashes                                              *)
(***************************************************************************)

LEMMA AppendQueued ==
    ASSUME NEW queue \in Seq(SUBSET Testcases), NEW ids \in SUBSET Testcases,
           DisjointIn(queue), ids \intersect QueuedIn(queue) = {}
    PROVE  /\ QueuedIn(Append(queue, ids)) = QueuedIn(queue) \union ids
           /\ DisjointIn(Append(queue, ids))
<1>. DEFINE longer == Append(queue, ids)
<1>1. /\ Len(queue) \in Nat /\ Len(longer) = Len(queue) + 1 /\ longer[Len(queue) + 1] = ids
      /\ \A k \in 1..Len(queue) : longer[k] = queue[k]
    OBVIOUS
<1>. HIDE DEF longer
<1>2. \A k \in 1..Len(longer) : k \in 1..Len(queue) \/ k = Len(queue) + 1
    BY <1>1
<1>3. QueuedIn(longer) = QueuedIn(queue) \union ids
    <2>1. \A k \in 1..Len(queue) : k \in 1..Len(longer)
        BY <1>1
    <2>2. Len(queue) + 1 \in 1..Len(longer)
        BY <1>1
    <2>. QED
        BY <1>1, <1>2, <2>1, <2>2 DEF QueuedIn
<1>4. \A k \in 1..Len(queue) : ids \intersect queue[k] = {}
    BY DEF QueuedIn
<1>5. DisjointIn(longer)
    BY <1>1, <1>2, <1>4 DEF DisjointIn
<1>. QED
    BY <1>3, <1>5 DEF longer

LEMMA TailQueued ==
    ASSUME NEW queue \in Seq(SUBSET Testcases), queue # <<>>, DisjointIn(queue)
    PROVE  /\ Head(queue) \in SUBSET Testcases
           /\ QueuedIn(queue) = QueuedIn(Tail(queue)) \union Head(queue)
           /\ Head(queue) \intersect QueuedIn(Tail(queue)) = {}
           /\ DisjointIn(Tail(queue))
<1>. DEFINE rest == Tail(queue)
<1>1. /\ Len(queue) \in Nat \ {0} /\ Len(rest) = Len(queue) - 1 /\ Head(queue) = queue[1]
      /\ \A k \in 1..Len(rest) : rest[k] = queue[k + 1]
      /\ queue[1] \in SUBSET Testcases
    OBVIOUS
<1>. HIDE DEF rest
<1>2. \A k \in 1..Len(rest) : k + 1 \in 1..Len(queue) /\ k + 1 # 1
    BY <1>1
<1>3. \A k \in 1..Len(queue) : k = 1 \/ (k - 1 \in 1..Len(rest) /\ k = (k - 1) + 1)
    BY <1>1
<1>4. QueuedIn(queue) = QueuedIn(rest) \union queue[1]
    <2>1. ASSUME NEW t \in QueuedIn(queue)
          PROVE  t \in QueuedIn(rest) \union queue[1]
        <3>1. PICK k \in 1..Len(queue) : t \in queue[k]
            BY DEF QueuedIn
        <3>2. CASE k = 1
            BY <3>1, <3>2
        <3>3. CASE k - 1 \in 1..Len(rest) /\ k = (k - 1) + 1
            <4>1. rest[k - 1] = queue[k]
                BY <1>1, <3>3
            <4>. QED
                BY <3>1, <3>3, <4>1 DEF QueuedIn
        <3>. QED
            BY <1>3, <3>2, <3>3
    <2>2. ASSUME NEW t \in QueuedIn(rest) \union queue[1]
          PROVE  t \in QueuedIn(queue)
        <3>1. 1 \in 1..Len(queue)
            BY <1>1
        <3>. QED
            BY <1>1, <1>2, <3>1 DEF QueuedIn
    <2>. QED
        BY <2>1, <2>2
<1>5. queue[1] \intersect QueuedIn(rest) = {}
    <2>1. 1 \in 1..Len(queue)
        BY <1>1
    <2>2. ASSUME NEW k \in 1..Len(rest)
          PROVE  queue[1] \intersect rest[k] = {}
        BY <1>1, <1>2, <2>1 DEF DisjointIn
    <2>. QED
        BY <2>2 DEF QueuedIn
<1>6. DisjointIn(rest)
    <2>. SUFFICES ASSUME NEW k \in 1..Len(rest), NEW l \in 1..Len(rest), k # l
                  PROVE  rest[k] \intersect rest[l] = {}
        BY DEF DisjointIn
    <2>1. k + 1 # l + 1 /\ k + 1 \in 1..Len(queue) /\ l + 1 \in 1..Len(queue)
        BY <1>1, <1>2
    <2>. QED
        BY <1>1, <2>1 DEF DisjointIn
<1>. QED
    BY <1>1, <1>4, <1>5, <1>6 DEF rest

\* update_crashers(ids) inserts a testcase that it finds in the store, once if it
\* was delayed or is new.
LEMMA InsertedOnce ==
    ASSUME NEW t, NEW ids, delay_processing \intersect ids = {}
    PROVE  Insertions(t, ids) = IF t \in store \intersect (delay_processing \union ids) THEN 1 ELSE 0
<1>. DEFINE sets == {<<1, delay_processing>>, <<2, ids>>}
            having == {S \in sets : t \in S[2]}
<1>1. CASE t \notin store
    BY <1>1 DEF Insertions
<1>2. CASE t \in store
    <2>1. Insertions(t, ids) = Cardinality(having)
        BY <1>2 DEF Insertions
    <2>2. CASE t \in delay_processing
        <3>1. t \notin ids
            BY <2>2
        <3>2. having = {<<1, delay_processing>>}
            BY <2>2, <3>1
        <3>3. Cardinality(having) = 1
            BY <3>2, FS_Singleton
        <3>. QED
            BY <1>2, <2>1, <2>2, <3>3
    <2>3. CASE t \in ids
        <3>1. t \notin delay_processing
            BY <2>3
        <3>2. having = {<<2, ids>>}
            BY <2>3, <3>1
        <3>3. Cardinality(having) = 1
            BY <3>2, FS_Singleton
        <3>. QED
            BY <1>2, <2>1, <2>3, <3>3
    <2>4. CASE t \notin delay_processing \union ids
        <3>1. having = {}
            BY <2>4
        <3>2. Cardinality(having) = 0
            BY <3>1, FS_EmptySet
        <3>. QED
            BY <2>1, <2>4, <3>2
    <2>. QED
        BY <2>2, <2>3, <2>4
<1>. QED
    BY <1>1, <1>2

\* The testcases whose call has returned are so for good; the one that is called
\* becomes one of them.
LEMMA GatheredGrows ==
    ASSUME QueueInv, pc' \in {"launch", "push", "call", "ask"},
           \/ pc = "launch" /\ launched' = launched + 1 /\ pc' \in {"push", "call"}
           \/ pc = "push" /\ launched' = launched /\ pc' = "call"
           \/ pc \in {"call", "ask"} /\ launched' = launched /\ pc' \notin {"push", "call"}
           \/ launched' = launched /\ pc' = pc
    PROVE  Gathered \subseteq Gathered'
<1>. SUFFICES ASSUME NEW t \in Testcases, t <= launched, pc \in {"push", "call"} => t < launched
              PROVE  t <= launched' /\ (pc' \in {"push", "call"} => t < launched')
    BY DEF Gathered
<1>. USE PushTypes DEF Testcases
<1>1. CASE pc = "launch" /\ launched' = launched + 1
    BY <1>1
<1>2. CASE launched' = launched /\ pc' \notin {"push", "call"}
    BY <1>2
<1>3. CASE launched' = launched /\ pc \in {"push", "call"}
    BY <1>3
<1>. QED
    BY <1>1, <1>2, <1>3

\* Steps that have nothing to do with the summary.
LEMMA ElsewhereKeepsSummary ==
    ASSUME SummaryInv, Gathered \subseteq Gathered', crashers' \subseteq Testcases,
           UNCHANGED <<current_testcase_ids, crashing_testcase_ids, crashing_queue, summary_vars>>
    PROVE  SummaryInv'
<1>1. SummaryTypes /\ OnePlace
    BY DEF SummaryInv
<1>2. UNCHANGED <<current_testcase_ids, crashing_testcase_ids, crashing_queue,
                  delay_processing, summarised>>
    BY DEF summary_vars
<1>3. SummaryTypes'
    BY <1>1, <1>2 DEF SummaryTypes
<1>4. OnePlace'
    <2>1. Summarised' = Summarised
        BY <1>2 DEF Summarised
    <2>. QED
        BY <1>1, <1>2, <2>1 DEF OnePlace, InOne
<1>. QED
    BY <1>3, <1>4 DEF SummaryInv

LEMMA CallKeepsSummary ==
    ASSUME QueueInv, SummaryInv, Call
    PROVE  SummaryInv'
<1>1. SummaryTypes /\ OnePlace
    BY DEF SummaryInv
<1>2. /\ pc = "call" /\ pc' \in {"ask", "launch"}
      /\ UNCHANGED <<launched, crashing_testcase_ids, crashers, crashing_queue, delay_processing,
                     summarised>>
      /\ current_testcase_ids' \subseteq current_testcase_ids \union {launched}
    BY DEF Call, summary_vars
<1>3. launched \in Testcases /\ launched \in Gathered' /\ launched \notin Gathered
    <2>1. launched # 0
        BY <1>2 DEF QueueInv, PushPlaces
    <2>2. launched \in Testcases /\ launched <= launched
        BY <2>1, PushTypes, Constants DEF Testcases
    <2>. QED
        BY <1>2, <2>2, PushTypes DEF Gathered
<1>4. Gathered \subseteq Gathered'
    BY <1>2, GatheredGrows
<1>5. SummaryTypes'
    BY <1>1, <1>2, <1>3 DEF SummaryTypes
<1>6. OnePlace'
    <2>1. Summarised' = Summarised
        BY <1>2 DEF Summarised
    <2>2. InOne(current_testcase_ids, crashing_testcase_ids, QueuedIn(crashing_queue),
                delay_processing, Summarised)
        BY <1>1 DEF OnePlace
    <2>3. InOne(current_testcase_ids, crashing_testcase_ids, QueuedIn(crashing_queue),
                delay_processing, Summarised)'
        BY <1>2, <1>3, <1>4, <2>1, <2>2 DEF InOne
    <2>. QED
        BY <1>1, <1>2, <2>3 DEF OnePlace
<1>. QED
    BY <1>5, <1>6 DEF SummaryInv

LEMMA AskCrashingKeepsSummary ==
    ASSUME QueueInv, SummaryInv, NEW t \in Testcases, AskCrashing(t)
    PROVE  SummaryInv'
<1>1. SummaryTypes /\ OnePlace
    BY DEF SummaryInv
<1>2. /\ t \in current_testcase_ids /\ current_testcase_ids' = current_testcase_ids \ {t}
      /\ crashing_testcase_ids' \in {crashing_testcase_ids, crashing_testcase_ids \union {t}}
      /\ UNCHANGED <<pc, launched, crashers, crashing_queue, delay_processing, summarised>>
    BY DEF AskCrashing, summary_vars
<1>3. Gathered' = Gathered
    BY <1>2 DEF Gathered
<1>4. SummaryTypes'
    BY <1>1, <1>2 DEF SummaryTypes
<1>5. OnePlace'
    <2>1. Summarised' = Summarised
        BY <1>2 DEF Summarised
    <2>2. InOne(current_testcase_ids, crashing_testcase_ids, QueuedIn(crashing_queue),
                delay_processing, Summarised)
        BY <1>1 DEF OnePlace
    <2>3. InOne(current_testcase_ids, crashing_testcase_ids, QueuedIn(crashing_queue),
                delay_processing, Summarised)'
        BY <1>2, <1>3, <2>1, <2>2 DEF InOne
    <2>. QED
        BY <1>1, <1>2, <2>3 DEF OnePlace
<1>. QED
    BY <1>4, <1>5 DEF SummaryInv

LEMMA ReportKeepsSummary ==
    ASSUME QueueInv, SummaryInv, Report
    PROVE  SummaryInv'
<1>1. SummaryTypes /\ OnePlace
    BY DEF SummaryInv
<1>2. /\ pc = "ask" /\ pc' = "launch" /\ crashing_testcase_ids' = {}
      /\ UNCHANGED <<launched, current_testcase_ids, crashers, delay_processing, summarised>>
    BY DEF Report, summary_vars
<1>3. \/ /\ Len(crashing_queue) < Capacity
         /\ crashing_queue' = Append(crashing_queue, crashing_testcase_ids)
      \/ crashing_queue' = crashing_queue
    BY DEF Report
<1>4. Gathered \subseteq Gathered'
    BY <1>2, GatheredGrows
<1>5. InOne(current_testcase_ids, crashing_testcase_ids, QueuedIn(crashing_queue),
            delay_processing, Summarised) /\ DisjointIn(crashing_queue)
    BY <1>1 DEF OnePlace
<1>6. /\ crashing_queue' \in Seq(SUBSET Testcases) /\ Len(crashing_queue') <= Capacity
      /\ QueuedIn(crashing_queue') \subseteq QueuedIn(crashing_queue) \union crashing_testcase_ids
      /\ DisjointIn(crashing_queue')
    <2>1. CASE crashing_queue' = crashing_queue
        BY <1>1, <1>5, <2>1 DEF SummaryTypes
    <2>2. CASE /\ Len(crashing_queue) < Capacity
               /\ crashing_queue' = Append(crashing_queue, crashing_testcase_ids)
        <3>1. crashing_queue \in Seq(SUBSET Testcases) /\ crashing_testcase_ids \in SUBSET Testcases
            BY <1>1 DEF SummaryTypes
        <3>2. crashing_testcase_ids \intersect QueuedIn(crashing_queue) = {}
            BY <1>5 DEF InOne
        <3>3. /\ QueuedIn(crashing_queue') = QueuedIn(crashing_queue) \union crashing_testcase_ids
              /\ DisjointIn(crashing_queue')
            BY <1>5, <2>2, <3>1, <3>2, AppendQueued
        <3>4. crashing_queue' \in Seq(SUBSET Testcases) /\ Len(crashing_queue') <= Capacity
            BY <2>2, <3>1, Constants
        <3>. QED
            BY <3>3, <3>4
    <2>. QED
        BY <1>3, <2>1, <2>2
<1>7. SummaryTypes'
    BY <1>1, <1>2, <1>6 DEF SummaryTypes
<1>8. OnePlace'
    <2>1. Summarised' = Summarised
        BY <1>2 DEF Summarised
    <2>2. InOne(current_testcase_ids, crashing_testcase_ids, QueuedIn(crashing_queue),
                delay_processing, Summarised)'
        BY <1>2, <1>4, <1>5, <1>6, <2>1 DEF InOne
    <2>. QED
        BY <1>1, <1>2, <1>6, <2>2 DEF OnePlace
<1>. QED
    BY <1>7, <1>8 DEF SummaryInv

LEMMA UpdateCrashersKeepsSummary ==
    ASSUME QueueInv, SummaryInv, UpdateCrashers
    PROVE  SummaryInv'
<1>. DEFINE ids == Head(crashing_queue)
            found == store \intersect (delay_processing \union ids)
<1>1. SummaryTypes /\ OnePlace
    BY DEF SummaryInv
<1>2. /\ crashing_queue # <<>> /\ crashing_queue' = Tail(crashing_queue)
      /\ summarised' = [t \in Testcases |-> summarised[t] + Insertions(t, ids)]
      /\ delay_processing' = (delay_processing \union ids) \ store
      /\ UNCHANGED <<pc, launched, current_testcase_ids, crashing_testcase_ids, crashers>>
    BY DEF UpdateCrashers, StillDelayed, main_vars
<1>3. InOne(current_testcase_ids, crashing_testcase_ids, QueuedIn(crashing_queue),
            delay_processing, Summarised) /\ DisjointIn(crashing_queue)
    BY <1>1 DEF OnePlace
<1>4. crashing_queue \in Seq(SUBSET Testcases) /\ Len(crashing_queue) <= Capacity
    BY <1>1 DEF SummaryTypes
<1>5. /\ ids \in SUBSET Testcases
      /\ QueuedIn(crashing_queue) = QueuedIn(crashing_queue') \union ids
      /\ ids \intersect QueuedIn(crashing_queue') = {}
      /\ DisjointIn(crashing_queue')
    BY <1>2, <1>3, <1>4, TailQueued
<1>6. crashing_queue' \in Seq(SUBSET Testcases) /\ Len(crashing_queue') <= Capacity
    BY <1>2, <1>4, Constants
<1>. HIDE DEF ids, found
<1>7. \A t \in Testcases : Insertions(t, ids) = IF t \in found THEN 1 ELSE 0
    <2>1. delay_processing \intersect ids = {}
        BY <1>3, <1>5 DEF InOne
    <2>. QED
        BY <2>1, InsertedOnce DEF found
<1>8. \A t \in Testcases : summarised[t] \in Nat /\ summarised[t] <= 1
    BY <1>1 DEF SummaryTypes, OnePlace
<1>9. found \intersect Summarised = {}
    BY <1>3, <1>5 DEF InOne, found
<1>10. ASSUME NEW t \in Testcases
       PROVE  /\ summarised'[t] \in Nat /\ summarised'[t] <= 1
              /\ summarised'[t] # 0 => t \in Summarised \union found
    <2>1. summarised'[t] = summarised[t] + Insertions(t, ids)
        BY <1>2
    <2>2. CASE t \in found
        <3>1. summarised[t] = 0
            BY <1>9, <2>2 DEF Summarised
        <3>. QED
            BY <1>7, <2>1, <2>2, <3>1
    <2>3. CASE t \notin found
        <3>1. summarised'[t] = summarised[t]
            BY <1>7, <1>8, <2>1, <2>3
        <3>. QED
            BY <1>8, <3>1 DEF Summarised
    <2>. QED
        BY <2>2, <2>3
<1>11. SummaryTypes'
    <2>1. summarised' \in [Testcases -> Nat]
        BY <1>2, <1>10
    <2>2. delay_processing' \subseteq Testcases
        BY <1>1, <1>2, <1>5 DEF SummaryTypes
    <2>. QED
        BY <1>1, <1>2, <1>6, <2>1, <2>2 DEF SummaryTypes
<1>12. OnePlace'
    <2>1. Summarised' \subseteq Summarised \union found
        BY <1>10 DEF Summarised
    <2>2. Gathered' = Gathered
        BY <1>2 DEF Gathered
    <2>3. /\ found \subseteq delay_processing \union ids
          /\ found \intersect delay_processing' = {}
        BY <1>2 DEF found
    <2>4. InOne(current_testcase_ids, crashing_testcase_ids, QueuedIn(crashing_queue),
                delay_processing, Summarised)'
        BY <1>2, <1>3, <1>5, <2>1, <2>2, <2>3 DEF InOne
    <2>. QED
        BY <1>5, <1>10, <2>4 DEF OnePlace
<1>. QED
    BY <1>11, <1>12 DEF SummaryInv

(***************************************************************************)
(* Every step                                                              *)
(***************************************************************************)

\* The steps of the queue are elsewhere for the summary.
LEMMA QueueStepKeepsSummary ==
    ASSUME QueueInv, SummaryInv,
           \/ PushTestcase \/ FinishPush \/ PopTestcase \/ Put \/ PutFails \/ FinishPushBack
           \/ \E t \in Testcases : MarkCrashing(t)
    PROVE  SummaryInv'
<1>1. /\ UNCHANGED <<current_testcase_ids, crashing_testcase_ids, crashing_queue, summary_vars>>
      /\ \/ crashers' = crashers
         \/ \E t \in Testcases : crashers' = crashers \union {t}
    BY DEF PushTestcase, FinishPush, PopTestcase, Put, PutFails, FinishPushBack, MarkCrashing,
           main_vars
<1>2. crashers' \subseteq Testcases
    BY <1>1 DEF SummaryInv, SummaryTypes
<1>3. \/ pc = "launch" /\ launched' = launched + 1 /\ pc' \in {"push", "call"}
      \/ pc = "push" /\ launched' = launched /\ pc' = "call"
      \/ launched' = launched /\ pc' = pc
    BY DEF PushTestcase, FinishPush, PopTestcase, Put, PutFails, FinishPushBack, MarkCrashing,
           main_vars
<1>4. pc \in {"launch", "push", "call", "ask"}
    BY DEF QueueInv, QueueTypes
<1>5. Gathered \subseteq Gathered'
    BY <1>3, <1>4, GatheredGrows
<1>. QED
    BY <1>1, <1>2, <1>5, ElsewhereKeepsSummary

LEMMA StepKeeps == IInv /\ [Next]_vars => IInv'
<1>. SUFFICES ASSUME IInv, [Next]_vars PROVE IInv'
    OBVIOUS
<1>1. QueueInv /\ SummaryInv
    BY DEF IInv
<1>. errored' \in BOOLEAN
    BY DEF IInv, Next, Main, QueueReader, PushTestcase, FinishPush, Call, AskCrashing, Report,
           MarkCrashing, PopTestcase, Put, PutFails, FinishPushBack, UpdateCrashers, vars
<1>2. CASE \/ PushTestcase \/ FinishPush \/ PopTestcase \/ Put \/ PutFails \/ FinishPushBack
           \/ \E t \in Testcases : MarkCrashing(t)
    <2>1. SummaryInv'
        BY <1>1, <1>2, QueueStepKeepsSummary
    <2>2. ASSUME NEW t \in Testcases, MarkCrashing(t) PROVE QueueInv'
        BY <1>1, <2>2, ApartKeepsQueue DEF MarkCrashing, main_vars
    <2>3. QueueInv'
        BY <1>1, <1>2, <2>2, PushTestcaseKeepsQueue, FinishPushKeepsQueue, PopKeepsQueue,
           PutKeepsQueue, PutFailsKeepsQueue, FinishPushBackKeepsQueue
    <2>. QED
        BY <2>1, <2>3 DEF IInv
<1>3. CASE Call
    <2>1. QueueInv'
        <3>1. /\ pc # "push" /\ pc' # "push" /\ pc # "launch" /\ pc' \in {"launch", "push", "call", "ask"}
              /\ UNCHANGED <<launched, push_vars, read, store_vars>>
            BY <1>3 DEF Call
        <3>. QED
            BY <1>1, <3>1, ElsewhereKeepsQueue
    <2>. QED
        BY <1>1, <1>3, <2>1, CallKeepsSummary DEF IInv
<1>4. ASSUME NEW t \in Testcases, AskCrashing(t) PROVE IInv'
    <2>1. QueueInv'
        BY <1>1, <1>4, ApartKeepsQueue DEF AskCrashing
    <2>. QED
        BY <1>1, <1>4, <2>1, AskCrashingKeepsSummary DEF IInv
<1>5. CASE Report
    <2>1. QueueInv'
        <3>1. /\ pc # "push" /\ pc' # "push" /\ pc # "launch" /\ pc' \in {"launch", "push", "call", "ask"}
              /\ UNCHANGED <<launched, push_vars, read, store_vars>>
            BY <1>5 DEF Report
        <3>. QED
            BY <1>1, <3>1, ElsewhereKeepsQueue
    <2>. QED
        BY <1>1, <1>5, <2>1, ReportKeepsSummary DEF IInv
<1>6. CASE UpdateCrashers
    <2>1. QueueInv'
        BY <1>1, <1>6, ApartKeepsQueue DEF UpdateCrashers, main_vars
    <2>. QED
        BY <1>1, <1>6, <2>1, UpdateCrashersKeepsSummary DEF IInv
<1>7. CASE UNCHANGED vars
    <2>1. /\ UNCHANGED <<pc, launched, push_vars, read, store_vars, crashers>>
          /\ UNCHANGED <<current_testcase_ids, crashing_testcase_ids, crashing_queue, summary_vars>>
        BY <1>7 DEF vars, main_vars
    <2>2. Gathered' = Gathered /\ crashers' \subseteq Testcases
        BY <1>1, <2>1 DEF Gathered, SummaryInv, SummaryTypes
    <2>. QED
        BY <1>1, <2>1, <2>2, ApartKeepsQueue, ElsewhereKeepsSummary DEF IInv
<1>. QED
    BY <1>2, <1>3, <1>4, <1>5, <1>6, <1>7 DEF Next, Main, QueueReader

LEMMA Invariance == Spec => []IInv
BY InitHolds, StepKeeps, PTL DEF Spec

(***************************************************************************)
(* Theorems                                                                *)
(***************************************************************************)

\* The variables keep their types; the queue's indices stay within the pushes
\* that are ever made, of which each testcase makes one and each failed insertion
\* another (handler.cpp:661, 721-731).
THEOREM UiTypeCorrect == Spec => []TypeOK
<1>1. IInv => TypeOK
    BY TypesFollow
<1>. QED
    BY <1>1, Invariance, PTL

\* A testcase that was launched is stored, refused by a full queue, or on its
\* way, unless the pushes of two threads have overlapped (handler.cpp:724-728).
THEOREM NoTestcaseLost == Spec => []NoneLost
<1>1. IInv => NoneLost
    BY DEF IInv, QueueInv
<1>. QED
    BY <1>1, Invariance, PTL

\* No crash is summarised twice, however long its testcase is delayed
\* (ui.cpp:570-601).
THEOREM CrashSummarisedOnce == Spec => []SummarisedOnce
<1>1. IInv => SummarisedOnce
    <2>. SUFFICES ASSUME IInv, NEW t \in Testcases
                  PROVE  summarised[t] <= 1 /\ (summarised[t] = 1 => t \notin delay_processing)
        BY DEF SummarisedOnce
    <2>1. delay_processing \intersect Summarised = {} /\ summarised[t] <= 1
        BY DEF IInv, SummaryInv, OnePlace, InOne
    <2>2. summarised[t] = 1 => t \in Summarised
        BY DEF Summarised
    <2>. QED
        BY <2>1, <2>2
<1>. QED
    BY <1>1, Invariance, PTL
=============================================================================
