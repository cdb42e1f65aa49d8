------------------------------ MODULE Knowledge ------------------------------
(***************************************************************************)
(* What the fuzzer knows of the target: the graph of the blocks that were  *)
(* reached, with an LRU cache in front of its vertices (Coverage of         *)
(* knowledge.cpp, lrucache.h). The campaign adds the traces of its          *)
(* testcases; the UI's server thread evaluates the trace of an input the    *)
(* user has typed (isolated_evaluation of handler.cpp), on the same graph   *)
(* and without a lock but the cache's own.                                  *)
(*                                                                         *)
(* The campaign's thread is the trace retriever. An element of a trace is  *)
(* <<f>>, a function entered or left, or <<pred, cur>>, a step between two *)
(* blocks. Scores are kept as what they are sums of: how often something   *)
(* was scored as new (credited). Left out are the cache of block ids,      *)
(* which is used in the same way, the counts of local_coverage, and        *)
(* --fake-target-call, whose main loop uses a commander it has not made    *)
(* before it adds any trace.                                               *)
(***************************************************************************)
EXTENDS Naturals, FiniteSets, SequencesExt

CONSTANTS
    Functions, Blocks,
    Traces,            \* what children may leave
    Goals,             \* the summaries of each block
    MockedScores,      \* without models: what may be drawn for each block
    CacheSize,         \* LRU_CACHE_SIZE
    Unnamed,           \* the content of a vertex nobody has written yet
    MaxTraces          \* bound: traces of the campaign

Pairs == Blocks \X Blocks
Elements == {<<f>> : f \in Functions} \union Pairs

ASSUME KnowledgeAssumption ==
    /\ CacheSize \in Nat \ {0} /\ MaxTraces \in Nat
    /\ Traces \subseteq Seq(Elements)
    /\ Unnamed \notin Blocks
    /\ DOMAIN Goals = Blocks
    /\ MockedScores \subseteq [Blocks -> SUBSET UNION {Goals[b] : b \in Blocks}]
    /\ (UNION {Goals[b] : b \in Blocks}) \intersect Elements = {}  \* ids of two kinds

VARIABLES
    left_over,           \* an earlier session left its segment; does not change
    blind,               \* there are no models; does not change
    mocked_scores,       \* what is drawn for each block then; does not change
    at, todo, ends,      \* of each thread: place, rest of the trace, vertices found
    vertices, edges,     \* graph: the element of each vertex, pairs of vertices
    vertex_cache,        \* pairs of an element and its vertex, the last used first
    reached_functions, covered_goals,
    added,               \* traces of the campaign that were taken up
    credited,            \* history: how often the campaign was credited with what
    seen,                \* history: of each thread, the elements and goals it has scored
    collided,            \* history: two threads were adding a vertex at once
    failed               \* history: the threads that have run into an exception

given_vars == <<left_over, blind, mocked_scores>>
graph_vars == <<vertices, edges, vertex_cache, collided>>
score_vars == <<reached_functions, covered_goals, credited, seen>>
trace_vars == <<added, failed, given_vars>>
vars == <<at, todo, ends, graph_vars, score_vars, trace_vars>>

Threads == {"campaign", "evaluation"}
GoalIds == UNION {Goals[b] : b \in Blocks}
Vertices == DOMAIN vertices
Cached == {vertex_cache[i][1] : i \in DOMAIN vertex_cache}

TypeOK ==
    /\ left_over \in BOOLEAN /\ blind \in BOOLEAN /\ mocked_scores \in MockedScores
    /\ at \in [Threads -> {"idle", "waiting", "element", "get", "find", "add", "name", "goals",
                           "joining"}]
    /\ todo \in [Threads -> Seq(Elements)]
    /\ ends \in [Threads -> Seq(Vertices)] /\ \A p \in Threads : Len(ends[p]) <= 2
    /\ vertices \in Seq(Blocks \union {Unnamed})
    /\ edges \subseteq Vertices \X Vertices
    /\ vertex_cache \in Seq(Blocks \X Vertices)
    /\ Len(vertex_cache) = Cardinality(Cached) /\ Len(vertex_cache) <= CacheSize
    /\ reached_functions \subseteq Functions /\ covered_goals \subseteq GoalIds
    /\ added \in 0..MaxTraces
    /\ credited \in [Elements \union GoalIds -> Nat]
    /\ seen \in [Threads -> SUBSET (Elements \union GoalIds)]
    /\ collided \in BOOLEAN /\ failed \subseteq Threads

Init ==
    /\ left_over \in BOOLEAN /\ blind \in BOOLEAN /\ mocked_scores \in MockedScores
    /\ at = [p \in Threads |-> "idle"]
    /\ todo = [p \in Threads |-> <<>>] /\ ends = [p \in Threads |-> <<>>]
    /\ vertices = <<>> /\ edges = {} /\ vertex_cache = <<>>
    /\ reached_functions = {} /\ covered_goals = {}
    /\ added = 0
    /\ credited = [x \in Elements \union GoalIds |-> 0]
    /\ seen = [p \in Threads |-> {}] /\ collided = FALSE /\ failed = {}

-----------------------------------------------------------------------------
\* The cache. Each operation locks it, and exists() does not.
CachedVertex(e) == (CHOOSE i \in DOMAIN vertex_cache : vertex_cache[i][1] = e)
Others(e) == IF e \in Cached THEN RemoveAt(vertex_cache, CachedVertex(e)) ELSE vertex_cache
First(e, v) == <<<<e, v>>>> \o Others(e)

\* put().  Mutant: one more than the size is kept.
PutLate(e, v) ==
    vertex_cache' = IF Len(First(e, v)) > CacheSize + 1 THEN Front(First(e, v)) ELSE First(e, v)
Put(e, v) ==
    vertex_cache' = IF Len(First(e, v)) > CacheSize THEN Front(First(e, v)) ELSE First(e, v)

\* exists().
Exists(e) == e \in Cached

-----------------------------------------------------------------------------
\* The element in hand, and the block whose vertex is wanted next.
Element(p) == Head(todo[p])
OnPair(p) == at[p] # "idle" /\ todo[p] # <<>> /\ Len(Element(p)) = 2
Wanted(p) == Element(p)[Len(ends[p]) + 1]
WantsVertex(p) == at[p] = "element" /\ OnPair(p) /\ Len(ends[p]) < 2

Go(p, place) == at' = [at EXCEPT ![p] = place]
Found(p, v) ==
    /\ ends' = [ends EXCEPT ![p] = Append(@, v)]
    /\ Go(p, "element")

Score(p, new, xs) ==
    /\ seen' = [seen EXCEPT ![p] = @ \union xs]
    /\ credited' = IF p = "campaign"
                   THEN [x \in DOMAIN credited |-> credited[x] + (IF x \in new THEN 1 ELSE 0)]
                   ELSE credited
NextElement(p) ==
    /\ todo' = [todo EXCEPT ![p] = Tail(@)]
    /\ ends' = [ends EXCEPT ![p] = <<>>]

\* add_trace().
AddTrace(trace) ==
    /\ at["campaign"] = "idle" /\ added < MaxTraces
    /\ added' = added + 1
    /\ todo' = [todo EXCEPT !["campaign"] = trace]
    /\ Go("campaign", "element")
    /\ UNCHANGED <<ends, graph_vars, score_vars, failed, given_vars>>

\* isolated_evaluation() starts a child or fails to. It can be left only through
\* the destructor of its own Commander, which joins a thread that never ends: the
\* server has no other thread, so there is one evaluation at most.
StartEvaluation ==
    /\ at["evaluation"] = "idle"
    /\ \/ Go("evaluation", "waiting") \/ Go("evaluation", "joining")
    /\ UNCHANGED <<todo, ends, graph_vars, score_vars, trace_vars>>

\* The evaluation looks into the segment its handler opened, or created, when it
\* was constructed. initialize() then unlinks that segment and makes another, in
\* which the children leave their traces; no child writes to the first any more. A
\* trace is found there only if an interrupted session left the segment: testcases
\* are counted from the same start again, and one of that session has the id.
\* Mutant: initialize() does not unlink it.
SegmentKept == TRUE
StaleTraceFound == left_over

EvaluateTrace(trace) ==
    /\ at["evaluation"] = "waiting" /\ StaleTraceFound
    /\ todo' = [todo EXCEPT !["evaluation"] = trace]
    /\ Go("evaluation", "element")
    /\ UNCHANGED <<ends, graph_vars, score_vars, trace_vars>>

TraceDone(p) ==
    /\ at[p] = "element" /\ todo[p] = <<>>
    /\ Go(p, IF p = "campaign" THEN "idle" ELSE "joining")
    /\ UNCHANGED <<todo, ends, graph_vars, score_vars, trace_vars>>

\* Lookup, score and insertion are one step here: that both threads take the same
\* function or goal for new gives the evaluation a score nobody keeps.
ReachFunction(p) ==
    /\ at[p] = "element" /\ todo[p] # <<>> /\ Len(Element(p)) = 1
    /\ LET f == Element(p)[1] IN
        /\ reached_functions' = reached_functions \union {f}
        /\ Score(p, {<<f>>} \ {<<g>> : g \in reached_functions}, {<<f>>})
    /\ NextElement(p)
    /\ UNCHANGED <<at, graph_vars, covered_goals, trace_vars>>

-----------------------------------------------------------------------------
\* Coverage::add_vertex(): exists() and copy_get(), or find_vertex() and put(),
\* or bgl::add_vertex() and put().
CacheHit(p) ==
    /\ WantsVertex(p) /\ Exists(Wanted(p))
    /\ Go(p, "get")
    /\ UNCHANGED <<todo, ends, graph_vars, score_vars, trace_vars>>

CopyGet(p) ==
    /\ at[p] = "get" /\ Wanted(p) \in Cached
    /\ LET v == vertex_cache[CachedVertex(Wanted(p))][2] IN
        /\ vertex_cache' = First(Wanted(p), v)
        /\ Found(p, v)
    /\ UNCHANGED <<todo, vertices, edges, collided, score_vars, trace_vars>>

\* The element was evicted in between: copy_get() throws. The retriever catches it,
\* drops the rest of the trace and does not count the testcase, for which the main
\* loop then waits in vain (AddTraceFails of Generation).
CopyGetThrows(p) ==
    /\ at[p] = "get" /\ Wanted(p) \notin Cached
    /\ failed' = failed \union {p}
    /\ todo' = [todo EXCEPT ![p] = <<>>] /\ ends' = [ends EXCEPT ![p] = <<>>]
    /\ Go(p, IF p = "evaluation" THEN "joining" ELSE "idle")
    /\ UNCHANGED <<graph_vars, score_vars, added, given_vars>>

CacheMiss(p) ==
    /\ WantsVertex(p) /\ ~Exists(Wanted(p))
    /\ Go(p, "find")
    /\ UNCHANGED <<todo, ends, graph_vars, score_vars, trace_vars>>

\* The vertices of an element.  Mutant: find_vertex() stops before the last vertex.
AllButLast(e) == {v \in Vertices : vertices[v] = e /\ v < Len(vertices)}
VerticesOf(e) == {v \in Vertices : vertices[v] = e}

FindVertex(p) ==
    /\ at[p] = "find"
    /\ IF VerticesOf(Wanted(p)) = {}
       THEN Go(p, "add") /\ UNCHANGED <<ends, vertex_cache>>
       ELSE \E v \in VerticesOf(Wanted(p)) :
               /\ \A w \in VerticesOf(Wanted(p)) : v <= w
               /\ Put(Wanted(p), v)
               /\ Found(p, v)
    /\ UNCHANGED <<todo, vertices, edges, collided, score_vars, trace_vars>>

\* bgl::add_vertex() makes room for one more, and returns the last. (That a
\* vector which moves is read by the other thread is not modelled.)
AddVertex(p) ==
    /\ at[p] = "add"
    /\ vertices' = Append(vertices, Unnamed)
    /\ collided' = (collided \/ \E q \in Threads : at[q] = "name")
    /\ Go(p, "name")
    /\ UNCHANGED <<todo, ends, edges, vertex_cache, score_vars, trace_vars>>

NameVertex(p) ==
    /\ at[p] = "name"
    /\ vertices' = [vertices EXCEPT ![Len(vertices)] = Wanted(p)]
    /\ Put(Wanted(p), Len(vertices))
    /\ Found(p, Len(vertices))
    /\ UNCHANGED <<todo, edges, collided, score_vars, trace_vars>>

-----------------------------------------------------------------------------
\* Whether an edge that is new is added.  Mutant: by an evaluation, too.
AddsAny(p) == TRUE
AddsEdge(p) == p = "campaign"

\* add_edge(), after both vertices are there.
AddEdge(p) ==
    /\ at[p] = "element" /\ OnPair(p) /\ Len(ends[p]) = 2
    /\ LET edge == <<ends[p][1], ends[p][2]>> IN
        /\ Score(p, IF edge \in edges THEN {} ELSE {Element(p)}, {Element(p)})
        /\ edges' = IF AddsEdge(p) THEN edges \union {edge} ELSE edges
    /\ Go(p, "goals")
    /\ UNCHANGED <<todo, ends, vertices, vertex_cache, collided, reached_functions,
                   covered_goals, trace_vars>>

\* The goals of a block; without models there are none, and what was drawn for the
\* block is credited at each visit. (That it is drawn at the first visit, and by
\* either thread, does not show in what is credited to the campaign.)
GoalsOf(b) == IF blind THEN {} ELSE Goals[b]
NewGoals(b) == IF blind THEN mocked_scores[b] ELSE Goals[b] \ covered_goals

LookupGoals(p) ==
    /\ at[p] = "goals"
    /\ LET block == Element(p)[2] IN
        /\ covered_goals' = covered_goals \union GoalsOf(block)
        /\ Score(p, NewGoals(block), GoalsOf(block))
    /\ NextElement(p)
    /\ Go(p, "element")
    /\ UNCHANGED <<graph_vars, reached_functions, trace_vars>>

-----------------------------------------------------------------------------
Step(p) ==
    \/ TraceDone(p) \/ ReachFunction(p)
    \/ CacheHit(p) \/ CopyGet(p) \/ CopyGetThrows(p) \/ CacheMiss(p)
    \/ FindVertex(p) \/ AddVertex(p) \/ NameVertex(p)
    \/ AddEdge(p) \/ LookupGoals(p)

Next ==
    \/ \E trace \in Traces : AddTrace(trace) \/ EvaluateTrace(trace)
    \/ StartEvaluation
    \/ \E p \in Threads : Step(p)

Spec == Init /\ [][Next]_vars

(***************************************************************************)
(* Properties                                                              *)
(***************************************************************************)

Copies(e) == Cardinality({v \in Vertices : vertices[v] = e})

\* An evaluation may share the graph.
Disturbed == left_over /\ at["evaluation"] # "idle"

\* However the cache evicts, an element has a single vertex and the cache leads to
\* it. Where an evaluation shares the graph, because it has found a trace of an
\* earlier session, there are two at most and the cache leads to one of them, unless
\* two threads were inside bgl::add_vertex() at once (knowledge.cpp:220-252).
FewCopies ==
    ~collided =>
        /\ \A e \in Blocks : Copies(e) <= (IF Disturbed THEN 2 ELSE 1)
        /\ \A i \in DOMAIN vertex_cache : vertices[vertex_cache[i][2]] = vertex_cache[i][1]

\* What the campaign reaches is credited to one of its testcases, once. An
\* evaluation may spoil that for functions and goals, which it marks as reached,
\* but not for edges, unless it got an element a second vertex. Goals drawn for want
\* of models are not promised anything (knowledge.cpp:188-205, 254-275, 290-329).
NoveltyOnce ==
    ~collided =>
        /\ \A x \in seen["campaign"] \ Pairs : credited[x] = 1 \/ x \in seen["evaluation"]
        /\ \A x \in seen["campaign"] \intersect Pairs :
               credited[x] \in 1..(Copies(x[1]) * Copies(x[2]))
        /\ \A x \in DOMAIN credited \ Pairs : credited[x] <= 1 \/ (blind /\ x \in GoalIds)
        /\ {<<vertices[e[1]], vertices[e[2]]>> : e \in edges} = seen["campaign"] \intersect Pairs

\* A trace is added to its end. Only where an evaluation shares the cache, with a
\* trace of an earlier session, and the cache is too small for the blocks of the
\* target, can copy_get() miss what exists() has seen (lrucache.h:61-75,
\* handler.cpp:304-316).
FailsOnlyIfEvicted ==
    failed # {} =>
        /\ Disturbed
        /\ collided \/ Cardinality({vertices[v] : v \in Vertices} \ {Unnamed}) > CacheSize

\* The campaign's trace, what was reached and how often it was credited, as the
\* maps and the graph have it. Between the score of a step and that of its goals
\* these are still to come, and count as reached: a step and its goals are one.
\* What was drawn for want of models is left out.
Things == Elements \union GoalIds
WorthOf(no_goals) ==
    [x \in Elements |-> {x} \union (IF x \in Pairs /\ ~no_goals THEN Goals[x[2]] ELSE {})]
Coming == IF at["campaign"] = "goals" THEN GoalsOf(Element("campaign")[2]) ELSE {}
Left == IF at["campaign"] = "goals" THEN Tail(todo["campaign"]) ELSE todo["campaign"]
Joined == {<<vertices[e[1]], vertices[e[2]]>> : e \in edges}
Reached == {<<f>> : f \in reached_functions} \union Joined \union covered_goals \union Coming
Balance == [x \in Things |-> IF blind /\ x \in GoalIds THEN 0
                             ELSE credited[x] + (IF x \in Coming \ covered_goals THEN 1 ELSE 0)]

Oracle == INSTANCE Novelty WITH Worths <- {WorthOf(no_goals) : no_goals \in BOOLEAN},
              worth <- WorthOf(blind), todo <- Left, reached <- Reached, credited <- Balance

\* Until an evaluation shares the graph, which takes a trace that an earlier session
\* left, the campaign does what a set of what was reached would do, one trace after
\* the other, each to its end: neither the vertices nor the cache, whatever it
\* evicts, show in a score (knowledge.cpp:142-275, lrucache.h).
NoveltySpec == Oracle!Init /\ [][Disturbed' \/ Oracle!Next]_(Oracle!vars)
=============================================================================
