--------------------------- MODULE KnowledgeProofs ---------------------------
(***************************************************************************)
(* That a block has one vertex, or two where an evaluation shares the      *)
(* graph, that what is new is credited once, and that copy_get() misses    *)
(* only what was evicted, for any blocks, traces and size of the cache;     *)
(* and that the graph implements Novelty.                                  *)
(***************************************************************************)
EXTENDS Knowledge, FiniteSetTheorems, SequenceTheorems, TLAPS

Places == {"idle", "waiting", "element", "get", "find", "add", "name", "goals",
           "joining"}
Looking == {"get", "find", "add", "name"}

\* Where a thread is says what it has in hand: a step of its trace in the middle of
\* one, no vertex between two elements.
InPlace(p) ==
    /\ at[p] \in Looking \union {"goals"} => todo[p] # <<>> /\ Element(p) \in Pairs
    /\ at[p] \in Looking => Len(ends[p]) < 2
    /\ ends[p] # <<>> => todo[p] # <<>> /\ Element(p) \in Pairs
    /\ at[p] \in {"idle", "waiting"} => ends[p] = <<>>
    /\ at[p] = "name" => vertices # <<>>

\* An evaluation has a trace only where an earlier session left one.
EvaluatesShared ==
    at["evaluation"] \in Looking \union {"element", "goals"} => left_over

KeysDistinct(s) == \A i, j \in DOMAIN s : s[i][1] = s[j][1] => i = j

Shape ==
    /\ TypeOK /\ KeysDistinct(vertex_cache)
    /\ \A p \in Threads : InPlace(p)
    /\ EvaluatesShared

\* Until two threads meet in bgl::add_vertex(), the one vertex without a content is
\* the last, while the thread that made it has yet to name it.
OneUnnamed ==
    /\ \A p, q \in Threads : at[p] = "name" /\ at[q] = "name" => p = q
    /\ \A p \in Threads : at[p] = "name" => vertices[Len(vertices)] = Unnamed
    /\ \A v \in Vertices : vertices[v] = Unnamed =>
           v = Len(vertices) /\ \E p \in Threads : at[p] = "name"

\* What the cache, the threads and the edges keep are vertices of the right block.
RightVertices ==
    /\ \A i \in DOMAIN vertex_cache : vertices[vertex_cache[i][2]] = vertex_cache[i][1]
    /\ \A p \in Threads : \A i \in 1..Len(ends[p]) : vertices[ends[p][i]] = Element(p)[i]
    /\ \A e \in edges : vertices[e[1]] \in Blocks /\ vertices[e[2]] \in Blocks

\* The threads that have found no vertex of e, and will name one.
Adding(e) == {p \in Threads : at[p] \in {"add", "name"} /\ Wanted(p) = e}
Most == IF Disturbed THEN 2 ELSE 1
CopiesAndAdding == \A e \in Blocks : Copies(e) + Cardinality(Adding(e)) <= Most

Graph == ~collided => OneUnnamed /\ RightVertices /\ CopiesAndAdding

\* What exists() has seen is there, unless it was evicted by the other thread.
Known == {vertices[v] : v \in Vertices} \ {Unnamed}
Evicted == Disturbed /\ (collided \/ Cardinality(Known) > CacheSize)
GetsCached == \A p \in Threads : at[p] = "get" => Wanted(p) \in Cached \/ Evicted

\* Functions and goals: x is reached, or not.
CreditOf(reached, x) ==
    IF reached THEN credited[x] = 1 \/ (credited[x] = 0 /\ x \in seen["evaluation"])
               ELSE credited[x] = 0 /\ x \notin seen["campaign"]
GoalCredit(g) == IF blind THEN g \notin seen["campaign"] ELSE CreditOf(g \in covered_goals, g)
Credits ==
    /\ \A f \in Functions : CreditOf(f \in reached_functions, <<f>>)
    /\ \A g \in GoalIds : GoalCredit(g)

\* Edges: a pair of blocks was credited once for each edge between their vertices.
EdgesOf(x) == {e \in edges : vertices[e[1]] = x[1] /\ vertices[e[2]] = x[2]}
EdgeCredits ==
    \A x \in Pairs : /\ credited[x] = Cardinality(EdgesOf(x))
                     /\ x \in seen["campaign"] <=> EdgesOf(x) # {}

IndInv ==
    /\ Shape /\ Graph /\ GetsCached /\ FailsOnlyIfEvicted
    /\ Credits /\ (~collided => EdgeCredits)

-----------------------------------------------------------------------------
\* What a block has, or was drawn for it, are goals.
LEMMA GoalsTyped ==
  ASSUME NEW b \in Blocks, mocked_scores \in MockedScores
  PROVE  GoalsOf(b) \subseteq GoalIds /\ NewGoals(b) \subseteq GoalIds
<1>1. Goals[b] \subseteq GoalIds
  BY DEF GoalIds
<1>2. mocked_scores[b] \subseteq GoalIds
  BY KnowledgeAssumption DEF GoalIds
<1> QED
  BY <1>1, <1>2 DEF GoalsOf, NewGoals

\* An element is a function, or a pair of blocks.
LEMMA ElementKinds ==
  ASSUME NEW x \in Elements
  PROVE  /\ Len(x) = 2 => x \in Pairs /\ x[1] \in Blocks /\ x[2] \in Blocks
         /\ Len(x) = 1 => \E f \in Functions : x = <<f>>
         /\ x \in Pairs => Len(x) = 2 /\ x = <<x[1], x[2]>>
<1>1. ASSUME NEW f \in Functions, x = <<f>>
      PROVE  Len(x) = 1 /\ x \notin Pairs
  BY <1>1 DEF Pairs
<1>2. ASSUME x \in Pairs
      PROVE  Len(x) = 2 /\ x[1] \in Blocks /\ x[2] \in Blocks /\ x = <<x[1], x[2]>>
  BY <1>2 DEF Pairs
<1> QED
  BY <1>1, <1>2 DEF Elements

\* The keys of a cache.
Keys(s) == {s[i][1] : i \in DOMAIN s}

\* Where they differ there are as many keys as entries.
LEMMA KeysCounted ==
  ASSUME NEW S, NEW T, NEW s \in Seq(S \X T), KeysDistinct(s)
  PROVE  IsFiniteSet(Keys(s)) /\ Cardinality(Keys(s)) = Len(s)
<1> DEFINE K == {s[i][1] : i \in DOMAIN s}
           f == [i \in 1..Len(s) |-> s[i][1]]
<1>1. f \in Bijection(1..Len(s), K)
  <2>1. f \in [1..Len(s) -> K]
    OBVIOUS
  <2>2. \A k \in K : \E i \in 1..Len(s) : f[i] = k
    OBVIOUS
  <2>3. \A i, j \in 1..Len(s) : f[i] = f[j] => i = j
    BY DEF KeysDistinct
  <2> QED
    BY <2>1, <2>2, <2>3 DEF Bijection, Injection, Surjection, IsInjective
<1> HIDE DEF K, f
<1>2. ExistsBijection(1..Len(s), K)
  BY <1>1, Zenon DEF ExistsBijection
<1>5. Len(s) \in Nat
  OBVIOUS
<1>3. Cardinality(K) = Len(s)
  BY <1>2, <1>5, FS_CountingElements
<1>4. IsFiniteSet(K)
  BY <1>2, <1>5, FS_NatBijection
<1> QED
  BY <1>3, <1>4 DEF K, Keys

-----------------------------------------------------------------------------
\* A sequence without its k-th element.
LEMMA WithoutOne ==
  ASSUME NEW S, NEW s \in Seq(S), NEW k \in 1..Len(s)
  PROVE  /\ RemoveAt(s, k) \in Seq(S)
         /\ Len(RemoveAt(s, k)) = Len(s) - 1
         /\ \A i \in 1..(Len(s) - 1) : RemoveAt(s, k)[i] = IF i < k THEN s[i] ELSE s[i + 1]
<1> DEFINE x == SubSeq(s, 1, k - 1)
           y == SubSeq(s, k + 1, Len(s))
<1>1. /\ x \in Seq(S) /\ Len(x) = k - 1
      /\ \A i \in 1..(k - 1) : x[i] = s[i]
  <2>1. \A i \in 1..(k - 1) : s[i] \in S
    OBVIOUS
  <2> QED
    BY <2>1, SubSeqProperties
<1>2. /\ y \in Seq(S) /\ Len(y) = Len(s) - k
      /\ \A i \in 1..(Len(s) - k) : y[i] = s[k + i]
  <2>1. \A i \in (k + 1)..Len(s) : s[i] \in S
    OBVIOUS
  <2>2. /\ y \in Seq(S) /\ Len(y) = IF k + 1 <= Len(s) THEN Len(s) - (k + 1) + 1 ELSE 0
        /\ \A i \in 1..(Len(s) - (k + 1) + 1) : y[i] = s[(k + 1) + i - 1]
    BY <2>1, SubSeqProperties
  <2> HIDE DEF y
  <2> QED
    BY <2>2
<1> HIDE DEF x, y
<1>3. /\ x \o y \in Seq(S) /\ Len(x \o y) = Len(s) - 1
      /\ \A i \in 1..(Len(s) - 1) : (x \o y)[i] = IF i <= k - 1 THEN x[i] ELSE y[i - (k - 1)]
  <2>1. /\ x \o y \in Seq(S) /\ Len(x \o y) = Len(x) + Len(y)
        /\ \A i \in 1..(Len(x) + Len(y)) :
               (x \o y)[i] = IF i <= Len(x) THEN x[i] ELSE y[i - Len(x)]
    BY <1>1, <1>2, ConcatProperties
  <2>2. Len(x) = k - 1 /\ Len(x) + Len(y) = Len(s) - 1
    BY <1>1, <1>2
  <2> QED
    BY <2>1, <2>2
<1>4. \A i \in 1..(Len(s) - 1) : (x \o y)[i] = IF i < k THEN s[i] ELSE s[i + 1]
  <2> TAKE i \in 1..(Len(s) - 1)
  <2>1. CASE i < k
    <3>1. i \in 1..(k - 1)
      BY <2>1
    <3> QED
      BY <2>1, <3>1, <1>1, <1>3
  <2>2. CASE i >= k
    <3>1. i - (k - 1) \in 1..(Len(s) - k) /\ k + (i - (k - 1)) = i + 1
      BY <2>2
    <3>2. y[i - (k - 1)] = s[i + 1]
      BY <3>1, <1>2
    <3>3. (x \o y)[i] = y[i - (k - 1)]
      BY <2>2, <1>3
    <3> QED
      BY <2>2, <3>2, <3>3
  <2>3. i < k \/ i >= k
    OBVIOUS
  <2> QED
    BY <2>1, <2>2, <2>3, Zenon
<1> QED
  BY <1>3, <1>4 DEF RemoveAt, x, y

\* Entry x is in the cache s.
Has(s, x) == \E i \in DOMAIN s : s[i] = x

CacheOf(s, V) == s \in Seq(Blocks \X V) /\ KeysDistinct(s)

\* The entries but that of e, in their order.
LEMMA OthersKept ==
  ASSUME NEW V, CacheOf(vertex_cache, V), NEW e \in Blocks
  PROVE  /\ CacheOf(Others(e), V)
         /\ e \notin Keys(Others(e))
         /\ Len(Others(e)) <= Len(vertex_cache)
         /\ e \in Cached => Len(Others(e)) = Len(vertex_cache) - 1
         /\ \A i \in DOMAIN Others(e) : Has(vertex_cache, Others(e)[i])
         /\ \A i \in DOMAIN vertex_cache :
                vertex_cache[i][1] # e => Has(Others(e), vertex_cache[i])
<1> DEFINE s == vertex_cache
           t == Others(e)
<1>0. s \in Seq(Blocks \X V) /\ KeysDistinct(s) /\ Len(s) \in Nat /\ DOMAIN s = 1..Len(s)
  BY DEF CacheOf
<1>1. CASE e \in Cached
  <2> DEFINE k == CachedVertex(e)
  <2>1. k \in 1..Len(s) /\ s[k][1] = e
    BY <1>0, <1>1 DEF Cached, CachedVertex
  <2>2. \A i \in 1..Len(s) : i # k => s[i][1] # e
    BY <1>0, <2>1 DEF KeysDistinct
  <2>3. t = RemoveAt(s, k)
    BY <1>1 DEF Others
  <2> HIDE DEF k, t, s
  <2>4. /\ t \in Seq(Blocks \X V) /\ Len(t) = Len(s) - 1 /\ DOMAIN t = 1..(Len(s) - 1)
        /\ \A i \in 1..(Len(s) - 1) : t[i] = IF i < k THEN s[i] ELSE s[i + 1]
    <3>1. /\ t \in Seq(Blocks \X V) /\ Len(t) = Len(s) - 1
          /\ \A i \in 1..(Len(s) - 1) : t[i] = IF i < k THEN s[i] ELSE s[i + 1]
      BY <1>0, <2>1, <2>3, WithoutOne
    <3> QED
      BY <3>1
  <2>5. \A i \in DOMAIN t : \E j \in 1..Len(s) : j # k /\ t[i] = s[j]
    <3> TAKE i \in DOMAIN t
    <3>1. i \in 1..(Len(s) - 1) /\ t[i] = IF i < k THEN s[i] ELSE s[i + 1]
      BY <2>4
    <3>2. CASE i < k
      <4>1. i \in 1..Len(s) /\ i # k /\ t[i] = s[i]
        BY <1>0, <2>1, <3>1, <3>2
      <4> QED
        BY <4>1
    <3>3. CASE ~(i < k)
      <4>1. i + 1 \in 1..Len(s) /\ i + 1 # k /\ t[i] = s[i + 1]
        BY <1>0, <2>1, <3>1, <3>3
      <4> QED
        BY <4>1
    <3> QED
      BY <3>2, <3>3
  <2>6. \A j \in 1..Len(s) : j # k => \E i \in DOMAIN t : t[i] = s[j]
    <3> SUFFICES ASSUME NEW j \in 1..Len(s), j # k
                 PROVE  \E i \in DOMAIN t : t[i] = s[j]
      OBVIOUS
    <3>1. CASE j < k
      <4>1. j \in DOMAIN t /\ t[j] = s[j]
        BY <3>1, <1>0, <2>1, <2>4
      <4> QED
        BY <4>1
    <3>2. CASE j > k
      <4>1. j - 1 \in 1..(Len(s) - 1) /\ ~(j - 1 < k) /\ (j - 1) + 1 = j
        BY <3>2, <1>0, <2>1
      <4>2. j - 1 \in DOMAIN t /\ t[j - 1] = s[j]
        BY <4>1, <2>4
      <4> QED
        BY <4>2
    <3> QED
      BY <3>1, <3>2, <1>0, <2>1
  <2>7. KeysDistinct(t)
    <3> SUFFICES ASSUME NEW i \in 1..(Len(s) - 1), NEW j \in 1..(Len(s) - 1),
                        t[i][1] = t[j][1]
                 PROVE  i = j
      BY <2>4 DEF KeysDistinct
    <3> DEFINE at_s(n) == IF n < k THEN n ELSE n + 1
    <3>1. at_s(i) \in 1..Len(s) /\ at_s(j) \in 1..Len(s)
      BY <1>0, <2>1
    <3>2. t[i] = s[at_s(i)] /\ t[j] = s[at_s(j)]
      BY <2>4
    <3>3. at_s(i) = at_s(j)
      BY <1>0, <3>1, <3>2 DEF KeysDistinct
    <3> QED
      BY <3>3, <1>0, <2>1
  <2>8. e \notin Keys(t)
    BY <2>2, <2>5 DEF Keys
  <2>9. \A i \in DOMAIN t : Has(s, t[i])
    BY <1>0, <2>5 DEF Has
  <2>10. \A i \in DOMAIN s : s[i][1] # e => Has(t, s[i])
    BY <1>0, <2>1, <2>6 DEF Has
  <2>11. Len(t) <= Len(s) /\ Len(t) = Len(s) - 1
    BY <1>0, <2>4
  <2> QED
    BY <2>4, <2>7, <2>8, <2>9, <2>10, <2>11 DEF CacheOf, s, t
<1>2. CASE e \notin Cached
  <2>1. t = s
    BY <1>2 DEF Others
  <2>2. e \notin Keys(s)
    BY <1>2 DEF Keys, Cached
  <2>3. \A i \in DOMAIN s : Has(s, s[i])
    BY DEF Has
  <2>4. CacheOf(s, V) /\ Len(s) <= Len(s)
    BY <1>0
  <2> HIDE DEF t, s
  <2>5. CacheOf(t, V) /\ e \notin Keys(t) /\ Len(t) <= Len(s) /\ \A i \in DOMAIN t : Has(s, t[i])
    BY <2>1, <2>2, <2>3, <2>4
  <2>6. \A i \in DOMAIN s : Has(t, s[i])
    BY <2>1, <2>3
  <2> QED
    BY <1>2, <2>5, <2>6 DEF s, t
<1> QED
  BY <1>1, <1>2

\* The entry for e in front of the others.
LEMMA FirstKept ==
  ASSUME NEW V, CacheOf(vertex_cache, V), NEW e \in Blocks, NEW v \in V
  PROVE  /\ CacheOf(First(e, v), V)
         /\ First(e, v)[1] = <<e, v>>
         /\ Len(First(e, v)) = Len(Others(e)) + 1
         /\ Len(Others(e)) <= Len(vertex_cache) /\ Len(Others(e)) \in Nat
         /\ e \in Cached => Len(Others(e)) = Len(vertex_cache) - 1
         /\ \A i \in DOMAIN First(e, v) :
                First(e, v)[i] = <<e, v>> \/ Has(vertex_cache, First(e, v)[i])
         /\ Keys(First(e, v)) = Cached \union {e}
<1> DEFINE t == Others(e)
           u == First(e, v)
<1>0. CacheOf(t, V) /\ e \notin Keys(t)
  BY OthersKept
<1>2. u = <<<<e, v>>>> \o t
  BY DEF First
<1> HIDE DEF t, u
<1>1. /\ t \in Seq(Blocks \X V) /\ KeysDistinct(t) /\ e \notin Keys(t)
      /\ Len(t) \in Nat /\ DOMAIN t = 1..Len(t)
  BY <1>0 DEF CacheOf
<1>3. /\ u \in Seq(Blocks \X V) /\ Len(u) = Len(t) + 1 /\ DOMAIN u = 1..(Len(t) + 1)
      /\ u[1] = <<e, v>>
      /\ \A i \in 2..(Len(t) + 1) : i - 1 \in DOMAIN t /\ u[i] = t[i - 1]
  <2>1. <<e, v>> \in Blocks \X V
    OBVIOUS
  <2> QED
    BY <1>1, <1>2, <2>1
<1>4. \A i \in 2..(Len(t) + 1) : u[i][1] # e
  BY <1>1, <1>3 DEF Keys
<1>5. KeysDistinct(u)
  <2>1. \A i, j \in 2..(Len(t) + 1) : u[i][1] = u[j][1] => i = j
    <3> SUFFICES ASSUME NEW i \in 2..(Len(t) + 1), NEW j \in 2..(Len(t) + 1),
                        u[i][1] = u[j][1]
                 PROVE  i = j
      OBVIOUS
    <3>1. i - 1 \in DOMAIN t /\ j - 1 \in DOMAIN t /\ t[i - 1][1] = t[j - 1][1]
      BY <1>3
    <3>2. i - 1 = j - 1
      BY <1>1, <3>1 DEF KeysDistinct
    <3> QED
      BY <3>2
  <2>2. u[1][1] = e
    BY <1>3
  <2> QED
    BY <1>1, <1>3, <1>4, <2>1, <2>2 DEF KeysDistinct
<1>6. \A i \in DOMAIN u : u[i] = <<e, v>> \/ Has(vertex_cache, u[i])
  <2>1. \A i \in DOMAIN t : Has(vertex_cache, t[i])
    BY OthersKept DEF t
  <2>2. \A i \in DOMAIN u : i = 1 \/ i \in 2..(Len(t) + 1)
    BY <1>1, <1>3
  <2> QED
    BY <1>3, <2>1, <2>2
<1>7. Keys(u) = Cached \union {e}
  <2>1. Keys(u) \subseteq Cached \union {e}
    BY <1>6 DEF Keys, Cached, Has
  <2>2. \A i \in DOMAIN vertex_cache :
            vertex_cache[i][1] # e => \E j \in DOMAIN t : t[j] = vertex_cache[i]
    BY OthersKept DEF t, Has
  <2>3. \A j \in DOMAIN t : j + 1 \in DOMAIN u /\ u[j + 1] = t[j]
    BY <1>1, <1>3
  <2>4. \A x \in Cached : x # e => x \in Keys(u)
    BY <2>2, <2>3 DEF Keys, Cached
  <2>5. e \in Keys(u)
    BY <1>1, <1>3 DEF Keys
  <2> QED
    BY <2>1, <2>4, <2>5
<1> QED
  BY <1>1, <1>3, <1>5, <1>6, <1>7, OthersKept DEF CacheOf, t, u

\* What copy_get() and put() leave in the cache.
LEMMA PutKept ==
  ASSUME NEW V, CacheOf(vertex_cache, V), Len(vertex_cache) <= CacheSize,
         NEW e \in Blocks, NEW v \in V, Put(e, v)
  PROVE  /\ CacheOf(vertex_cache', V) /\ Len(vertex_cache') <= CacheSize
         /\ \A i \in DOMAIN vertex_cache' :
                vertex_cache'[i] = <<e, v>> \/ Has(vertex_cache, vertex_cache'[i])
         /\ \/ Cached' = Cached \union {e}
            \/ Cardinality(Cached \union {e}) > CacheSize
<1> DEFINE u == First(e, v)
           n == Len(u)
<1>0. CacheSize \in Nat \ {0}
  BY KnowledgeAssumption
<1>1. /\ CacheOf(u, V) /\ u[1] = <<e, v>> /\ n \in Nat \ {0}
      /\ n <= Len(vertex_cache) + 1 /\ Len(vertex_cache) \in Nat
      /\ \A i \in DOMAIN u : u[i] = <<e, v>> \/ Has(vertex_cache, u[i])
      /\ Keys(u) = Cached \union {e}
  <2>1. Len(vertex_cache) \in Nat
    BY DEF CacheOf
  <2> QED
    BY <2>1, FirstKept
<1>2. vertex_cache' = IF n > CacheSize THEN Front(u) ELSE u
  BY DEF Put
<1> HIDE DEF u
<1>3. u \in Seq(Blocks \X V) /\ KeysDistinct(u) /\ DOMAIN u = 1..n
  BY <1>1 DEF CacheOf
<1>4. CASE n > CacheSize
  <2> DEFINE w == Front(u)
  <2>1. /\ w \in Seq(Blocks \X V) /\ Len(w) = n - 1
        /\ \A i \in 1..(n - 1) : w[i] = u[i]
    <3>1. \A i \in 1..(n - 1) : u[i] \in Blocks \X V
      BY <1>3
    <3>2. w = SubSeq(u, 1, n - 1)
      BY DEF Front
    <3>3. /\ w \in Seq(Blocks \X V)
          /\ Len(w) = IF 1 <= n - 1 THEN n - 1 - 1 + 1 ELSE 0
          /\ \A i \in 1..(n - 1 - 1 + 1) : w[i] = u[1 + i - 1]
      BY <1>1, <3>1, <3>2, SubSeqProperties
    <3>4. n \in Nat \ {0}
      BY <1>1
    <3> HIDE DEF w, n
    <3>5. Len(w) = n - 1
      BY <3>3, <3>4
    <3>6. \A i \in 1..(n - 1) : w[i] = u[i]
      <4> TAKE i \in 1..(n - 1)
      <4>1. i \in 1..(n - 1 - 1 + 1) /\ 1 + i - 1 = i
        BY <3>4
      <4> QED
        BY <3>3, <4>1
    <3> QED
      BY <3>3, <3>5, <3>6
  <2>a. n \in Nat \ {0} /\ DOMAIN u = 1..n
    BY <1>1, <1>3
  <2> HIDE DEF w, n
  <2>2. DOMAIN w = 1..(n - 1) /\ n - 1 \in Nat
    BY <2>a, <2>1
  <2>3. KeysDistinct(w)
    BY <1>3, <2>a, <2>1, <2>2 DEF KeysDistinct
  <2>4. Cardinality(Keys(u)) = n
    BY <1>3, KeysCounted DEF n
  <2>5. \A i \in DOMAIN w : w[i] = <<e, v>> \/ Has(vertex_cache, w[i])
    BY <1>1, <1>3, <2>1, <2>2
  <2>6. Len(w) <= CacheSize
    <3>1. n <= Len(vertex_cache) + 1 /\ Len(vertex_cache) \in Nat
      BY <1>1 DEF n
    <3> QED
      BY <1>0, <2>a, <2>1, <3>1
  <2>7. Cardinality(Cached \union {e}) > CacheSize
    BY <1>1, <1>4, <2>4 DEF n
  <2>8. vertex_cache' = w
    BY <1>2, <1>4 DEF w
  <2> QED
    BY <2>1, <2>3, <2>5, <2>6, <2>7, <2>8 DEF CacheOf
<1>5. CASE ~(n > CacheSize)
  <2>1. vertex_cache' = u
    BY <1>2, <1>5
  <2>2. Cached' = Keys(vertex_cache')
    BY DEF Cached, Keys
  <2>3. n <= CacheSize
    BY <1>0, <1>1, <1>5
  <2> QED
    BY <1>1, <2>1, <2>2, <2>3
<1> QED
  BY <1>4, <1>5

\* copy_get() moves the entry of a cached element to the front.
LEMMA GetKept ==
  ASSUME NEW V, CacheOf(vertex_cache, V), Len(vertex_cache) <= CacheSize,
         NEW e \in Cached, e \in Blocks, NEW v \in V, vertex_cache' = First(e, v)
  PROVE  /\ CacheOf(vertex_cache', V) /\ Len(vertex_cache') <= CacheSize
         /\ \A i \in DOMAIN vertex_cache' :
                vertex_cache'[i] = <<e, v>> \/ Has(vertex_cache, vertex_cache'[i])
         /\ Cached' = Cached
<1> DEFINE u == First(e, v)
<1>0. CacheSize \in Nat /\ Len(vertex_cache) \in Nat
  BY KnowledgeAssumption DEF CacheOf
<1>1. /\ CacheOf(u, V) /\ Len(u) = Len(vertex_cache) - 1 + 1
      /\ \A i \in DOMAIN u : u[i] = <<e, v>> \/ Has(vertex_cache, u[i])
      /\ Keys(u) = Cached \union {e}
  BY FirstKept
<1>2. Len(u) <= CacheSize
  BY <1>0, <1>1
<1>3. Cached' = Keys(vertex_cache')
  BY DEF Cached, Keys
<1> HIDE DEF u
<1>4. vertex_cache' = u
  BY DEF u
<1> QED
  BY <1>1, <1>2, <1>3, <1>4

\* A vertex the cache leads to.
LEMMA CachedEntry ==
  ASSUME NEW V, CacheOf(vertex_cache, V), NEW e \in Cached
  PROVE  /\ CachedVertex(e) \in DOMAIN vertex_cache
         /\ vertex_cache[CachedVertex(e)][1] = e
         /\ vertex_cache[CachedVertex(e)][2] \in V
BY DEF CacheOf, Cached, CachedVertex

\* As many entries as keys.
LEMMA CacheTyped ==
  ASSUME NEW V, NEW s, CacheOf(s, V)
  PROVE  Len(s) = Cardinality(Keys(s))
BY KeysCounted DEF CacheOf

-----------------------------------------------------------------------------
\* A thread in the middle of an element wants a block.
LEMMA WantsBlock ==
  ASSUME Shape, NEW p \in Threads, at[p] \in Looking \/ WantsVertex(p)
  PROVE  /\ todo[p] # <<>> /\ Element(p) \in Pairs /\ (Len(ends[p]) = 0 \/ Len(ends[p]) = 1)
         /\ Wanted(p) \in Blocks
<1>1. Len(ends[p]) = 0 \/ Len(ends[p]) = 1
  <2>1. ends[p] \in Seq(Vertices) /\ Len(ends[p]) < 2
    BY DEF Shape, TypeOK, InPlace, WantsVertex
  <2>2. \A n \in Nat : n < 2 => n = 0 \/ n = 1
    OBVIOUS
  <2>3. Len(ends[p]) \in Nat
    BY <2>1
  <2> QED
    BY <2>1, <2>2, <2>3, Zenon
<1>2. todo[p] # <<>> /\ Element(p) \in Pairs
  <2>1. CASE at[p] \in Looking
    BY <2>1 DEF Shape, InPlace
  <2>2. CASE WantsVertex(p)
    <3>1. todo[p] # <<>> /\ Len(Element(p)) = 2 /\ todo[p] \in Seq(Elements)
      BY <2>2 DEF WantsVertex, OnPair, Shape, TypeOK
    <3>2. Element(p) \in Elements
      BY <3>1 DEF Element
    <3> QED
      BY <3>1, <3>2, ElementKinds
  <2> QED
    BY <2>1, <2>2
<1>3. Wanted(p) \in Blocks
  <2>1. Element(p)[1] \in Blocks /\ Element(p)[2] \in Blocks
    BY <1>2 DEF Pairs
  <2>2. 0 + 1 = 1 /\ 1 + 1 = 2
    OBVIOUS
  <2> QED
    BY <1>1, <2>1, <2>2, Zenon DEF Wanted
<1> QED
  BY <1>1, <1>2, <1>3

-----------------------------------------------------------------------------
\* Types. A step is of one thread, and the graph does not get smaller.
Alone(p) == \A q \in Threads : q # p => /\ at'[q] = at[q] /\ todo'[q] = todo[q]
                                        /\ ends'[q] = ends[q]

\* The steps between elements and before a lookup: they change no knowledge.
LEMMA TraceActions ==
  ASSUME Shape, NEW p \in Threads,
         \/ p = "campaign" /\ \E trace \in Traces : AddTrace(trace)
         \/ p = "evaluation" /\ StartEvaluation
         \/ p = "evaluation" /\ \E trace \in Traces : EvaluateTrace(trace)
         \/ TraceDone(p) \/ CacheHit(p) \/ CacheMiss(p) \/ CopyGetThrows(p)
  PROVE  /\ Alone(p)
         /\ at' \in [Threads -> Places] /\ todo' \in [Threads -> Seq(Elements)]
         /\ ends' \in [Threads -> Seq(Vertices)] /\ \A q \in Threads : Len(ends'[q]) <= 2
         /\ added' \in 0..MaxTraces /\ failed' \subseteq Threads
         /\ InPlace(p)' /\ EvaluatesShared'
         /\ UNCHANGED given_vars /\ UNCHANGED <<graph_vars, score_vars>>
<1> USE DEF Places
<1>t. /\ at \in [Threads -> Places] /\ todo \in [Threads -> Seq(Elements)]
      /\ ends \in [Threads -> Seq(Vertices)] /\ \A q \in Threads : Len(ends[q]) <= 2
      /\ added \in 0..MaxTraces /\ failed \subseteq Threads
      /\ \A q \in Threads : InPlace(q)
      /\ EvaluatesShared
  BY DEF Shape, TypeOK
<1>1. ASSUME p = "campaign", NEW trace \in Traces, AddTrace(trace)
      PROVE  /\ Alone(p)
             /\ at' \in [Threads -> Places] /\ todo' \in [Threads -> Seq(Elements)]
             /\ ends' = ends
             /\ added' \in 0..MaxTraces /\ failed' \subseteq Threads
             /\ InPlace(p)' /\ EvaluatesShared'
             /\ UNCHANGED given_vars /\ UNCHANGED <<graph_vars, score_vars>>
  <2>1. trace \in Seq(Elements) /\ MaxTraces \in Nat
    BY KnowledgeAssumption
  <2>2. /\ at' = [at EXCEPT ![p] = "element"] /\ todo' = [todo EXCEPT ![p] = trace]
        /\ ends' = ends /\ added' = added + 1 /\ added < MaxTraces /\ failed' = failed
        /\ UNCHANGED given_vars /\ UNCHANGED <<graph_vars, score_vars>>
        /\ at[p] = "idle"
    BY <1>1 DEF AddTrace, Go
  <2>3. ends[p] = <<>>
    BY <1>t, <2>2 DEF InPlace
  <2>4. InPlace(p)'
    BY <1>t, <2>2, <2>3 DEF InPlace, Looking
  <2>5. EvaluatesShared'
    BY <1>1, <1>t, <2>2 DEF EvaluatesShared, given_vars
  <2>6. added' \in 0..MaxTraces
    BY <1>t, <2>1, <2>2
  <2> QED
    BY <1>t, <2>1, <2>2, <2>4, <2>5, <2>6 DEF Alone
<1>2. ASSUME p = "evaluation", StartEvaluation
      PROVE  /\ Alone(p)
             /\ at' \in [Threads -> Places]
             /\ UNCHANGED <<todo, ends, added, failed, given_vars, graph_vars, score_vars>>
             /\ InPlace(p)' /\ EvaluatesShared'
  <2>1. /\ \E pl \in {"waiting", "joining"} : at' = [at EXCEPT ![p] = pl]
        /\ UNCHANGED <<todo, ends, added, failed, given_vars, graph_vars, score_vars>>
        /\ at[p] = "idle"
    BY <1>2 DEF StartEvaluation, Go, trace_vars
  <2>2. InPlace(p)'
    BY <1>t, <2>1 DEF InPlace, Looking
  <2> QED
    BY <1>2, <1>t, <2>1, <2>2 DEF Alone, EvaluatesShared, Looking
<1>3. ASSUME p = "evaluation", NEW trace \in Traces, EvaluateTrace(trace)
      PROVE  /\ Alone(p)
             /\ at' \in [Threads -> Places] /\ todo' \in [Threads -> Seq(Elements)]
             /\ UNCHANGED <<ends, added, failed, given_vars, graph_vars, score_vars>>
             /\ InPlace(p)' /\ EvaluatesShared'
  <2>1. trace \in Seq(Elements)
    BY KnowledgeAssumption
  <2>2. /\ at' = [at EXCEPT ![p] = "element"] /\ todo' = [todo EXCEPT ![p] = trace]
        /\ UNCHANGED <<ends, added, failed, given_vars, graph_vars, score_vars>>
        /\ at[p] = "waiting" /\ left_over
    BY <1>3 DEF EvaluateTrace, Go, trace_vars, StaleTraceFound
  <2>3. ends[p] = <<>>
    BY <1>t, <2>2 DEF InPlace
  <2>4. InPlace(p)'
    BY <1>t, <2>2, <2>3 DEF InPlace, Looking
  <2> QED
    BY <1>t, <2>1, <2>2, <2>4 DEF Alone, EvaluatesShared, given_vars
<1>4. ASSUME TraceDone(p)
      PROVE  /\ Alone(p)
             /\ at' \in [Threads -> Places]
             /\ UNCHANGED <<todo, ends, added, failed, given_vars, graph_vars, score_vars>>
             /\ InPlace(p)' /\ EvaluatesShared'
  <2>1. /\ \E pl \in {"idle", "joining"} : at' = [at EXCEPT ![p] = pl]
        /\ UNCHANGED <<todo, ends, added, failed, given_vars, graph_vars, score_vars>>
        /\ todo[p] = <<>>
    BY <1>4 DEF TraceDone, Go, trace_vars
  <2>2. ends[p] = <<>>
    BY <1>t, <2>1 DEF InPlace
  <2>3. InPlace(p)'
    BY <1>t, <2>1, <2>2 DEF InPlace, Looking
  <2> QED
    BY <1>t, <2>1, <2>3 DEF Alone, EvaluatesShared, Looking, given_vars
<1>5. ASSUME CacheHit(p) \/ CacheMiss(p)
      PROVE  /\ Alone(p)
             /\ at' \in [Threads -> Places]
             /\ UNCHANGED <<todo, ends, added, failed, given_vars, graph_vars, score_vars>>
             /\ InPlace(p)' /\ EvaluatesShared'
  <2>1. /\ \E pl \in {"get", "find"} : at' = [at EXCEPT ![p] = pl]
        /\ UNCHANGED <<todo, ends, added, failed, given_vars, graph_vars, score_vars>>
        /\ WantsVertex(p)
    BY <1>5 DEF CacheHit, CacheMiss, Go, trace_vars
  <2>2. todo[p] # <<>> /\ Element(p) \in Pairs
    BY <2>1, WantsBlock
  <2>3. Len(ends[p]) < 2 /\ at[p] = "element"
    BY <2>1 DEF WantsVertex
  <2>4. Element(p)' = Element(p)
    BY <2>1 DEF Element
  <2>5. InPlace(p)'
    BY <1>t, <2>1, <2>2, <2>3, <2>4 DEF InPlace, Looking
  <2> QED
    BY <1>t, <2>1, <2>3, <2>5 DEF Alone, EvaluatesShared, Looking, given_vars
<1>6. ASSUME CopyGetThrows(p)
      PROVE  /\ Alone(p)
             /\ at' \in [Threads -> Places] /\ todo' \in [Threads -> Seq(Elements)]
             /\ ends' \in [Threads -> Seq(Vertices)] /\ \A q \in Threads : Len(ends'[q]) <= 2
             /\ failed' \subseteq Threads
             /\ UNCHANGED <<added, given_vars, graph_vars, score_vars>>
             /\ InPlace(p)' /\ EvaluatesShared'
  <2>1. /\ \E pl \in {"joining", "idle"} : at' = [at EXCEPT ![p] = pl]
        /\ todo' = [todo EXCEPT ![p] = <<>>] /\ ends' = [ends EXCEPT ![p] = <<>>]
        /\ failed' = failed \union {p}
        /\ UNCHANGED <<added, given_vars, graph_vars, score_vars>>
    BY <1>6 DEF CopyGetThrows, Go
  <2>2. <<>> \in Seq(Elements) /\ <<>> \in Seq(Vertices) /\ Len(<<>>) <= 2
    OBVIOUS
  <2>3. InPlace(p)'
    BY <1>t, <2>1 DEF InPlace, Looking
  <2> QED
    BY <1>t, <2>1, <2>2, <2>3 DEF Alone, EvaluatesShared, Looking, given_vars
<1> QED
  BY <1>t, <1>1, <1>2, <1>3, <1>4, <1>5, <1>6

\* What a score leaves.
LEMMA ScoreTyped ==
  ASSUME TypeOK, NEW p \in Threads, NEW new, NEW xs \in SUBSET (Elements \union GoalIds),
         Score(p, new, xs)
  PROVE  /\ credited' \in [Elements \union GoalIds -> Nat]
         /\ seen' \in [Threads -> SUBSET (Elements \union GoalIds)]
<1>1. /\ credited \in [Elements \union GoalIds -> Nat]
      /\ seen \in [Threads -> SUBSET (Elements \union GoalIds)]
  BY DEF TypeOK
<1>2. credited' \in [Elements \union GoalIds -> Nat]
  <2>1. CASE credited' = credited
    BY <1>1, <2>1
  <2>2. CASE credited' = [x \in DOMAIN credited |-> credited[x] + (IF x \in new THEN 1 ELSE 0)]
    BY <1>1, <2>2
  <2> QED
    BY <2>1, <2>2 DEF Score
<1> QED
  BY <1>1, <1>2 DEF Score

\* The steps that score.
LEMMA ScoreActions ==
  ASSUME Shape, NEW p \in Threads, ReachFunction(p) \/ AddEdge(p) \/ LookupGoals(p)
  PROVE  /\ Alone(p)
         /\ at' \in [Threads -> Places] /\ todo' \in [Threads -> Seq(Elements)]
         /\ ends' \in [Threads -> Seq(Vertices)] /\ \A q \in Threads : Len(ends'[q]) <= 2
         /\ edges' \subseteq Vertices \X Vertices
         /\ reached_functions' \subseteq Functions /\ covered_goals' \subseteq GoalIds
         /\ credited' \in [Elements \union GoalIds -> Nat]
         /\ seen' \in [Threads -> SUBSET (Elements \union GoalIds)]
         /\ InPlace(p)' /\ EvaluatesShared'
         /\ UNCHANGED <<vertices, vertex_cache, collided, trace_vars>>
<1> USE DEF Places
<1>t. /\ at \in [Threads -> Places] /\ todo \in [Threads -> Seq(Elements)]
      /\ ends \in [Threads -> Seq(Vertices)] /\ \A q \in Threads : Len(ends[q]) <= 2
      /\ edges \subseteq Vertices \X Vertices
      /\ reached_functions \subseteq Functions /\ covered_goals \subseteq GoalIds
      /\ \A q \in Threads : InPlace(q)
      /\ EvaluatesShared /\ TypeOK
  BY DEF Shape, TypeOK
<1>n. ASSUME todo[p] # <<>>, NextElement(p)
      PROVE  /\ todo' \in [Threads -> Seq(Elements)] /\ ends' \in [Threads -> Seq(Vertices)]
             /\ ends'[p] = <<>> /\ \A q \in Threads : Len(ends'[q]) <= 2
             /\ \A q \in Threads : q # p => todo'[q] = todo[q] /\ ends'[q] = ends[q]
  <2>1. todo' = [todo EXCEPT ![p] = Tail(todo[p])] /\ ends' = [ends EXCEPT ![p] = <<>>]
    BY <1>n, <1>t DEF NextElement
  <2>2. Tail(todo[p]) \in Seq(Elements)
    BY <1>n, <1>t
  <2>3. <<>> \in Seq(Vertices) /\ Len(<<>>) <= 2
    OBVIOUS
  <2> QED
    BY <1>t, <2>1, <2>2, <2>3
<1>1. CASE ReachFunction(p)
  <2>1. PICK f : /\ f = Element(p)[1]
                 /\ reached_functions' = reached_functions \union {f}
                 /\ Score(p, {<<f>>} \ {<<g>> : g \in reached_functions}, {<<f>>})
    BY <1>1 DEF ReachFunction
  <2>2. at[p] = "element" /\ todo[p] # <<>> /\ Len(Element(p)) = 1 /\ NextElement(p)
        /\ UNCHANGED <<at, graph_vars, covered_goals, trace_vars>>
    BY <1>1 DEF ReachFunction
  <2>3. f \in Functions /\ <<f>> \in Elements
    <3>1. Element(p) \in Elements
      BY <1>t, <2>2 DEF Element
    <3>2. \E g \in Functions : Element(p) = <<g>>
      BY <2>2, <3>1, ElementKinds
    <3> QED
      BY <2>1, <3>2 DEF Elements
  <2>4. /\ credited' \in [Elements \union GoalIds -> Nat]
        /\ seen' \in [Threads -> SUBSET (Elements \union GoalIds)]
    <3>1. {<<f>>} \in SUBSET (Elements \union GoalIds)
      BY <2>3
    <3> QED
      BY <1>t, <2>1, <3>1, ScoreTyped
  <2>5. InPlace(p)'
    BY <1>n, <2>2 DEF InPlace, Looking
  <2>6. EvaluatesShared' /\ at' = at
    BY <1>t, <2>2 DEF EvaluatesShared, trace_vars, given_vars
  <2>7. Alone(p)
    BY <1>n, <2>2, <2>6 DEF Alone
  <2>8. UNCHANGED <<vertices, edges, vertex_cache, collided, covered_goals, trace_vars>>
    BY <2>2 DEF graph_vars
  <2>9. reached_functions' \subseteq Functions
    BY <1>t, <2>1, <2>3
  <2>10. edges' \subseteq Vertices \X Vertices /\ covered_goals' \subseteq GoalIds
    BY <1>t, <2>8
  <2> QED
    BY <1>t, <1>n, <2>2, <2>4, <2>5, <2>6, <2>7, <2>8, <2>9, <2>10
<1>2. CASE AddEdge(p)
  <2>1. PICK edge : /\ edge = <<ends[p][1], ends[p][2]>>
                    /\ Score(p, IF edge \in edges THEN {} ELSE {Element(p)}, {Element(p)})
                    /\ edges' \subseteq edges \union {edge}
    BY <1>2 DEF AddEdge
  <2>2. /\ at[p] = "element" /\ OnPair(p) /\ Len(ends[p]) = 2
        /\ at' = [at EXCEPT ![p] = "goals"]
        /\ UNCHANGED <<todo, ends, vertices, vertex_cache, collided, reached_functions,
                       covered_goals, trace_vars>>
    BY <1>2 DEF AddEdge, Go
  <2>3. todo[p] # <<>> /\ Element(p) \in Elements /\ Element(p) \in Pairs
    <3>1. todo[p] # <<>> /\ Element(p) \in Elements /\ Len(Element(p)) = 2
      BY <1>t, <2>2 DEF OnPair, Element
    <3> QED
      BY <3>1, ElementKinds
  <2>4. edge \in Vertices \X Vertices
    <3>1. ends[p] \in Seq(Vertices) /\ 1 \in 1..Len(ends[p]) /\ 2 \in 1..Len(ends[p])
      BY <1>t, <2>2
    <3> QED
      BY <2>1, <3>1
  <2>5. /\ credited' \in [Elements \union GoalIds -> Nat]
        /\ seen' \in [Threads -> SUBSET (Elements \union GoalIds)]
    BY <1>t, <2>1, <2>3, ScoreTyped
  <2>6. Element(p)' = Element(p)
    BY <2>2 DEF Element
  <2>7. InPlace(p)'
    BY <1>t, <2>2, <2>3, <2>6 DEF InPlace, Looking
  <2>8. edges' \subseteq Vertices \X Vertices
    BY <1>t, <2>1, <2>4
  <2> QED
    <3>1. at' \in [Threads -> Places] /\ at'[p] = "goals" /\ Alone(p)
      BY <1>t, <2>2 DEF Alone
    <3>2. EvaluatesShared'
      BY <1>t, <2>2 DEF EvaluatesShared, Looking, trace_vars, given_vars
    <3>3. reached_functions' \subseteq Functions /\ covered_goals' \subseteq GoalIds
      BY <1>t, <2>2
    <3> QED
      BY <1>t, <2>2, <2>5, <2>7, <2>8, <3>1, <3>2, <3>3
<1>3. CASE LookupGoals(p)
  <2>1. /\ covered_goals' = covered_goals \union GoalsOf(Element(p)[2])
        /\ Score(p, NewGoals(Element(p)[2]), GoalsOf(Element(p)[2]))
        /\ NextElement(p) /\ at[p] = "goals" /\ at' = [at EXCEPT ![p] = "element"]
        /\ UNCHANGED <<graph_vars, reached_functions, trace_vars>>
    BY <1>3 DEF LookupGoals, Go
  <2>2. todo[p] # <<>> /\ Element(p) \in Pairs
    BY <1>t, <2>1 DEF InPlace
  <2>3. GoalsOf(Element(p)[2]) \subseteq GoalIds /\ NewGoals(Element(p)[2]) \subseteq GoalIds
    <3>1. Element(p)[2] \in Blocks
      BY <2>2 DEF Pairs
    <3> QED
      BY <1>t, <3>1, GoalsTyped DEF TypeOK
  <2>4. /\ credited' \in [Elements \union GoalIds -> Nat]
        /\ seen' \in [Threads -> SUBSET (Elements \union GoalIds)]
    BY <1>t, <2>1, <2>3, ScoreTyped
  <2>5. InPlace(p)'
    BY <1>t, <1>n, <2>1, <2>2 DEF InPlace, Looking
  <2> QED
    <3>1. at' \in [Threads -> Places]
      BY <1>t, <2>1
    <3>2. EvaluatesShared'
      BY <1>t, <2>1 DEF EvaluatesShared, Looking, trace_vars, given_vars
    <3>3. reached_functions' \subseteq Functions /\ covered_goals' \subseteq GoalIds
      BY <1>t, <2>1, <2>3
    <3>4. UNCHANGED <<vertices, edges, vertex_cache, collided, trace_vars>>
      BY <2>1 DEF graph_vars
    <3>5. Alone(p)
      BY <1>t, <1>n, <2>1, <2>2 DEF Alone
    <3>6. edges' \subseteq Vertices \X Vertices
      BY <1>t, <3>4
    <3> QED
      BY <1>n, <2>1, <2>2, <2>4, <2>5, <3>1, <3>2, <3>3, <3>4, <3>5, <3>6
<1> QED
  BY <1>1, <1>2, <1>3

-----------------------------------------------------------------------------
\* What another thread has in hand stays as it is.
LEMMA OthersInPlace ==
  ASSUME Shape, NEW p \in Threads, Alone(p), InPlace(p)', vertices # <<>> => vertices' # <<>>
  PROVE  \A q \in Threads : InPlace(q)'
<1> SUFFICES ASSUME NEW q \in Threads, q # p
             PROVE  InPlace(q)'
  OBVIOUS
<1>1. at'[q] = at[q] /\ todo'[q] = todo[q] /\ ends'[q] = ends[q] /\ Element(q)' = Element(q)
  BY DEF Alone, Element
<1>2. InPlace(q)
  BY DEF Shape
<1> QED
  BY <1>1, <1>2 DEF InPlace

\* What is a sequence stays one as its elements get more.
LEMMA SeqGrows ==
  ASSUME NEW S, NEW T, S \subseteq T
  PROVE  Seq(S) \subseteq Seq(T)
OBVIOUS

\* A vertex is found for the block that was wanted.
LEMMA FoundPlace ==
  ASSUME Shape, NEW p \in Threads, at[p] \in Looking, NEW V, Vertices \subseteq V, NEW v \in V,
         Found(p, v), todo' = todo
  PROVE  /\ Alone(p) /\ at' = [at EXCEPT ![p] = "element"]
         /\ at' \in [Threads -> Places]
         /\ ends' \in [Threads -> Seq(V)] /\ \A q \in Threads : Len(ends'[q]) <= 2
         /\ ends'[p] = Append(ends[p], v) /\ Element(p)' = Element(p)
         /\ InPlace(p)'
<1>t. /\ at \in [Threads -> Places] /\ ends \in [Threads -> Seq(Vertices)]
      /\ \A q \in Threads : Len(ends[q]) <= 2
  BY DEF Shape, TypeOK, Places
<1>1. at' = [at EXCEPT ![p] = "element"] /\ ends' = [ends EXCEPT ![p] = Append(ends[p], v)]
  BY <1>t DEF Found, Go
<1>2. todo[p] # <<>> /\ Element(p) \in Pairs /\ Len(ends[p]) < 2
  BY WantsBlock DEF Shape, InPlace
<1>3. ends \in [Threads -> Seq(V)]
  BY <1>t, SeqGrows
<1>4. Append(ends[p], v) \in Seq(V) /\ Len(Append(ends[p], v)) <= 2
  <2>1. ends[p] \in Seq(V)
    BY <1>3
  <2>2. Append(ends[p], v) \in Seq(V) /\ Len(Append(ends[p], v)) = Len(ends[p]) + 1
    BY <2>1
  <2>3. Len(ends[p]) \in Nat
    BY <2>1
  <2> QED
    BY <1>2, <2>2, <2>3
<1>5. Element(p)' = Element(p)
  BY DEF Element
<1>6. at'[p] = "element" /\ ends'[p] = Append(ends[p], v) /\ Alone(p)
  BY <1>t, <1>1 DEF Alone
<1>7. InPlace(p)'
  BY <1>2, <1>5, <1>6 DEF InPlace, Looking
<1>8. at' \in [Threads -> Places]
  BY <1>t, <1>1 DEF Places
<1>9. ends' \in [Threads -> Seq(V)] /\ \A q \in Threads : Len(ends'[q]) <= 2
  BY <1>t, <1>1, <1>3, <1>4
<1> QED
  BY <1>1, <1>5, <1>6, <1>7, <1>8, <1>9

\* The steps of add_vertex(), the cache's included.
LEMMA GraphActions ==
  ASSUME Shape, NEW p \in Threads, CopyGet(p) \/ FindVertex(p) \/ AddVertex(p) \/ NameVertex(p)
  PROVE  /\ Alone(p)
         /\ at' \in [Threads -> Places]
         /\ ends' \in [Threads -> Seq(Vertices')] /\ \A q \in Threads : Len(ends'[q]) <= 2
         /\ vertices' \in Seq(Blocks \union {Unnamed})
         /\ Vertices \subseteq Vertices' /\ (vertices # <<>> => vertices' # <<>>)
         /\ CacheOf(vertex_cache', Vertices') /\ Len(vertex_cache') <= CacheSize
         /\ collided' \in BOOLEAN
         /\ InPlace(p)' /\ EvaluatesShared'
         /\ UNCHANGED <<todo, edges, score_vars, trace_vars>>
<1>t. /\ at \in [Threads -> Places] /\ ends \in [Threads -> Seq(Vertices)]
      /\ \A q \in Threads : Len(ends[q]) <= 2
      /\ vertices \in Seq(Blocks \union {Unnamed}) /\ Vertices = 1..Len(vertices)
      /\ Len(vertices) \in Nat
      /\ CacheOf(vertex_cache, Vertices) /\ Len(vertex_cache) <= CacheSize
      /\ collided \in BOOLEAN
      /\ \A q \in Threads : InPlace(q)
      /\ EvaluatesShared
  BY DEF Shape, TypeOK, Places, CacheOf, Vertices
<1>1. CASE CopyGet(p)
  <2>1. PICK v : /\ v = vertex_cache[CachedVertex(Wanted(p))][2]
                 /\ vertex_cache' = First(Wanted(p), v) /\ Found(p, v)
    BY <1>1 DEF CopyGet
  <2>2. /\ at[p] = "get" /\ Wanted(p) \in Cached
        /\ UNCHANGED <<todo, vertices, edges, collided, score_vars, trace_vars>>
    BY <1>1 DEF CopyGet
  <2>3. at[p] \in Looking /\ Wanted(p) \in Blocks
    BY <2>2, WantsBlock DEF Looking
  <2>4. v \in Vertices /\ Vertices' = Vertices
    BY <1>t, <2>1, <2>2, CachedEntry DEF Vertices
  <2>5. CacheOf(vertex_cache', Vertices) /\ Len(vertex_cache') <= CacheSize
    BY <1>t, <2>1, <2>2, <2>3, <2>4, GetKept
  <2>6. /\ Alone(p) /\ at' = [at EXCEPT ![p] = "element"] /\ at' \in [Threads -> Places]
        /\ ends' \in [Threads -> Seq(Vertices)] /\ \A q \in Threads : Len(ends'[q]) <= 2
        /\ InPlace(p)'
    BY <2>1, <2>2, <2>3, <2>4, FoundPlace
  <2>7. EvaluatesShared'
    BY <1>t, <2>2, <2>6 DEF EvaluatesShared, trace_vars, Looking, given_vars
  <2> QED
    BY <1>t, <2>2, <2>4, <2>5, <2>6, <2>7
<1>2. CASE FindVertex(p)
  <2>1. /\ at[p] = "find"
        /\ UNCHANGED <<todo, vertices, edges, collided, score_vars, trace_vars>>
    BY <1>2 DEF FindVertex
  <2>2. at[p] \in Looking /\ Wanted(p) \in Blocks /\ Vertices' = Vertices
    BY <2>1, WantsBlock DEF Looking, Vertices
  <2>3. CASE VerticesOf(Wanted(p)) = {}
    <3>1. at' = [at EXCEPT ![p] = "add"] /\ UNCHANGED <<ends, vertex_cache>>
      BY <1>2, <2>3 DEF FindVertex, Go
    <3>2. Element(p)' = Element(p)
      BY <2>1 DEF Element
    <3>3. InPlace(p)'
      BY <1>t, <2>1, <3>1, <3>2 DEF InPlace, Looking
    <3>4. Alone(p)
      BY <1>t, <2>1, <3>1 DEF Alone
    <3>5. EvaluatesShared' /\ at' \in [Threads -> Places]
      BY <1>t, <2>1, <3>1 DEF EvaluatesShared, trace_vars, Looking, Places, given_vars
    <3> QED
      BY <1>t, <2>1, <2>2, <3>1, <3>3, <3>4, <3>5
  <2>4. CASE VerticesOf(Wanted(p)) # {}
    <3>1. PICK v \in VerticesOf(Wanted(p)) : Put(Wanted(p), v) /\ Found(p, v)
      BY <1>2, <2>4 DEF FindVertex
    <3>2. v \in Vertices
      BY DEF VerticesOf
    <3>3. CacheOf(vertex_cache', Vertices) /\ Len(vertex_cache') <= CacheSize
      BY <1>t, <2>2, <3>1, <3>2, PutKept
    <3>4. /\ Alone(p) /\ at' = [at EXCEPT ![p] = "element"] /\ at' \in [Threads -> Places]
          /\ ends' \in [Threads -> Seq(Vertices)] /\ \A q \in Threads : Len(ends'[q]) <= 2
          /\ InPlace(p)'
      BY <2>1, <2>2, <3>1, <3>2, FoundPlace
    <3>5. EvaluatesShared'
      BY <1>t, <2>1, <3>4 DEF EvaluatesShared, trace_vars, Looking, given_vars
    <3> QED
      BY <1>t, <2>1, <2>2, <3>3, <3>4, <3>5
  <2> QED
    BY <2>3, <2>4
<1>3. CASE AddVertex(p)
  <2>1. /\ at[p] = "add" /\ at' = [at EXCEPT ![p] = "name"]
        /\ vertices' = Append(vertices, Unnamed)
        /\ UNCHANGED <<todo, ends, edges, vertex_cache, score_vars, trace_vars>>
        /\ collided' \in BOOLEAN
    BY <1>3 DEF AddVertex, Go
  <2>2. /\ vertices' \in Seq(Blocks \union {Unnamed}) /\ vertices' # <<>>
        /\ Vertices \subseteq Vertices'
    <3>1. Len(vertices') = Len(vertices) + 1 /\ vertices' \in Seq(Blocks \union {Unnamed})
      BY <1>t, <2>1
    <3>2. Vertices' = 1..(Len(vertices) + 1)
      BY <3>1 DEF Vertices
    <3> QED
      BY <1>t, <3>1, <3>2
  <2>3. ends' \in [Threads -> Seq(Vertices')]
    <3>1. Seq(Vertices) \subseteq Seq(Vertices')
      BY <2>2, SeqGrows
    <3> QED
      BY <1>t, <2>1, <3>1
  <2>4. CacheOf(vertex_cache', Vertices')
    <3>1. Seq(Blocks \X Vertices) \subseteq Seq(Blocks \X Vertices')
      <4>1. Blocks \X Vertices \subseteq Blocks \X Vertices'
        BY <2>2
      <4> QED
        BY <4>1, SeqGrows
    <3> QED
      BY <1>t, <2>1, <3>1 DEF CacheOf, KeysDistinct
  <2>5. Element(p)' = Element(p)
    BY <2>1 DEF Element
  <2>6. InPlace(p)'
    BY <1>t, <2>1, <2>2, <2>5 DEF InPlace, Looking
  <2>7. Alone(p)
    BY <1>t, <2>1 DEF Alone
  <2>8. EvaluatesShared' /\ at' \in [Threads -> Places]
    BY <1>t, <2>1 DEF EvaluatesShared, trace_vars, Looking, Places, given_vars
  <2> QED
    BY <1>t, <2>1, <2>2, <2>3, <2>4, <2>6, <2>7, <2>8
<1>4. CASE NameVertex(p)
  <2>1. /\ at[p] = "name"
        /\ vertices' = [vertices EXCEPT ![Len(vertices)] = Wanted(p)]
        /\ Put(Wanted(p), Len(vertices)) /\ Found(p, Len(vertices))
        /\ UNCHANGED <<todo, edges, collided, score_vars, trace_vars>>
    BY <1>4 DEF NameVertex
  <2>2. at[p] \in Looking /\ Wanted(p) \in Blocks
    BY <2>1, WantsBlock DEF Looking
  <2>3. vertices # <<>> /\ Len(vertices) \in Vertices
    <3>1. vertices # <<>>
      BY <1>t, <2>1 DEF InPlace
    <3> QED
      BY <1>t, <3>1
  <2>4. /\ vertices' \in Seq(Blocks \union {Unnamed}) /\ vertices' # <<>>
        /\ Vertices' = Vertices
    <3>1. Vertices' = Vertices
      BY <2>1 DEF Vertices
    <3>2. vertices' \in Seq(Blocks \union {Unnamed}) /\ Len(vertices') = Len(vertices)
      BY <1>t, <2>1, <2>2, <2>3
    <3>3. Len(vertices) >= 1
      BY <1>t, <2>3
    <3> QED
      BY <1>t, <3>1, <3>2, <3>3
  <2>5. CacheOf(vertex_cache', Vertices) /\ Len(vertex_cache') <= CacheSize
    BY <1>t, <2>1, <2>2, <2>3, PutKept
  <2>6. /\ Alone(p) /\ at' = [at EXCEPT ![p] = "element"] /\ at' \in [Threads -> Places]
        /\ ends' \in [Threads -> Seq(Vertices)] /\ \A q \in Threads : Len(ends'[q]) <= 2
        /\ InPlace(p)'
    BY <2>1, <2>2, <2>3, FoundPlace
  <2>7. EvaluatesShared'
    BY <1>t, <2>1, <2>6 DEF EvaluatesShared, trace_vars, Looking, given_vars
  <2> QED
    BY <1>t, <2>1, <2>4, <2>5, <2>6, <2>7
<1> QED
  BY <1>1, <1>2, <1>3, <1>4

\* Shape is an invariant.
LEMMA ShapeInit == Init => Shape
<1> SUFFICES ASSUME Init
             PROVE  Shape
  OBVIOUS
<1>0. CacheSize \in Nat \ {0} /\ MaxTraces \in Nat
  BY KnowledgeAssumption
<1>1. Len(vertex_cache) = Cardinality(Cached) /\ Len(vertex_cache) <= CacheSize
  <2>1. vertex_cache = <<>> /\ Cached = {}
    BY DEF Init, Cached
  <2>2. Cardinality({}) = 0
    BY FS_EmptySet
  <2>3. Len(<<>>) = 0
    OBVIOUS
  <2> QED
    BY <1>0, <2>1, <2>2, <2>3
<1>2. TypeOK
  <2>1. /\ todo \in [Threads -> Seq(Elements)] /\ ends \in [Threads -> Seq(Vertices)]
        /\ \A p \in Threads : Len(ends[p]) <= 2
    BY DEF Init
  <2>2. /\ vertices \in Seq(Blocks \union {Unnamed}) /\ edges \subseteq Vertices \X Vertices
        /\ vertex_cache \in Seq(Blocks \X Vertices)
    BY DEF Init
  <2>3. added \in 0..MaxTraces /\ credited \in [Elements \union GoalIds -> Nat]
        /\ seen \in [Threads -> SUBSET (Elements \union GoalIds)]
    BY <1>0 DEF Init
  <2> QED
    BY <1>1, <2>1, <2>2, <2>3 DEF Init, TypeOK
<1>3. \A p \in Threads : InPlace(p)
  BY DEF Init, InPlace, Looking
<1>4. EvaluatesShared /\ KeysDistinct(vertex_cache)
  BY DEF Init, EvaluatesShared, KeysDistinct, Looking, Threads
<1> QED
  BY <1>2, <1>3, <1>4 DEF Shape

\* Shape is preserved.
LEMMA ShapeStep == Shape /\ [Next]_vars => Shape'
<1> SUFFICES ASSUME Shape, [Next]_vars
             PROVE  Shape'
  OBVIOUS
<1>1. ASSUME NEW p \in Threads,
             \/ p = "campaign" /\ \E trace \in Traces : AddTrace(trace)
             \/ p = "evaluation" /\ StartEvaluation
             \/ p = "evaluation" /\ \E trace \in Traces : EvaluateTrace(trace)
             \/ TraceDone(p) \/ CacheHit(p) \/ CacheMiss(p) \/ CopyGetThrows(p)
      PROVE  Shape'
  <2>1. /\ Alone(p)
        /\ at' \in [Threads -> Places] /\ todo' \in [Threads -> Seq(Elements)]
        /\ ends' \in [Threads -> Seq(Vertices)] /\ \A q \in Threads : Len(ends'[q]) <= 2
        /\ added' \in 0..MaxTraces /\ failed' \subseteq Threads
        /\ InPlace(p)' /\ EvaluatesShared'
        /\ UNCHANGED given_vars /\ UNCHANGED <<graph_vars, score_vars>>
    BY <1>1, TraceActions
  <2>2. UNCHANGED <<vertices, edges, vertex_cache, collided, reached_functions,
                    covered_goals, credited, seen>>
    BY <2>1 DEF graph_vars, score_vars
  <2>3. \A q \in Threads : InPlace(q)'
    BY <2>1, <2>2, OthersInPlace
  <2>4. Cached' = Cached /\ Vertices' = Vertices
    BY <2>2 DEF Cached, Vertices
  <2>5. TypeOK'
    BY <2>1, <2>2, <2>4 DEF Shape, TypeOK, Places, given_vars
  <2> QED
    BY <2>1, <2>2, <2>3, <2>5 DEF Shape
<1>2. ASSUME NEW p \in Threads, ReachFunction(p) \/ AddEdge(p) \/ LookupGoals(p)
      PROVE  Shape'
  <2>1. /\ Alone(p)
        /\ at' \in [Threads -> Places] /\ todo' \in [Threads -> Seq(Elements)]
        /\ ends' \in [Threads -> Seq(Vertices)] /\ \A q \in Threads : Len(ends'[q]) <= 2
        /\ edges' \subseteq Vertices \X Vertices
        /\ reached_functions' \subseteq Functions /\ covered_goals' \subseteq GoalIds
        /\ credited' \in [Elements \union GoalIds -> Nat]
        /\ seen' \in [Threads -> SUBSET (Elements \union GoalIds)]
        /\ InPlace(p)' /\ EvaluatesShared'
        /\ UNCHANGED <<vertices, vertex_cache, collided, trace_vars>>
    BY <1>2, ScoreActions
  <2>2. UNCHANGED <<added, failed, given_vars>>
    BY <2>1 DEF trace_vars
  <2>3. \A q \in Threads : InPlace(q)'
    BY <2>1, OthersInPlace
  <2>4. Cached' = Cached /\ Vertices' = Vertices
    BY <2>1 DEF Cached, Vertices
  <2>5. TypeOK'
    BY <2>1, <2>2, <2>4 DEF Shape, TypeOK, Places, given_vars
  <2> QED
    BY <2>1, <2>3, <2>5 DEF Shape
<1>3. ASSUME NEW p \in Threads,
             CopyGet(p) \/ FindVertex(p) \/ AddVertex(p) \/ NameVertex(p)
      PROVE  Shape'
  <2>1. /\ Alone(p)
        /\ at' \in [Threads -> Places]
        /\ ends' \in [Threads -> Seq(Vertices')] /\ \A q \in Threads : Len(ends'[q]) <= 2
        /\ vertices' \in Seq(Blocks \union {Unnamed})
        /\ Vertices \subseteq Vertices' /\ (vertices # <<>> => vertices' # <<>>)
        /\ CacheOf(vertex_cache', Vertices') /\ Len(vertex_cache') <= CacheSize
        /\ collided' \in BOOLEAN
        /\ InPlace(p)' /\ EvaluatesShared'
        /\ UNCHANGED <<todo, edges, score_vars, trace_vars>>
    BY <1>3, GraphActions
  <2>2. UNCHANGED <<todo, edges, added, failed, given_vars, reached_functions,
                    covered_goals, credited, seen>>
    BY <2>1 DEF trace_vars, score_vars
  <2>3. \A q \in Threads : InPlace(q)'
    BY <2>1, OthersInPlace
  <2>4. Len(vertex_cache') = Cardinality(Cached')
    <3>1. Cached' = Keys(vertex_cache')
      BY DEF Cached, Keys
    <3> QED
      BY <2>1, <3>1, CacheTyped
  <2>5. edges' \subseteq Vertices' \X Vertices'
    <3>1. edges \subseteq Vertices \X Vertices
      BY DEF Shape, TypeOK
    <3> QED
      BY <2>1, <2>2, <3>1
  <2>6. vertex_cache' \in Seq(Blocks \X Vertices') /\ KeysDistinct(vertex_cache')
    BY <2>1 DEF CacheOf
  <2>7. TypeOK'
    BY <2>1, <2>2, <2>4, <2>5, <2>6 DEF Shape, TypeOK, Places, given_vars
  <2> QED
    BY <2>1, <2>3, <2>6, <2>7 DEF Shape
<1>4. CASE UNCHANGED vars
  <2>1. UNCHANGED <<at, todo, ends, vertices, edges, vertex_cache, collided, reached_functions,
                    covered_goals, credited, seen, added, failed, given_vars>>
    BY <1>4 DEF vars, graph_vars, score_vars, trace_vars
  <2>2. TypeOK' /\ KeysDistinct(vertex_cache)'
    BY <2>1 DEF Shape, TypeOK, Vertices, Cached, KeysDistinct, given_vars
  <2>3. \A p \in Threads : InPlace(p)'
    BY <2>1 DEF Shape, InPlace, Element
  <2>4. EvaluatesShared'
    BY <2>1 DEF Shape, EvaluatesShared, given_vars
  <2> QED
    BY <2>2, <2>3, <2>4 DEF Shape
<1>5. "campaign" \in Threads /\ "evaluation" \in Threads
  BY DEF Threads
<1> QED
  BY <1>1, <1>2, <1>3, <1>4, <1>5 DEF Next, Step

-----------------------------------------------------------------------------
\* The graph. The steps of p that make no vertex and name none.
MakesNoVertex(p) ==
    \/ p = "campaign" /\ \E trace \in Traces : AddTrace(trace)
    \/ p = "evaluation" /\ StartEvaluation
    \/ p = "evaluation" /\ \E trace \in Traces : EvaluateTrace(trace)
    \/ TraceDone(p) \/ CacheHit(p) \/ CacheMiss(p) \/ CopyGetThrows(p)
    \/ ReachFunction(p) \/ AddEdge(p) \/ LookupGoals(p)
    \/ CopyGet(p) \/ FindVertex(p)

StepOf(p) == MakesNoVertex(p) \/ AddVertex(p) \/ NameVertex(p)

\* Every step is of some thread.
LEMMA SomeThread ==
  ASSUME Next
  PROVE  \E p \in Threads : StepOf(p)
<1>1. "campaign" \in Threads /\ "evaluation" \in Threads
  BY DEF Threads
<1> QED
  BY <1>1 DEF Next, Step, StepOf, MakesNoVertex

\* A step leaves the other thread where it is.
LEMMA StepAlone ==
  ASSUME Shape, NEW p \in Threads, StepOf(p)
  PROVE  /\ Alone(p)
         /\ at' \in [Threads -> Places] /\ UNCHANGED given_vars
<1>1. \/ \/ p = "campaign" /\ \E trace \in Traces : AddTrace(trace)
         \/ p = "evaluation" /\ StartEvaluation
         \/ p = "evaluation" /\ \E trace \in Traces : EvaluateTrace(trace)
         \/ TraceDone(p) \/ CacheHit(p) \/ CacheMiss(p) \/ CopyGetThrows(p)
      \/ ReachFunction(p) \/ AddEdge(p) \/ LookupGoals(p)
      \/ CopyGet(p) \/ FindVertex(p) \/ AddVertex(p) \/ NameVertex(p)
  BY DEF StepOf, MakesNoVertex
<1> QED
  BY <1>1, TraceActions, ScoreActions, GraphActions DEF trace_vars

\* An evaluation that was begun is never over.
LEMMA DisturbedStays ==
  ASSUME Shape, NEW p \in Threads, StepOf(p), Disturbed
  PROVE  Disturbed'
<1>1. Alone(p) /\ at' \in [Threads -> Places] /\ UNCHANGED given_vars
  BY StepAlone
<1>2. CASE p = "campaign"
  BY <1>1, <1>2 DEF Disturbed, Alone, Threads, given_vars
<1>3. CASE p = "evaluation"
  <2>0. at \in [Threads -> Places] /\ p # "campaign"
    BY <1>3 DEF Shape, TypeOK, Places
  <2>1. at'[p] # "idle"
    <3>1. CASE \E pl \in Places \ {"idle"} : at' = [at EXCEPT ![p] = pl]
      BY <2>0, <3>1
    <3>2. CASE UNCHANGED at
      BY <1>3, <3>2 DEF Disturbed
    <3>3. CASE Found(p, Len(vertices)) \/ \E v : Found(p, v)
      BY <3>1, <3>3 DEF Found, Go, Places
    <3>4. CASE CopyGet(p) \/ FindVertex(p) \/ NameVertex(p) \/ AddVertex(p)
      <4>1. CASE at' = [at EXCEPT ![p] = "add"] \/ at' = [at EXCEPT ![p] = "name"]
        BY <3>1, <4>1 DEF Places
      <4> QED
        BY <3>4, <3>3, <4>1 DEF CopyGet, FindVertex, NameVertex, AddVertex, Go
    <3>5. CASE ReachFunction(p)
      BY <3>5, <3>2 DEF ReachFunction
    <3>6. CASE MakesNoVertex(p) /\ ~(CopyGet(p) \/ FindVertex(p) \/ ReachFunction(p))
      BY <1>3, <2>0, <3>1, <3>6 DEF MakesNoVertex, StartEvaluation, EvaluateTrace,
        TraceDone, CacheHit, CacheMiss, CopyGetThrows, AddEdge, LookupGoals, Go, Places
    <3> QED
      BY <3>4, <3>5, <3>6 DEF StepOf
  <2> QED
    BY <1>1, <1>3, <2>1 DEF Disturbed, given_vars
<1> QED
  BY <1>2, <1>3 DEF Threads

\* A thread is between the two halves of add_vertex() only through these.
LEMMA NotNaming ==
  ASSUME Shape, NEW p \in Threads, MakesNoVertex(p)
  PROVE  /\ at[p] # "name" /\ at'[p] # "name"
         /\ at[p] # "add"
         /\ at'[p] = "add" => FindVertex(p) /\ VerticesOf(Wanted(p)) = {}
         /\ UNCHANGED <<vertices, collided>>
<1>0. at \in [Threads -> Places] /\ "evaluation" # "campaign"
  BY DEF Shape, TypeOK, Places
<1>1. CASE CopyGet(p)
  BY <1>0, <1>1 DEF CopyGet, Found, Go
<1>2. CASE FindVertex(p)
  BY <1>0, <1>2 DEF FindVertex, Found, Go
<1>3. CASE MakesNoVertex(p) /\ ~CopyGet(p) /\ ~FindVertex(p)
  BY <1>0, <1>3 DEF MakesNoVertex, AddTrace, StartEvaluation, EvaluateTrace, TraceDone,
    CacheHit, CacheMiss, CopyGetThrows, ReachFunction, AddEdge, LookupGoals, WantsVertex, Go,
    graph_vars
<1> QED
  BY <1>1, <1>2, <1>3

\* What has a content keeps it.
Kept == /\ Vertices \subseteq Vertices'
        /\ \A v \in Vertices : vertices[v] # Unnamed => vertices'[v] = vertices[v]

\* What bgl::add_vertex() does, seen from the vertices.
LEMMA AddKeeps ==
  ASSUME Shape, NEW p \in Threads, AddVertex(p)
  PROVE  /\ at[p] = "add" /\ at' = [at EXCEPT ![p] = "name"]
         /\ Len(vertices') = Len(vertices) + 1 /\ Vertices' = Vertices \union {Len(vertices')}
         /\ Len(vertices') \notin Vertices
         /\ vertices'[Len(vertices')] = Unnamed
         /\ \A v \in Vertices : vertices'[v] = vertices[v]
         /\ ~collided' => ~collided /\ \A q \in Threads : at[q] # "name"
         /\ UNCHANGED <<todo, ends, edges, vertex_cache>>
<1>1. vertices \in Seq(Blocks \union {Unnamed}) /\ Vertices = 1..Len(vertices)
      /\ Len(vertices) \in Nat
  BY DEF Shape, TypeOK, Vertices
<1>2. vertices' = Append(vertices, Unnamed)
  BY DEF AddVertex
<1>3. Len(vertices') = Len(vertices) + 1 /\ Vertices' = 1..(Len(vertices) + 1)
  <2>1. vertices' \in Seq(Blocks \union {Unnamed}) /\ Len(vertices') = Len(vertices) + 1
    BY <1>1, <1>2
  <2> QED
    BY <2>1 DEF Vertices
<1>4. vertices'[Len(vertices')] = Unnamed /\ \A v \in Vertices : vertices'[v] = vertices[v]
  BY <1>1, <1>2, <1>3
<1>5. Vertices' = Vertices \union {Len(vertices')} /\ Len(vertices') \notin Vertices
  BY <1>1, <1>3
<1> QED
  BY <1>3, <1>4, <1>5 DEF AddVertex, Go

\* What naming the new vertex does.
LEMMA NameKeeps ==
  ASSUME Shape, NEW p \in Threads, NameVertex(p)
  PROVE  /\ at[p] = "name" /\ at' = [at EXCEPT ![p] = "element"]
         /\ Len(vertices) \in Vertices /\ Vertices' = Vertices
         /\ Len(vertices') = Len(vertices)
         /\ vertices'[Len(vertices)] = Wanted(p) /\ Wanted(p) \in Blocks
         /\ \A v \in Vertices : v # Len(vertices) => vertices'[v] = vertices[v]
         /\ ends'[p] = Append(ends[p], Len(vertices)) /\ Element(p)' = Element(p)
         /\ Put(Wanted(p), Len(vertices))
         /\ UNCHANGED <<todo, edges, collided>>
<1>1. vertices \in Seq(Blocks \union {Unnamed}) /\ Vertices = 1..Len(vertices)
      /\ Len(vertices) \in Nat
  BY DEF Shape, TypeOK, Vertices
<1>2. /\ at[p] = "name" /\ vertices' = [vertices EXCEPT ![Len(vertices)] = Wanted(p)]
      /\ Put(Wanted(p), Len(vertices)) /\ Found(p, Len(vertices))
      /\ UNCHANGED <<todo, edges, collided>>
  BY DEF NameVertex
<1>3. at[p] \in Looking /\ Wanted(p) \in Blocks
  BY <1>2, WantsBlock DEF Looking
<1>4. Len(vertices) \in Vertices
  <2>1. vertices # <<>>
    BY <1>2 DEF Shape, InPlace
  <2> QED
    BY <1>1, <2>1
<1>5. Vertices' = Vertices /\ Len(vertices') = Len(vertices)
  BY <1>1, <1>2, <1>3, <1>4 DEF Vertices
<1>6. /\ ends'[p] = Append(ends[p], Len(vertices)) /\ Element(p)' = Element(p)
      /\ at' = [at EXCEPT ![p] = "element"]
  BY <1>2, <1>3, <1>4, FoundPlace
<1>7. /\ vertices'[Len(vertices)] = Wanted(p)
      /\ \A v \in Vertices : v # Len(vertices) => vertices'[v] = vertices[v]
  BY <1>1, <1>2, <1>4
<1> QED
  BY <1>2, <1>3, <1>4, <1>5, <1>6, <1>7

\* A collision is not forgotten.
LEMMA StillNotCollided ==
  ASSUME Shape, NEW p \in Threads, StepOf(p), ~collided'
  PROVE  ~collided
BY NotNaming, AddKeeps, NameKeeps DEF StepOf

\* A vertex is without a content only between its two steps.
LEMMA UnnamedStep ==
  ASSUME Shape, OneUnnamed, NEW p \in Threads, StepOf(p), ~collided'
  PROVE  OneUnnamed'
<1>0. Alone(p) /\ at \in [Threads -> Places] /\ at' \in [Threads -> Places]
  BY StepAlone DEF Shape, TypeOK, Places
<1>1. CASE MakesNoVertex(p)
  <2>1. at[p] # "name" /\ at'[p] # "name" /\ vertices' = vertices
    BY <1>1, NotNaming
  <2>2. \A q \in Threads : at'[q] = "name" <=> at[q] = "name"
    BY <1>0, <2>1 DEF Alone
  <2> QED
    BY <2>1, <2>2 DEF OneUnnamed, Vertices
<1>2. CASE AddVertex(p)
  <2>1. /\ at' = [at EXCEPT ![p] = "name"]
        /\ Vertices' = Vertices \union {Len(vertices')}
        /\ vertices'[Len(vertices')] = Unnamed
        /\ \A v \in Vertices : vertices'[v] = vertices[v]
        /\ \A q \in Threads : at[q] # "name"
    BY <1>2, AddKeeps
  <2>2. \A v \in Vertices : vertices[v] # Unnamed
    BY <2>1 DEF OneUnnamed
  <2>3. \A q \in Threads : at'[q] = "name" <=> q = p
    BY <1>0, <2>1
  <2> QED
    BY <2>1, <2>2, <2>3 DEF OneUnnamed
<1>3. CASE NameVertex(p)
  <2>1. /\ at[p] = "name" /\ at' = [at EXCEPT ![p] = "element"]
        /\ Vertices' = Vertices
        /\ vertices'[Len(vertices)] \in Blocks
        /\ \A v \in Vertices : v # Len(vertices) => vertices'[v] = vertices[v]
    BY <1>3, NameKeeps
  <2>2. \A q \in Threads : at'[q] # "name"
    BY <1>0, <2>1 DEF OneUnnamed
  <2>3. \A v \in Vertices : vertices'[v] # Unnamed
    BY <2>1, KnowledgeAssumption DEF OneUnnamed
  <2> QED
    BY <2>1, <2>2, <2>3 DEF OneUnnamed
<1> QED
  BY <1>1, <1>2, <1>3 DEF StepOf

\* No step takes the content of a vertex away.
LEMMA ContentsKept ==
  ASSUME Shape, OneUnnamed, NEW p \in Threads, StepOf(p), ~collided'
  PROVE  Kept
<1>1. CASE MakesNoVertex(p)
  BY <1>1, NotNaming DEF Kept, Vertices
<1>2. CASE AddVertex(p)
  BY <1>2, AddKeeps DEF Kept
<1>3. CASE NameVertex(p)
  <2>1. at[p] = "name" => vertices[Len(vertices)] = Unnamed
    BY DEF OneUnnamed
  <2> QED
    BY <1>3, <2>1, NameKeeps DEF Kept
<1> QED
  BY <1>1, <1>2, <1>3 DEF StepOf

\* What a thread holds are vertices, for the blocks of its pair.
LEMMA HandBlocks ==
  ASSUME Shape, NEW p \in Threads, NEW i \in 1..Len(ends[p])
  PROVE  Element(p)[i] \in Blocks /\ ends[p][i] \in Vertices
<1>1. ends[p] \in Seq(Vertices) /\ Len(ends[p]) <= 2
  BY DEF Shape, TypeOK
<1>2. Element(p) \in Pairs
  BY <1>1 DEF Shape, InPlace
<1>3. i = 1 \/ i = 2
  <2>1. Len(ends[p]) \in Nat
    BY <1>1
  <2>2. \A m \in Nat : m <= 2 => \A n \in 1..m : n = 1 \/ n = 2
    OBVIOUS
  <2> QED
    BY <1>1, <2>1, <2>2
<1>4. Element(p)[1] \in Blocks /\ Element(p)[2] \in Blocks
  BY <1>2 DEF Pairs
<1> QED
  BY <1>1, <1>3, <1>4

\* The cache leads to the right vertices, after a put() or copy_get() as before.
LEMMA CacheStep ==
  ASSUME Shape, OneUnnamed, RightVertices, NEW p \in Threads, StepOf(p), ~collided'
  PROVE  \A i \in DOMAIN vertex_cache' :
             vertices'[vertex_cache'[i][2]] = vertex_cache'[i][1]
<1>0. Kept /\ Unnamed \notin Blocks /\ vertex_cache \in Seq(Blocks \X Vertices)
  BY ContentsKept, KnowledgeAssumption DEF Shape, TypeOK
<1>t. CacheOf(vertex_cache, Vertices) /\ Len(vertex_cache) <= CacheSize
  BY DEF Shape, TypeOK, CacheOf
<1>1. \A i \in DOMAIN vertex_cache :
          vertices'[vertex_cache[i][2]] = vertex_cache[i][1]
  <2> TAKE i \in DOMAIN vertex_cache
  <2>1. vertex_cache[i][1] \in Blocks /\ vertex_cache[i][2] \in Vertices
    BY <1>0
  <2> QED
    BY <1>0, <2>1 DEF RightVertices, Kept
<1>2. ASSUME NEW e \in Blocks, NEW v \in Vertices, vertices'[v] = e,
             \A i \in DOMAIN vertex_cache' :
                 vertex_cache'[i] = <<e, v>> \/ Has(vertex_cache, vertex_cache'[i])
      PROVE  \A i \in DOMAIN vertex_cache' :
                 vertices'[vertex_cache'[i][2]] = vertex_cache'[i][1]
  BY <1>1, <1>2 DEF Has
<1>3. CASE vertex_cache' = vertex_cache
  BY <1>1, <1>3
<1>4. CASE CopyGet(p)
  <2>1. PICK v : /\ v = vertex_cache[CachedVertex(Wanted(p))][2]
                 /\ vertex_cache' = First(Wanted(p), v)
    BY <1>4 DEF CopyGet
  <2>2. at[p] \in Looking /\ Wanted(p) \in Cached /\ Wanted(p) \in Blocks
    BY <1>4, WantsBlock DEF CopyGet, Looking
  <2>3. v \in Vertices /\ vertices'[v] = Wanted(p)
    BY <1>1, <1>t, <2>1, <2>2, CachedEntry
  <2> QED
    BY <1>2, <1>t, <2>1, <2>2, <2>3, GetKept
<1>5. CASE FindVertex(p) /\ vertex_cache' # vertex_cache
  <2>1. PICK v \in VerticesOf(Wanted(p)) : Put(Wanted(p), v)
    BY <1>5 DEF FindVertex
  <2>2. at[p] \in Looking /\ Wanted(p) \in Blocks
    BY <1>5, WantsBlock DEF FindVertex, Looking
  <2>3. v \in Vertices /\ vertices'[v] = Wanted(p)
    <3>1. v \in Vertices /\ vertices[v] = Wanted(p)
      BY DEF VerticesOf
    <3> QED
      BY <1>0, <2>2, <3>1 DEF Kept
  <2>4. \A i \in DOMAIN vertex_cache' :
            vertex_cache'[i] = <<Wanted(p), v>> \/ Has(vertex_cache, vertex_cache'[i])
    BY <1>t, <2>1, <2>2, <2>3, PutKept
  <2> QED
    BY <1>2, <2>2, <2>3, <2>4
<1>6. CASE NameVertex(p)
  <2>1. /\ Len(vertices) \in Vertices /\ Wanted(p) \in Blocks
        /\ vertices'[Len(vertices)] = Wanted(p) /\ Put(Wanted(p), Len(vertices))
    BY <1>6, NameKeeps
  <2> QED
    BY <1>2, <1>t, <2>1, PutKept, ZenonT(60)
<1>7. vertex_cache' = vertex_cache \/ CopyGet(p) \/ FindVertex(p) \/ NameVertex(p)
  BY DEF StepOf, MakesNoVertex, AddTrace, StartEvaluation, EvaluateTrace, TraceDone,
    CacheHit, CacheMiss, CopyGetThrows, ReachFunction, AddEdge, LookupGoals, AddVertex,
    graph_vars
<1> QED
  BY <1>3, <1>4, <1>5, <1>6, <1>7

\* So does what a thread holds.
LEMMA HandStep ==
  ASSUME Shape, OneUnnamed, RightVertices, NEW p \in Threads, StepOf(p), ~collided'
  PROVE  \A q \in Threads : \A i \in 1..Len(ends'[q]) : vertices'[ends'[q][i]] = Element(q)'[i]
<1>0. Kept /\ Unnamed \notin Blocks /\ Alone(p)
  BY ContentsKept, KnowledgeAssumption, StepAlone
<1>t. CacheOf(vertex_cache, Vertices) /\ ends \in [Threads -> Seq(Vertices)]
  BY DEF Shape, TypeOK, CacheOf
<1>1. \A q \in Threads : \A i \in 1..Len(ends[q]) : vertices'[ends[q][i]] = Element(q)[i]
  BY <1>0, HandBlocks DEF RightVertices, Kept
<1>2. ASSUME NEW q \in Threads, ends'[q] = ends[q], Element(q)' = Element(q)
      PROVE  \A i \in 1..Len(ends'[q]) : vertices'[ends'[q][i]] = Element(q)'[i]
  BY <1>1, <1>2
<1>3. \A q \in Threads : q # p => ends'[q] = ends[q] /\ Element(q)' = Element(q)
  BY <1>0 DEF Alone, Element
<1>4. ASSUME NEW v, vertices'[v] = Wanted(p), Element(p)' = Element(p),
             ends'[p] = Append(ends[p], v)
      PROVE  \A i \in 1..Len(ends'[p]) : vertices'[ends'[p][i]] = Element(p)'[i]
  <2>1. /\ Len(ends'[p]) = Len(ends[p]) + 1 /\ Len(ends[p]) \in Nat
        /\ ends'[p][Len(ends[p]) + 1] = v
        /\ \A i \in 1..Len(ends[p]) : ends'[p][i] = ends[p][i]
    BY <1>t, <1>4
  <2>2. \A n \in Nat : \A i \in 1..(n + 1) : i \in 1..n \/ i = n + 1
    OBVIOUS
  <2>3. vertices'[ends'[p][Len(ends[p]) + 1]] = Element(p)'[Len(ends[p]) + 1]
    BY <1>4, <2>1 DEF Wanted
  <2>4. \A i \in 1..Len(ends[p]) : vertices'[ends'[p][i]] = Element(p)'[i]
    BY <1>1, <1>4, <2>1
  <2> QED
    BY <2>1, <2>2, <2>3, <2>4
<1>a. SUFFICES \A i \in 1..Len(ends'[p]) : vertices'[ends'[p][i]] = Element(p)'[i]
  BY <1>2, <1>3
<1>5. CASE ends'[p] = <<>>
  BY <1>5
<1>6. CASE CopyGet(p)
  <2>1. PICK v : /\ v = vertex_cache[CachedVertex(Wanted(p))][2] /\ Found(p, v)
    BY <1>6 DEF CopyGet
  <2>2. at[p] \in Looking /\ Wanted(p) \in Cached /\ Wanted(p) \in Blocks /\ todo' = todo
        /\ vertices' = vertices
    BY <1>6, WantsBlock DEF CopyGet, Looking
  <2>3. v \in Vertices /\ vertices'[v] = Wanted(p)
    BY <1>t, <2>1, <2>2, CachedEntry DEF RightVertices
  <2>4. ends'[p] = Append(ends[p], v) /\ Element(p)' = Element(p)
    BY <2>1, <2>2, <2>3, FoundPlace
  <2> QED
    BY <1>4, <2>3, <2>4
<1>7. CASE FindVertex(p) /\ ends' # ends
  <2>1. PICK v \in VerticesOf(Wanted(p)) : Found(p, v)
    BY <1>7 DEF FindVertex
  <2>2. at[p] \in Looking /\ todo' = todo /\ vertices' = vertices
    BY <1>7 DEF FindVertex, Looking
  <2>3. v \in Vertices /\ vertices'[v] = Wanted(p)
    BY <2>2 DEF VerticesOf
  <2>4. ends'[p] = Append(ends[p], v) /\ Element(p)' = Element(p)
    BY <2>1, <2>2, <2>3, FoundPlace
  <2> QED
    BY <1>4, <2>3, <2>4
<1>8. CASE NameVertex(p)
  BY <1>4, <1>8, NameKeeps
<1>9. \/ ends'[p] = <<>>
      \/ ends'[p] = ends[p] /\ Element(p)' = Element(p)
      \/ CopyGet(p) \/ (FindVertex(p) /\ ends' # ends) \/ NameVertex(p)
  <2>1. CASE ReachFunction(p) \/ LookupGoals(p) \/ CopyGetThrows(p)
    BY <1>t, <2>1 DEF ReachFunction, LookupGoals, CopyGetThrows, NextElement
  <2>2. CASE p = "campaign" /\ \E trace \in Traces : AddTrace(trace)
    BY <2>2 DEF AddTrace, Shape, InPlace
  <2>5. CASE p = "evaluation" /\ \E trace \in Traces : EvaluateTrace(trace)
    BY <2>5 DEF EvaluateTrace, Shape, InPlace
  <2>3. CASE UNCHANGED <<todo, ends>>
    BY <2>3 DEF Element
  <2>4. CASE FindVertex(p)
    <3>1. todo' = todo
      BY <2>4 DEF FindVertex
    <3> QED
      BY <2>3, <2>4, <3>1
  <2>6. CASE \/ StartEvaluation \/ TraceDone(p) \/ CacheHit(p) \/ CacheMiss(p)
             \/ AddEdge(p) \/ AddVertex(p)
    <3>1. UNCHANGED <<todo, ends>>
      BY <2>6 DEF StartEvaluation, TraceDone, CacheHit, CacheMiss, AddEdge, AddVertex
    <3> QED
      BY <2>3, <3>1
  <2>7. CASE CopyGet(p) \/ NameVertex(p)
    BY <2>7
  <2> QED
    BY <2>1, <2>2, <2>4, <2>5, <2>6, <2>7, Zenon DEF StepOf, MakesNoVertex
<1> QED
  BY <1>2, <1>3, <1>5, <1>6, <1>7, <1>8, <1>9

\* The ends of the edge that a thread adds.
LEMMA NewEdge ==
  ASSUME Shape, RightVertices, NEW p \in Threads, AddEdge(p)
  PROVE  /\ Element(p) \in Pairs
         /\ ends[p][1] \in Vertices /\ vertices[ends[p][1]] = Element(p)[1]
         /\ ends[p][2] \in Vertices /\ vertices[ends[p][2]] = Element(p)[2]
         /\ Element(p)[1] \in Blocks /\ Element(p)[2] \in Blocks
<1>1. 1 \in 1..Len(ends[p]) /\ 2 \in 1..Len(ends[p])
  BY DEF AddEdge
<1>2. Element(p) \in Pairs
  <2>1. ends[p] # <<>>
    BY DEF AddEdge
  <2> QED
    BY <2>1 DEF Shape, InPlace
<1> QED
  BY <1>1, <1>2, HandBlocks DEF RightVertices

\* Edges are between vertices that have a content.
LEMMA EdgeStep ==
  ASSUME Shape, OneUnnamed, RightVertices, NEW p \in Threads, StepOf(p), ~collided'
  PROVE  \A e \in edges' : vertices'[e[1]] \in Blocks /\ vertices'[e[2]] \in Blocks
<1>0. Kept /\ Unnamed \notin Blocks /\ edges \subseteq Vertices \X Vertices
  BY ContentsKept, KnowledgeAssumption DEF Shape, TypeOK
<1>1. \A e \in edges : vertices'[e[1]] \in Blocks /\ vertices'[e[2]] \in Blocks
  <2> TAKE e \in edges
  <2>1. /\ e[1] \in Vertices /\ vertices[e[1]] \in Blocks
        /\ e[2] \in Vertices /\ vertices[e[2]] \in Blocks
    BY <1>0 DEF RightVertices
  <2> QED
    BY <1>0, <2>1 DEF Kept
<1>2. CASE edges' = edges
  BY <1>1, <1>2
<1>3. CASE AddEdge(p)
  <2>1. edges' \subseteq edges \union {<<ends[p][1], ends[p][2]>>} /\ vertices' = vertices
    BY <1>3 DEF AddEdge
  <2>2. vertices[ends[p][1]] \in Blocks /\ vertices[ends[p][2]] \in Blocks
    BY <1>3, NewEdge
  <2> QED
    BY <1>1, <2>1, <2>2
<1>4. edges' = edges \/ AddEdge(p)
  BY DEF StepOf, MakesNoVertex, AddTrace, StartEvaluation, EvaluateTrace, TraceDone,
    CacheHit, CacheMiss, CopyGetThrows, ReachFunction, LookupGoals, CopyGet, FindVertex,
    AddVertex, NameVertex, graph_vars
<1> QED
  BY <1>2, <1>3, <1>4

-----------------------------------------------------------------------------
\* How many vertices a block has, and how many threads are about to add one.
LEMMA ThreadsCounted ==
  ASSUME NEW S \in SUBSET Threads
  PROVE  /\ IsFiniteSet(S) /\ Cardinality(S) \in Nat /\ Cardinality(S) <= 2
         /\ "evaluation" \notin S => Cardinality(S) <= 1
<1>1. /\ IsFiniteSet({"campaign"}) /\ Cardinality({"campaign"}) = 1
  BY FS_Singleton
<1>2. Threads = {"campaign"} \union {"evaluation"}
  BY DEF Threads
<1>3. IsFiniteSet(Threads) /\ Cardinality(Threads) = 2
  <2>1. /\ IsFiniteSet({"campaign"} \union {"evaluation"})
        /\ Cardinality({"campaign"} \union {"evaluation"}) = 1 + 1
    BY <1>1, FS_AddElement
  <2> QED
    BY <1>2, <2>1
<1>4. IsFiniteSet(S) /\ Cardinality(S) <= 2 /\ Cardinality(S) \in Nat
  BY <1>3, FS_Subset, FS_CardinalityType
<1>5. ASSUME "evaluation" \notin S
      PROVE  Cardinality(S) <= 1
  <2>1. S \subseteq {"campaign"}
    BY <1>2, <1>5
  <2> QED
    BY <1>1, <2>1, FS_Subset
<1> QED
  BY <1>4, <1>5

\* Nobody adds but the two threads, and the second only where it shares the graph.
LEMMA AddingCounted ==
  ASSUME Shape, NEW e
  PROVE  /\ IsFiniteSet(Adding(e)) /\ Cardinality(Adding(e)) \in Nat
         /\ Cardinality(Adding(e)) <= Most
<1>1. Adding(e) \subseteq Threads
  BY DEF Adding
<1>2. ~Disturbed => "evaluation" \notin Adding(e)
  <2>1. at["evaluation"] = "idle" => "evaluation" \notin Adding(e)
    BY DEF Adding
  <2>2. "evaluation" \in Adding(e) => left_over
    BY DEF Adding, Shape, EvaluatesShared, Looking
  <2> QED
    BY <2>1, <2>2 DEF Disturbed
<1> QED
  BY <1>1, <1>2, ThreadsCounted DEF Most

\* The vertices of an element are finitely many.
LEMMA CopiesCounted ==
  ASSUME Shape, NEW e
  PROVE  /\ Copies(e) = Cardinality(VerticesOf(e))
         /\ IsFiniteSet(VerticesOf(e)) /\ Copies(e) \in Nat
         /\ VerticesOf(e) \subseteq Vertices /\ IsFiniteSet(Vertices)
<1>1. IsFiniteSet(Vertices)
  <2>1. Vertices = 1..Len(vertices) /\ Len(vertices) \in Nat
    BY DEF Shape, TypeOK, Vertices
  <2> QED
    BY <2>1, FS_Interval
<1>2. VerticesOf(e) \subseteq Vertices
  BY DEF VerticesOf
<1>3. IsFiniteSet(VerticesOf(e))
  BY <1>1, <1>2, FS_Subset
<1>4. Copies(e) = Cardinality(VerticesOf(e))
  BY DEF Copies, VerticesOf
<1> QED
  BY <1>1, <1>2, <1>3, <1>4, FS_CardinalityType

\* Who is to add a vertex has found none; naming one turns an intention into a copy.
LEMMA CopiesStep ==
  ASSUME Shape, Shape', OneUnnamed, CopiesAndAdding, NEW p \in Threads, StepOf(p), ~collided'
  PROVE  CopiesAndAdding'
<1> SUFFICES ASSUME NEW e \in Blocks
             PROVE  Copies(e)' + Cardinality(Adding(e))' <= Most'
  BY DEF CopiesAndAdding
<1>0. /\ Alone(p) /\ at' \in [Threads -> Places] /\ Unnamed \notin Blocks
      /\ at \in [Threads -> Places]
  BY StepAlone, KnowledgeAssumption DEF Shape, TypeOK, Places
<1>1. /\ Copies(e) \in Nat /\ Cardinality(Adding(e)) \in Nat
      /\ Copies(e) + Cardinality(Adding(e)) <= Most
      /\ IsFiniteSet(Adding(e)) /\ IsFiniteSet(VerticesOf(e))
      /\ Copies(e) = Cardinality(VerticesOf(e))
  BY AddingCounted, CopiesCounted DEF CopiesAndAdding
<1>2. Most <= Most' /\ Most \in {1, 2} /\ Most' \in {1, 2}
  BY DisturbedStays DEF Most
<1>3. Copies(e)' = Cardinality(VerticesOf(e)')
  BY DEF Copies, VerticesOf
<1>4. \A q \in Threads : q # p => (q \in Adding(e)' <=> q \in Adding(e))
  BY <1>0 DEF Adding, Wanted, Element, Alone
<1>5. ASSUME VerticesOf(e)' = VerticesOf(e), Adding(e)' = Adding(e)
      PROVE  Copies(e)' + Cardinality(Adding(e))' <= Most'
  BY <1>1, <1>2, <1>3, <1>5
<1>6. CASE MakesNoVertex(p)
  <2>1. VerticesOf(e)' = VerticesOf(e)
    BY <1>6, NotNaming DEF VerticesOf, Vertices
  <2>2. p \notin Adding(e)
    BY <1>6, NotNaming DEF Adding
  <2>3. CASE p \notin Adding(e)'
    <3>1. Adding(e)' = Adding(e)
      BY <1>4, <2>2, <2>3 DEF Adding
    <3> QED
      BY <1>5, <2>1, <3>1
  <2>4. CASE p \in Adding(e)'
    <3>1. at'[p] = "add" /\ Wanted(p)' = e
      BY <1>6, <2>4, NotNaming DEF Adding
    <3>2. FindVertex(p) /\ VerticesOf(Wanted(p)) = {}
      BY <1>6, <3>1, NotNaming
    <3>3. Wanted(p) = e
      <4>1. todo' = todo /\ ends' = ends
        BY <3>2 DEF FindVertex
      <4> QED
        BY <3>1, <4>1 DEF Wanted, Element
    <3>4. Copies(e)' = 0
      BY <1>3, <2>1, <3>2, <3>3, FS_EmptySet
    <3>5. Cardinality(Adding(e)') <= Most' /\ Cardinality(Adding(e)') \in Nat
      <4>1. Adding(e)' \subseteq Threads
        BY DEF Adding
      <4>2. at'["evaluation"] = "idle" => "evaluation" \notin Adding(e)'
        BY DEF Adding
      <4>3. "evaluation" \in Adding(e)' => left_over'
        BY DEF Adding, Shape, EvaluatesShared, Looking
      <4>4. ~Disturbed' => "evaluation" \notin Adding(e)'
        BY <4>2, <4>3 DEF Disturbed
      <4> QED
        BY <4>1, <4>4, ThreadsCounted DEF Most
    <3> QED
      BY <1>2, <3>4, <3>5
  <2> QED
    BY <2>3, <2>4
<1>7. CASE AddVertex(p)
  <2>1. VerticesOf(e)' = VerticesOf(e)
    BY <1>0, <1>7, AddKeeps DEF VerticesOf
  <2>2. p \in Adding(e)' <=> p \in Adding(e)
    BY <1>0, <1>7, AddKeeps DEF Adding, Wanted, Element
  <2>3. Adding(e)' = Adding(e)
    BY <1>4, <2>2 DEF Adding
  <2> QED
    BY <1>5, <2>1, <2>3
<1>8. CASE NameVertex(p)
  <2>1. /\ at[p] = "name" /\ at'[p] = "element" /\ Len(vertices) \in Vertices
        /\ Vertices' = Vertices /\ vertices'[Len(vertices)] = Wanted(p)
        /\ \A v \in Vertices : v # Len(vertices) => vertices'[v] = vertices[v]
    BY <1>0, <1>8, NameKeeps
  <2>2. vertices[Len(vertices)] = Unnamed
    BY <2>1 DEF OneUnnamed
  <2>3. CASE e = Wanted(p)
    <3>1. VerticesOf(e)' = VerticesOf(e) \union {Len(vertices)}
      BY <2>1, <2>3 DEF VerticesOf
    <3>2. Len(vertices) \notin VerticesOf(e)
      BY <1>0, <2>2 DEF VerticesOf
    <3>3. Copies(e)' = Copies(e) + 1
      BY <1>1, <1>3, <3>1, <3>2, FS_AddElement
    <3>4. p \in Adding(e) /\ p \notin Adding(e)'
      BY <2>1, <2>3 DEF Adding
    <3>5. Adding(e)' = Adding(e) \ {p}
      BY <1>4, <3>4 DEF Adding
    <3>6. Cardinality(Adding(e)') = Cardinality(Adding(e)) - 1
      BY <1>1, <3>4, <3>5, FS_RemoveElement
    <3> QED
      BY <1>1, <1>2, <3>3, <3>6
  <2>4. CASE e # Wanted(p)
    <3>1. VerticesOf(e)' = VerticesOf(e)
      BY <1>0, <2>1, <2>2, <2>4 DEF VerticesOf
    <3>2. p \notin Adding(e) /\ p \notin Adding(e)'
      BY <2>1, <2>4 DEF Adding
    <3>3. Adding(e)' = Adding(e)
      BY <1>4, <3>2 DEF Adding
    <3> QED
      BY <1>5, <3>1, <3>3
  <2> QED
    BY <2>3, <2>4
<1> QED
  BY <1>6, <1>7, <1>8 DEF StepOf

\* What is said of the graph is preserved,
LEMMA GraphStep ==
  ASSUME Shape, Graph, NEW p \in Threads, StepOf(p), Shape'
  PROVE  Graph'
<1> SUFFICES ASSUME ~collided'
             PROVE  OneUnnamed' /\ RightVertices' /\ CopiesAndAdding'
  BY DEF Graph
<1>1. OneUnnamed /\ RightVertices /\ CopiesAndAdding
  BY StillNotCollided DEF Graph
<1>2. RightVertices'
  BY <1>1, CacheStep, HandStep, EdgeStep DEF RightVertices
<1> QED
  BY <1>1, <1>2, UnnamedStep, CopiesStep

\* and true at first.
LEMMA GraphInit == Init => Graph
<1> SUFFICES ASSUME Init
             PROVE  Graph
  OBVIOUS
<1>0. Shape
  BY ShapeInit
<1>1. Vertices = {} /\ \A p \in Threads : at[p] = "idle"
  BY DEF Init, Vertices
<1>2. OneUnnamed
  BY <1>1 DEF OneUnnamed
<1>3. RightVertices
  BY DEF Init, RightVertices
<1>4. CopiesAndAdding
  <2> SUFFICES ASSUME NEW e \in Blocks
               PROVE  Copies(e) + Cardinality(Adding(e)) <= Most
    BY DEF CopiesAndAdding
  <2>1. VerticesOf(e) = {}
    BY <1>1 DEF VerticesOf
  <2>2. Copies(e) = 0
    BY <1>0, <2>1, CopiesCounted, FS_EmptySet
  <2>3. Cardinality(Adding(e)) \in Nat /\ Cardinality(Adding(e)) <= Most /\ Most \in {1, 2}
    BY <1>0, AddingCounted DEF Most
  <2> QED
    BY <2>2, <2>3
<1> QED
  BY <1>2, <1>3, <1>4 DEF Graph

-----------------------------------------------------------------------------
\* Eviction. A sequence has finitely many contents.
LEMMA ContentsFinite ==
  ASSUME NEW S, NEW s \in Seq(S)
  PROVE  IsFiniteSet({s[i] : i \in DOMAIN s})
<1> DEFINE R == {s[i] : i \in DOMAIN s}
<1>1. Len(s) \in Nat /\ DOMAIN s = 1..Len(s) /\ s \in [1..Len(s) -> S]
  OBVIOUS
<1>2. IsFiniteSet(1..Len(s))
  BY <1>1, FS_Interval
<1>3. s \in Surjection(1..Len(s), R)
  <2>1. s \in [1..Len(s) -> R] /\ \A r \in R : \E i \in 1..Len(s) : s[i] = r
    BY <1>1
  <2> QED
    BY <2>1 DEF Surjection
<1> HIDE DEF R
<1>4. IsFiniteSet(R)
  BY <1>2, <1>3, FS_Surjection
<1> QED
  BY <1>4 DEF R

\* The contents of the graph only get more.
LEMMA KnownGrows ==
  ASSUME Shape, Shape', OneUnnamed, NEW p \in Threads, StepOf(p), ~collided'
  PROVE  /\ Known \subseteq Known'
         /\ \A K \in SUBSET Known' : Cardinality(K) <= Cardinality(Known')
         /\ Cardinality(Known) \in Nat /\ Cardinality(Known') \in Nat
<1>1. Known \subseteq Known'
  BY ContentsKept DEF Known, Kept
<1>2. IsFiniteSet(Known')
  <2>1. vertices' \in Seq(Blocks \union {Unnamed})
    BY DEF Shape, TypeOK
  <2>2. IsFiniteSet({vertices'[i] : i \in DOMAIN vertices'})
    BY <2>1, ContentsFinite
  <2>3. Known' \subseteq {vertices'[i] : i \in DOMAIN vertices'}
    BY DEF Known, Vertices
  <2> QED
    BY <2>2, <2>3, FS_Subset
<1>3. \A K \in SUBSET Known' : IsFiniteSet(K) /\ Cardinality(K) <= Cardinality(Known')
  BY <1>2, FS_Subset
<1>4. IsFiniteSet(Known)
  BY <1>1, <1>3
<1> QED
  BY <1>1, <1>2, <1>3, <1>4, FS_CardinalityType

\* So what was once too much for the cache stays too much.
LEMMA EvictedStays ==
  ASSUME Shape, Shape', Graph, Evicted, NEW p \in Threads, StepOf(p)
  PROVE  Evicted'
<1>1. Disturbed'
  BY DisturbedStays DEF Evicted
<1>2. CASE collided'
  BY <1>1, <1>2 DEF Evicted
<1>3. CASE ~collided'
  <2>1. ~collided /\ OneUnnamed
    BY <1>3, StillNotCollided DEF Graph
  <2>2. Cardinality(Known) > CacheSize
    BY <2>1 DEF Evicted
  <2>3. Cardinality(Known) <= Cardinality(Known') /\ Cardinality(Known) \in Nat
        /\ Cardinality(Known') \in Nat
    BY <1>3, <2>1, KnownGrows
  <2>4. CacheSize \in Nat
    BY KnowledgeAssumption
  <2>5. \A k, l, m \in Nat : k > m /\ k <= l => l > m
    OBVIOUS
  <2>6. Cardinality(Known') > CacheSize
    BY <2>2, <2>3, <2>4, <2>5
  <2> QED
    BY <1>1, <2>6 DEF Evicted
<1> QED
  BY <1>2, <1>3

\* The cache leads to contents of the graph.
LEMMA CachedKnown ==
  ASSUME Shape, RightVertices
  PROVE  Cached \subseteq Known
<1>1. vertex_cache \in Seq(Blocks \X Vertices) /\ Unnamed \notin Blocks
  BY KnowledgeAssumption DEF Shape, TypeOK
<1>2. \A i \in DOMAIN vertex_cache :
          /\ vertex_cache[i][1] \in Blocks /\ vertex_cache[i][2] \in Vertices
          /\ vertices[vertex_cache[i][2]] = vertex_cache[i][1]
  BY <1>1 DEF RightVertices
<1> QED
  BY <1>1, <1>2 DEF Cached, Known

\* Only another thread takes out of the cache what a thread has seen there.
LEMMA PutEvicts ==
  ASSUME Shape, Shape', Graph, NEW p \in Threads, StepOf(p), NEW q \in Threads, q # p,
         at[q] = "get", Wanted(q) \in Cached
  PROVE  Wanted(q) \in Cached' \/ Evicted'
<1>0. /\ at \in [Threads -> Places] /\ CacheOf(vertex_cache, Vertices)
      /\ Len(vertex_cache) <= CacheSize /\ Unnamed \notin Blocks
  BY KnowledgeAssumption DEF Shape, TypeOK, Places, CacheOf
<1>1. CASE vertex_cache' = vertex_cache
  BY <1>1 DEF Cached
<1>2. CASE CopyGet(p)
  <2>1. PICK v : /\ v = vertex_cache[CachedVertex(Wanted(p))][2]
                 /\ vertex_cache' = First(Wanted(p), v)
    BY <1>2 DEF CopyGet
  <2>2. at[p] \in Looking /\ Wanted(p) \in Cached /\ Wanted(p) \in Blocks
    BY <1>2, WantsBlock DEF CopyGet, Looking
  <2>3. v \in Vertices
    BY <1>0, <2>1, <2>2, CachedEntry
  <2>4. Cached' = Cached
    BY <1>0, <2>1, <2>2, <2>3, GetKept
  <2> QED
    BY <2>4
<1>3. ASSUME NEW v \in Vertices, Put(Wanted(p), v), at[p] \in {"find", "name"},
             ~collided' => Wanted(p) \in Known'
      PROVE  Wanted(q) \in Cached' \/ Evicted'
  <2>1. Wanted(p) \in Blocks
    BY <1>3, WantsBlock DEF Looking
  <2>2. \/ Cached' = Cached \union {Wanted(p)}
        \/ Cardinality(Cached \union {Wanted(p)}) > CacheSize
    BY <1>0, <1>3, <2>1, PutKept
  <2>3. CASE Cardinality(Cached \union {Wanted(p)}) > CacheSize
    <3>1. Disturbed
      <4>1. p = "evaluation" \/ q = "evaluation"
        BY DEF Threads
      <4>2. at["evaluation"] \in Looking
        BY <1>3, <4>1 DEF Looking
      <4> QED
        BY <4>2 DEF Disturbed, Shape, EvaluatesShared, Looking
    <3>2. Disturbed'
      BY <3>1, DisturbedStays
    <3>3. CASE collided'
      BY <3>2, <3>3 DEF Evicted
    <3>4. CASE ~collided'
      <4>1. OneUnnamed /\ RightVertices
        BY <3>4, StillNotCollided DEF Graph
      <4>2. Cached \union {Wanted(p)} \subseteq Known'
        BY <1>3, <3>4, <4>1, CachedKnown, KnownGrows
      <4>3. Cardinality(Cached \union {Wanted(p)}) <= Cardinality(Known')
            /\ Cardinality(Known') \in Nat
        BY <3>4, <4>1, <4>2, KnownGrows
      <4>4. CacheSize \in Nat /\ Cardinality(Cached \union {Wanted(p)}) \in Nat
        <5>1. IsFiniteSet(Cached)
          <6>1. vertex_cache \in Seq(Blocks \X Vertices) /\ KeysDistinct(vertex_cache)
            BY <1>0 DEF CacheOf
          <6>2. IsFiniteSet(Keys(vertex_cache))
            BY <6>1, KeysCounted
          <6> QED
            BY <6>2 DEF Cached, Keys
        <5> QED
          BY <5>1, KnowledgeAssumption, FS_AddElement, FS_CardinalityType
      <4>5. \A k, l, m \in Nat : k > m /\ k <= l => l > m
        OBVIOUS
      <4>6. Cardinality(Known') > CacheSize
        BY <2>3, <4>3, <4>4, <4>5
      <4> QED
        BY <3>2, <4>6 DEF Evicted
    <3> QED
      BY <3>3, <3>4
  <2> QED
    BY <2>2, <2>3
<1>4. CASE FindVertex(p) /\ vertex_cache' # vertex_cache
  <2>1. PICK v \in VerticesOf(Wanted(p)) : Put(Wanted(p), v)
    BY <1>4 DEF FindVertex
  <2>2. at[p] = "find" /\ vertices' = vertices
    BY <1>4 DEF FindVertex
  <2>3. v \in Vertices /\ vertices[v] = Wanted(p) /\ Wanted(p) \in Blocks
    BY <2>2, WantsBlock DEF VerticesOf, Looking
  <2>4. Wanted(p) \in Known'
    BY <1>0, <2>2, <2>3 DEF Known, Vertices
  <2> QED
    BY <1>3, <2>1, <2>2, <2>3, <2>4
<1>5. CASE NameVertex(p)
  <2>1. /\ at[p] = "name" /\ Len(vertices) \in Vertices /\ Vertices' = Vertices
        /\ vertices'[Len(vertices)] = Wanted(p) /\ Wanted(p) \in Blocks
        /\ Put(Wanted(p), Len(vertices))
    BY <1>5, NameKeeps
  <2>2. Wanted(p) \in Known'
    BY <1>0, <2>1 DEF Known
  <2> QED
    BY <1>3, <2>1, <2>2
<1>6. vertex_cache' = vertex_cache \/ CopyGet(p) \/ FindVertex(p) \/ NameVertex(p)
  BY DEF StepOf, MakesNoVertex, AddTrace, StartEvaluation, EvaluateTrace, TraceDone,
    CacheHit, CacheMiss, CopyGetThrows, ReachFunction, AddEdge, LookupGoals, AddVertex,
    graph_vars
<1> QED
  BY <1>1, <1>2, <1>4, <1>5, <1>6

\* Between exists() and copy_get() an element may only be evicted by the other thread.
LEMMA GetsStep ==
  ASSUME Shape, Shape', Graph, GetsCached, NEW p \in Threads, StepOf(p)
  PROVE  GetsCached'
<1> SUFFICES ASSUME NEW q \in Threads, at'[q] = "get"
             PROVE  Wanted(q)' \in Cached' \/ Evicted'
  BY DEF GetsCached
<1>0. at \in [Threads -> Places] /\ Alone(p)
  BY StepAlone DEF Shape, TypeOK, Places
<1>1. CASE q = p
  <2>1. CacheHit(p)
    <3>1. CASE CopyGet(p) \/ FindVertex(p)
      BY <1>0, <1>1, <3>1 DEF CopyGet, FindVertex, Found, Go
    <3>2. CASE AddVertex(p) \/ NameVertex(p)
      BY <1>0, <1>1, <3>2, AddKeeps, NameKeeps
    <3>3. CASE MakesNoVertex(p) /\ ~(CopyGet(p) \/ FindVertex(p))
      BY <1>0, <1>1, <3>3 DEF MakesNoVertex, AddTrace, StartEvaluation, EvaluateTrace,
        TraceDone, CacheMiss, CopyGetThrows, ReachFunction, AddEdge, LookupGoals, Go
    <3> QED
      BY <3>1, <3>2, <3>3 DEF StepOf
  <2>2. Wanted(p) \in Cached /\ UNCHANGED <<todo, ends, vertex_cache>>
    BY <2>1 DEF CacheHit, Exists, graph_vars
  <2>3. Wanted(p)' = Wanted(p) /\ Cached' = Cached
    BY <2>2 DEF Wanted, Element, Cached
  <2> QED
    BY <1>1, <2>2, <2>3
<1>2. CASE q # p
  <2>1. at[q] = "get" /\ Wanted(q)' = Wanted(q)
    BY <1>0, <1>2 DEF Alone, Wanted, Element
  <2>2. Wanted(q) \in Cached \/ Evicted
    BY <2>1 DEF GetsCached
  <2> QED
    BY <1>2, <2>1, <2>2, PutEvicts, EvictedStays
<1> QED
  BY <1>1, <1>2

\* Hence copy_get() throws only for what was evicted.
LEMMA FailsStep ==
  ASSUME Shape, Shape', Graph, GetsCached, FailsOnlyIfEvicted, NEW p \in Threads, StepOf(p)
  PROVE  FailsOnlyIfEvicted'
<1>1. FailsOnlyIfEvicted <=> (failed # {} => Evicted)
  BY DEF FailsOnlyIfEvicted, Evicted, Known
<1>2. FailsOnlyIfEvicted' <=> (failed' # {} => Evicted')
  BY DEF FailsOnlyIfEvicted, Evicted, Known
<1>3. CASE failed' = failed
  BY <1>1, <1>2, <1>3, EvictedStays
<1>4. CASE CopyGetThrows(p)
  <2>1. Evicted
    BY <1>4 DEF CopyGetThrows, GetsCached
  <2> QED
    BY <1>2, <2>1, EvictedStays
<1>5. failed' = failed \/ CopyGetThrows(p)
  BY DEF StepOf, MakesNoVertex, AddTrace, StartEvaluation, EvaluateTrace, TraceDone,
    CacheHit, CacheMiss, CopyGet, FindVertex, ReachFunction, AddEdge, LookupGoals, AddVertex,
    NameVertex, trace_vars
<1> QED
  BY <1>3, <1>4, <1>5

-----------------------------------------------------------------------------
\* Credits. What an element is scored for, x, and what is left as it was.
LEMMA Scored ==
  ASSUME TypeOK, NEW p \in Threads, NEW new, NEW xs, Score(p, new, xs)
  PROVE  /\ \A q \in Threads : seen'[q] = IF q = p THEN seen[q] \union xs ELSE seen[q]
         /\ \A x \in Elements \union GoalIds :
                /\ p = "campaign" /\ x \in new => credited'[x] = credited[x] + 1
                /\ p # "campaign" \/ x \notin new => credited'[x] = credited[x]
                /\ credited[x] \in Nat
<1>1. /\ credited \in [Elements \union GoalIds -> Nat]
      /\ seen \in [Threads -> SUBSET (Elements \union GoalIds)]
  BY DEF TypeOK
<1>2. \A q \in Threads : seen'[q] = IF q = p THEN seen[q] \union xs ELSE seen[q]
  BY <1>1 DEF Score
<1>3. CASE p = "campaign"
  BY <1>1, <1>2, <1>3 DEF Score
<1>4. CASE p # "campaign"
  BY <1>1, <1>2, <1>4 DEF Score
<1> QED
  BY <1>3, <1>4

\* Something is scored: it was reached before, or it is now.
LEMMA CreditScored ==
  ASSUME TypeOK, NEW p \in Threads, NEW new, NEW xs, Score(p, new, xs),
         NEW x \in Elements \union GoalIds, x \in xs,
         \/ x \in new /\ CreditOf(FALSE, x)
         \/ x \notin new /\ CreditOf(TRUE, x)
  PROVE  /\ credited'[x] = 1 \/ (credited'[x] = 0 /\ x \in seen'["evaluation"])
<1>1. /\ \A q \in Threads : seen'[q] = IF q = p THEN seen[q] \union xs ELSE seen[q]
      /\ p = "campaign" /\ x \in new => credited'[x] = credited[x] + 1
      /\ p # "campaign" \/ x \notin new => credited'[x] = credited[x]
  BY Scored
<1>2. CASE p = "campaign"
  BY <1>1, <1>2 DEF CreditOf, Threads
<1>3. CASE p = "evaluation"
  BY <1>1, <1>3 DEF CreditOf, Threads
<1> QED
  BY <1>2, <1>3 DEF Threads

\* A function is no pair and no goal.
LEMMA KindsApart ==
  /\ \A f, g \in Functions : <<f>> = <<g>> => f = g
  /\ \A f \in Functions : <<f>> \in Elements /\ <<f>> \notin Pairs /\ <<f>> \notin GoalIds
  /\ \A x \in Pairs : x \in Elements /\ x \notin GoalIds
<1>1. GoalIds \intersect Elements = {}
  BY KnowledgeAssumption DEF GoalIds
<1>2. \A f \in Functions : <<f>> \in Elements /\ Len(<<f>>) = 1
  BY DEF Elements
<1>3. \A f \in Functions : <<f>> \notin Pairs
  <2> TAKE f \in Functions
  <2>1. <<f>> \in Pairs => Len(<<f>>) = 2
    BY <1>2, ElementKinds
  <2> QED
    BY <1>2, <2>1
<1>4. \A f, g \in Functions : <<f>> = <<g>> => f = g
  OBVIOUS
<1> QED
  BY <1>1, <1>2, <1>3, <1>4 DEF Elements

\* Functions and goals are credited when they are reached first, or an evaluation has.
LEMMA CreditsStep ==
  ASSUME Shape, Credits, NEW p \in Threads, StepOf(p)
  PROVE  Credits'
<1>0. TypeOK
  BY DEF Shape
<1>b. blind' = blind
  BY StepAlone DEF given_vars
<1>1. CASE UNCHANGED score_vars
  BY <1>1, <1>b DEF Credits, GoalCredit, CreditOf, score_vars
<1>2. CASE ReachFunction(p)
  <2>1. PICK f : /\ f = Element(p)[1]
                 /\ reached_functions' = reached_functions \union {f}
                 /\ Score(p, {<<f>>} \ {<<g>> : g \in reached_functions}, {<<f>>})
    BY <1>2 DEF ReachFunction
  <2>2. /\ covered_goals' = covered_goals /\ reached_functions \subseteq Functions
    BY <1>2 DEF ReachFunction, Shape, TypeOK
  <2>3. f \in Functions
    <3>1. Element(p) \in Elements /\ Len(Element(p)) = 1
      BY <1>2 DEF ReachFunction, Element, Shape, TypeOK
    <3>2. \E g \in Functions : Element(p) = <<g>>
      BY <3>1, ElementKinds
    <3> QED
      BY <2>1, <3>2
  <2> DEFINE new == {<<f>>} \ {<<g>> : g \in reached_functions}
  <2>4. /\ <<f>> \in new <=> f \notin reached_functions
        /\ \A g \in Functions : g # f => <<g>> \notin new /\ <<g>> \notin {<<f>>}
        /\ \A g \in GoalIds : g \notin new /\ g \notin {<<f>>}
    BY <2>2, <2>3, KindsApart
  <2>5. Score(p, new, {<<f>>})
    BY <2>1
  <2> HIDE DEF new
  <2>6. \A g \in Functions : CreditOf(g \in reached_functions, <<g>>)'
    <3> TAKE g \in Functions
    <3>0. <<g>> \in Elements \union GoalIds /\ CreditOf(g \in reached_functions, <<g>>)
      BY KindsApart DEF Credits
    <3>1. CASE g = f
      <4>1. \/ credited'[<<f>>] = 1
            \/ credited'[<<f>>] = 0 /\ <<f>> \in seen'["evaluation"]
        <5>1. \/ <<f>> \in new /\ CreditOf(FALSE, <<f>>)
              \/ <<f>> \notin new /\ CreditOf(TRUE, <<f>>)
          BY <2>4, <3>0, <3>1 DEF CreditOf
        <5> QED
          BY <1>0, <2>5, <3>0, <3>1, <5>1, CreditScored
      <4>2. g \in reached_functions'
        BY <2>1, <3>1
      <4> QED
        BY <3>1, <4>1, <4>2 DEF CreditOf
    <3>2. CASE g # f
      <4>1. <<g>> \notin new /\ <<g>> \notin {<<f>>}
        BY <2>4, <3>2
      <4>2. g \in reached_functions' <=> g \in reached_functions
        BY <2>1, <3>2
      <4> QED
        BY <1>0, <2>5, <3>0, <4>1, <4>2, Scored DEF CreditOf, Threads
    <3> QED
      BY <3>1, <3>2
  <2>7. \A g \in GoalIds : GoalCredit(g)'
    <3> TAKE g \in GoalIds
    <3>1. GoalCredit(g)
      BY DEF Credits
    <3> QED
      BY <1>0, <1>b, <2>2, <2>4, <2>5, <3>1, Scored DEF GoalCredit, CreditOf, Threads
  <2> QED
    BY <2>6, <2>7 DEF Credits
<1>3. CASE LookupGoals(p)
  <2> DEFINE gs == GoalsOf(Element(p)[2])
             ns == NewGoals(Element(p)[2])
  <2>1. /\ covered_goals' = covered_goals \union gs
        /\ Score(p, ns, gs)
        /\ reached_functions' = reached_functions
    BY <1>3 DEF LookupGoals
  <2>2. gs \subseteq GoalIds /\ ns \subseteq GoalIds
    <3>1. Element(p) \in Pairs /\ mocked_scores \in MockedScores
      BY <1>3 DEF LookupGoals, Shape, InPlace, TypeOK
    <3>2. Element(p)[2] \in Blocks
      BY <3>1 DEF Pairs
    <3> QED
      BY <3>1, <3>2, GoalsTyped
  <2>0. ~blind => ns = gs \ covered_goals
    BY DEF GoalsOf, NewGoals
  <2> HIDE DEF gs, ns
  <2>3. \A f \in Functions : CreditOf(f \in reached_functions, <<f>>)'
    <3> TAKE f \in Functions
    <3>1. CreditOf(f \in reached_functions, <<f>>) /\ <<f>> \in Elements
          /\ <<f>> \notin gs /\ <<f>> \notin ns
      BY <2>2, KindsApart DEF Credits
    <3> QED
      BY <1>0, <2>1, <3>1, Scored DEF CreditOf, Threads
  <2>4. \A g \in GoalIds : GoalCredit(g)'
    <3> TAKE g \in GoalIds
    <3>0. GoalCredit(g)
      BY DEF Credits
    <3>b. CASE blind
      <4>1. g \notin gs
        BY <3>b DEF gs, GoalsOf
      <4> QED
        BY <1>0, <1>b, <2>1, <3>0, <3>b, <4>1, Scored DEF GoalCredit, Threads
    <3>1. CASE ~blind /\ g \in gs
      <4>0. ns = gs \ covered_goals /\ CreditOf(g \in covered_goals, g)
        BY <2>0, <3>0, <3>1 DEF GoalCredit
      <4>2. \/ credited'[g] = 1
            \/ credited'[g] = 0 /\ g \in seen'["evaluation"]
        <5>1. \/ g \in ns /\ CreditOf(FALSE, g)
              \/ g \notin ns /\ CreditOf(TRUE, g)
          BY <3>1, <4>0 DEF CreditOf
        <5> QED
          BY <1>0, <2>1, <3>1, <5>1, CreditScored
      <4>3. g \in covered_goals'
        BY <2>1, <3>1
      <4> QED
        BY <1>b, <3>1, <4>2, <4>3 DEF GoalCredit, CreditOf
    <3>2. CASE ~blind /\ g \notin gs
      <4>0. g \notin ns /\ CreditOf(g \in covered_goals, g)
        BY <2>0, <3>0, <3>2 DEF GoalCredit
      <4>1. g \in covered_goals' <=> g \in covered_goals
        BY <2>1, <3>2
      <4> QED
        BY <1>0, <1>b, <2>1, <3>2, <4>0, <4>1, Scored DEF GoalCredit, CreditOf, Threads
    <3> QED
      BY <3>b, <3>1, <3>2
  <2> QED
    BY <2>3, <2>4 DEF Credits
<1>4. CASE AddEdge(p)
  <2>1. PICK new : Score(p, new, {Element(p)}) /\ new \subseteq {Element(p)}
    BY <1>4 DEF AddEdge
  <2>2. UNCHANGED <<reached_functions, covered_goals>>
    BY <1>4 DEF AddEdge
  <2>3. Element(p) \in Pairs
    <3>1. ends[p] # <<>>
      BY <1>4 DEF AddEdge
    <3> QED
      BY <3>1 DEF Shape, InPlace
  <2>4. \A f \in Functions : CreditOf(f \in reached_functions, <<f>>)'
    <3> TAKE f \in Functions
    <3>1. CreditOf(f \in reached_functions, <<f>>) /\ <<f>> \in Elements
          /\ <<f>> # Element(p)
      BY <2>3, KindsApart DEF Credits
    <3> QED
      BY <1>0, <2>1, <2>2, <3>1, Scored DEF CreditOf, Threads
  <2>5. \A g \in GoalIds : GoalCredit(g)'
    <3> TAKE g \in GoalIds
    <3>1. GoalCredit(g) /\ g # Element(p)
      BY <2>3, KindsApart DEF Credits
    <3> QED
      BY <1>0, <1>b, <2>1, <2>2, <3>1, Scored DEF GoalCredit, CreditOf, Threads
  <2> QED
    BY <2>4, <2>5 DEF Credits
<1>5. UNCHANGED score_vars \/ ReachFunction(p) \/ LookupGoals(p) \/ AddEdge(p)
  BY DEF StepOf, MakesNoVertex, AddTrace, StartEvaluation, EvaluateTrace, TraceDone,
    CacheHit, CacheMiss, CopyGet, CopyGetThrows, FindVertex, AddVertex, NameVertex
<1> QED
  BY <1>1, <1>2, <1>3, <1>4, <1>5

\* Edges. What is no pair does not count for them.
LEMMA EdgesFinite ==
  ASSUME Shape, NEW x
  PROVE  IsFiniteSet(EdgesOf(x)) /\ EdgesOf(x) \subseteq edges
<1>1. IsFiniteSet(Vertices)
  BY CopiesCounted
<1>2. IsFiniteSet(Vertices \X Vertices)
  BY <1>1, FS_Product
<1>3. EdgesOf(x) \subseteq edges /\ EdgesOf(x) \subseteq Vertices \X Vertices
  BY DEF EdgesOf, Shape, TypeOK
<1> QED
  BY <1>2, <1>3, FS_Subset

\* The ends of an edge keep their content.
LEMMA EndsKept ==
  ASSUME Shape, OneUnnamed, RightVertices, NEW p \in Threads, StepOf(p), ~collided'
  PROVE  \A e \in edges : vertices'[e[1]] = vertices[e[1]] /\ vertices'[e[2]] = vertices[e[2]]
<1>1. Kept /\ Unnamed \notin Blocks /\ edges \subseteq Vertices \X Vertices
  BY ContentsKept, KnowledgeAssumption DEF Shape, TypeOK
<1> TAKE e \in edges
<1>2. /\ e[1] \in Vertices /\ vertices[e[1]] \in Blocks
      /\ e[2] \in Vertices /\ vertices[e[2]] \in Blocks
  BY <1>1 DEF RightVertices
<1> QED
  BY <1>1, <1>2 DEF Kept

\* A pair is credited with each of its edges, when that is added.
LEMMA EdgeCreditsStep ==
  ASSUME Shape, Graph, EdgeCredits, NEW p \in Threads, StepOf(p), ~collided'
  PROVE  EdgeCredits'
<1> SUFFICES ASSUME NEW x \in Pairs
             PROVE  /\ credited'[x] = Cardinality(EdgesOf(x)')
                    /\ x \in seen'["campaign"] <=> EdgesOf(x)' # {}
  BY DEF EdgeCredits
<1>0. /\ OneUnnamed /\ RightVertices /\ Kept /\ TypeOK /\ Unnamed \notin Blocks
      /\ edges \subseteq Vertices \X Vertices
  BY StillNotCollided, ContentsKept, KnowledgeAssumption DEF Graph, Shape, TypeOK
<1>1. /\ credited[x] = Cardinality(EdgesOf(x))
      /\ x \in seen["campaign"] <=> EdgesOf(x) # {}
      /\ x \in Elements /\ x \notin GoalIds
  BY KindsApart DEF EdgeCredits
<1>2. \A e \in edges : vertices'[e[1]] = vertices[e[1]] /\ vertices'[e[2]] = vertices[e[2]]
  BY <1>0, EndsKept
<1>3. edges' = edges => EdgesOf(x)' = EdgesOf(x)
  BY <1>2 DEF EdgesOf
<1>4. ASSUME edges' = edges, NEW new, NEW xs, Score(p, new, xs), x \notin new, x \notin xs
      PROVE  /\ credited'[x] = Cardinality(EdgesOf(x)')
             /\ x \in seen'["campaign"] <=> EdgesOf(x)' # {}
  <2>1. credited'[x] = credited[x] /\ (x \in seen'["campaign"] <=> x \in seen["campaign"])
    BY <1>0, <1>1, <1>4, Scored DEF Threads
  <2> QED
    BY <1>1, <1>3, <1>4, <2>1
<1>5. CASE UNCHANGED score_vars /\ edges' = edges
  BY <1>1, <1>3, <1>5 DEF score_vars
<1>6. CASE ReachFunction(p)
  <2>1. PICK f : /\ f = Element(p)[1]
                 /\ Score(p, {<<f>>} \ {<<g>> : g \in reached_functions}, {<<f>>})
    BY <1>6 DEF ReachFunction
  <2>2. Element(p) \in Elements /\ Len(Element(p)) = 1
    BY <1>6 DEF ReachFunction, Element, Shape, TypeOK
  <2>3. f \in Functions
    <3>1. \E g \in Functions : Element(p) = <<g>>
      BY <2>2, ElementKinds
    <3> QED
      BY <2>1, <3>1
  <2>4. edges' = edges
    BY <1>6 DEF ReachFunction, graph_vars
  <2>5. x # <<f>>
    BY <2>3, KindsApart
  <2> QED
    BY <1>4, <2>1, <2>4, <2>5
<1>7. CASE LookupGoals(p)
  <2>1. /\ Score(p, NewGoals(Element(p)[2]), GoalsOf(Element(p)[2]))
        /\ edges' = edges
    BY <1>7 DEF LookupGoals, graph_vars
  <2>2. GoalsOf(Element(p)[2]) \subseteq GoalIds /\ NewGoals(Element(p)[2]) \subseteq GoalIds
    <3>1. Element(p) \in Pairs /\ mocked_scores \in MockedScores
      BY <1>0, <1>7 DEF LookupGoals, Shape, InPlace, TypeOK
    <3>2. Element(p)[2] \in Blocks
      BY <3>1 DEF Pairs
    <3> QED
      BY <3>1, <3>2, GoalsTyped
  <2> QED
    BY <1>1, <1>4, <2>1, <2>2
<1>8. CASE AddEdge(p)
  <2> DEFINE edge == <<ends[p][1], ends[p][2]>>
             new == IF edge \in edges THEN {} ELSE {Element(p)}
  <2>1. /\ Score(p, new, {Element(p)}) /\ vertices' = vertices
        /\ edges' = IF p = "campaign" THEN edges \union {edge} ELSE edges
    BY <1>8 DEF AddEdge, AddsEdge
  <2>2. /\ Element(p) \in Pairs
        /\ vertices[ends[p][1]] = Element(p)[1] /\ vertices[ends[p][2]] = Element(p)[2]
    BY <1>0, <1>8, NewEdge
  <2>3. /\ edge[1] = ends[p][1] /\ edge[2] = ends[p][2]
    OBVIOUS
  <2>s. /\ \A q \in Threads : seen'[q] = IF q = p THEN seen[q] \union {Element(p)} ELSE seen[q]
        /\ p = "campaign" /\ x \in new => credited'[x] = credited[x] + 1
        /\ p # "campaign" \/ x \notin new => credited'[x] = credited[x]
    <3>1. TypeOK /\ x \in Elements \union GoalIds /\ Score(p, new, {Element(p)})
      BY <1>0, <1>1, <2>1
    <3> HIDE DEF new
    <3> QED
      BY <3>1, Scored
  <2>4. CASE p # "campaign"
    <3>1. edges' = edges /\ credited'[x] = credited[x] /\ seen'["campaign"] = seen["campaign"]
      BY <2>1, <2>4, <2>s DEF Threads
    <3> QED
      BY <1>1, <1>3, <3>1
  <2>5. CASE p = "campaign" /\ x # Element(p)
    <3>1. credited'[x] = credited[x] /\ (x \in seen'["campaign"] <=> x \in seen["campaign"])
      BY <2>5, <2>s
    <3>2. ~(vertices[edge[1]] = x[1] /\ vertices[edge[2]] = x[2])
      <4>1. x = <<x[1], x[2]>> /\ Element(p) = <<Element(p)[1], Element(p)[2]>>
        BY <2>2 DEF Pairs
      <4> QED
        BY <2>2, <2>3, <2>5, <4>1
    <3> HIDE DEF edge
    <3>3. EdgesOf(x)' = EdgesOf(x)
      BY <2>1, <2>5, <3>2 DEF EdgesOf
    <3> QED
      BY <1>1, <3>1, <3>3
  <2>6. CASE p = "campaign" /\ x = Element(p)
    <3>1. vertices[edge[1]] = x[1] /\ vertices[edge[2]] = x[2]
      BY <2>2, <2>3, <2>6
    <3>2. x \in seen'["campaign"]
      BY <2>6, <2>s
    <3>3. x \in new <=> edge \notin edges
      BY <2>6
    <3> HIDE DEF edge, new
    <3>4. EdgesOf(x)' = EdgesOf(x) \union {edge}
      BY <2>1, <2>6, <3>1 DEF EdgesOf
    <3>5. edge \in EdgesOf(x) <=> edge \in edges
      BY <3>1 DEF EdgesOf
    <3>6. Cardinality(EdgesOf(x)') = IF edge \in edges THEN Cardinality(EdgesOf(x))
                                     ELSE Cardinality(EdgesOf(x)) + 1
      BY <3>4, <3>5, EdgesFinite, FS_AddElement
    <3>7. credited'[x] = Cardinality(EdgesOf(x)')
      BY <1>1, <2>6, <2>s, <3>3, <3>6
    <3> QED
      BY <3>2, <3>4, <3>7
  <2> QED
    BY <2>4, <2>5, <2>6
<1>9. \/ UNCHANGED score_vars /\ edges' = edges
      \/ ReachFunction(p) \/ LookupGoals(p) \/ AddEdge(p)
  BY DEF StepOf, MakesNoVertex, AddTrace, StartEvaluation, EvaluateTrace, TraceDone,
    CacheHit, CacheMiss, CopyGet, CopyGetThrows, FindVertex, AddVertex, NameVertex, graph_vars
<1> QED
  BY <1>5, <1>6, <1>7, <1>8, <1>9

-----------------------------------------------------------------------------
\* The inductive invariant, and what it says of the properties.
LEMMA InvInit == Init => IndInv
<1> SUFFICES ASSUME Init
             PROVE  IndInv
  OBVIOUS
<1>1. Shape /\ Graph
  BY ShapeInit, GraphInit
<1>2. GetsCached /\ FailsOnlyIfEvicted
  BY DEF Init, GetsCached, FailsOnlyIfEvicted
<1>3. Credits
  BY KindsApart DEF Init, Credits, GoalCredit, CreditOf, Threads
<1>4. EdgeCredits
  <2>1. \A x \in Pairs : EdgesOf(x) = {} /\ credited[x] = 0 /\ x \notin seen["campaign"]
    BY KindsApart DEF Init, EdgesOf, Threads
  <2> QED
    BY <2>1, FS_EmptySet DEF EdgeCredits
<1> QED
  BY <1>1, <1>2, <1>3, <1>4 DEF IndInv

\* Every step preserves the invariant.
LEMMA InvStep == IndInv /\ [Next]_vars => IndInv'
<1> SUFFICES ASSUME IndInv, [Next]_vars
             PROVE  IndInv'
  OBVIOUS
<1>0. Shape /\ Graph /\ GetsCached /\ FailsOnlyIfEvicted /\ Credits
      /\ (~collided => EdgeCredits) /\ Shape'
  BY ShapeStep DEF IndInv
<1>1. CASE Next
  <2>1. PICK p \in Threads : StepOf(p)
    BY <1>1, SomeThread
  <2>2. Graph'
    BY <1>0, <2>1, GraphStep
  <2>3. GetsCached'
    BY <1>0, <2>1, GetsStep
  <2>4. FailsOnlyIfEvicted'
    BY <1>0, <2>1, FailsStep
  <2>5. Credits'
    BY <1>0, <2>1, CreditsStep
  <2>6. ~collided' => EdgeCredits'
    BY <1>0, <2>1, StillNotCollided, EdgeCreditsStep
  <2> QED
    BY <1>0, <2>2, <2>3, <2>4, <2>5, <2>6 DEF IndInv
<1>2. CASE UNCHANGED vars
  <2>1. UNCHANGED <<at, todo, ends, vertices, edges, vertex_cache, collided, reached_functions,
                    covered_goals, credited, seen, added, failed, given_vars>>
    BY <1>2 DEF vars, graph_vars, score_vars, trace_vars, given_vars
  <2>2. Graph'
    BY <1>0, <2>1 DEF Graph, OneUnnamed, RightVertices, CopiesAndAdding, Copies, Adding, Most,
      Disturbed, Vertices, Element, Wanted, given_vars
  <2>3. GetsCached' /\ FailsOnlyIfEvicted'
    BY <1>0, <2>1 DEF GetsCached, FailsOnlyIfEvicted, Evicted, Known, Disturbed, Vertices,
      Element, Wanted, Cached, given_vars
  <2>4. Credits' /\ (~collided' => EdgeCredits')
    BY <1>0, <2>1 DEF Credits, GoalCredit, CreditOf, EdgeCredits, EdgesOf, given_vars
  <2> QED
    BY <1>0, <2>2, <2>3, <2>4 DEF IndInv
<1> QED
  BY <1>1, <1>2

\* FewCopies follows,
LEMMA CopiesFew ==
  ASSUME IndInv
  PROVE  FewCopies
<1> SUFFICES ASSUME ~collided
             PROVE  /\ \A e \in Blocks : Copies(e) <= (IF Disturbed THEN 2 ELSE 1)
                    /\ \A i \in DOMAIN vertex_cache :
                           vertices[vertex_cache[i][2]] = vertex_cache[i][1]
  BY DEF FewCopies
<1>1. Shape /\ RightVertices /\ CopiesAndAdding
  BY DEF IndInv, Graph
<1>2. ASSUME NEW e \in Blocks
      PROVE  Copies(e) <= Most
  <2>1. Copies(e) \in Nat /\ Cardinality(Adding(e)) \in Nat /\ Most \in {1, 2}
    BY <1>1, CopiesCounted, AddingCounted DEF Most
  <2>2. Copies(e) + Cardinality(Adding(e)) <= Most
    BY <1>1 DEF CopiesAndAdding
  <2>3. \A k, l, m \in Nat : k + l <= m => k <= m
    OBVIOUS
  <2> QED
    BY <2>1, <2>2, <2>3
<1> QED
  BY <1>1, <1>2 DEF RightVertices, Most

\* A pair has no more edges than its blocks have vertices.
LEMMA EdgesBounded ==
  ASSUME Shape, NEW x \in Pairs
  PROVE  /\ Cardinality(EdgesOf(x)) \in Nat
         /\ Cardinality(EdgesOf(x)) <= Copies(x[1]) * Copies(x[2])
         /\ EdgesOf(x) # {} => Cardinality(EdgesOf(x)) # 0
         /\ Copies(x[1]) * Copies(x[2]) \in Nat
<1>1. /\ IsFiniteSet(VerticesOf(x[1])) /\ Copies(x[1]) = Cardinality(VerticesOf(x[1]))
      /\ IsFiniteSet(VerticesOf(x[2])) /\ Copies(x[2]) = Cardinality(VerticesOf(x[2]))
      /\ Copies(x[1]) \in Nat /\ Copies(x[2]) \in Nat
  BY CopiesCounted
<1>2. EdgesOf(x) \subseteq VerticesOf(x[1]) \X VerticesOf(x[2])
  <2>1. edges \subseteq Vertices \X Vertices
    BY DEF Shape, TypeOK
  <2> QED
    BY <2>1 DEF EdgesOf, VerticesOf
<1>3. /\ IsFiniteSet(VerticesOf(x[1]) \X VerticesOf(x[2]))
      /\ Cardinality(VerticesOf(x[1]) \X VerticesOf(x[2])) = Copies(x[1]) * Copies(x[2])
  BY <1>1, FS_Product
<1>4. Cardinality(EdgesOf(x)) <= Cardinality(VerticesOf(x[1]) \X VerticesOf(x[2]))
  BY <1>2, <1>3, FS_Subset
<1>5. IsFiniteSet(EdgesOf(x))
  BY EdgesFinite
<1> QED
  BY <1>1, <1>3, <1>4, <1>5, FS_CardinalityType, FS_EmptySet

\* and NoveltyOnce.
LEMMA OnceNew ==
  ASSUME IndInv
  PROVE  NoveltyOnce
<1> SUFFICES ASSUME ~collided
             PROVE  /\ \A x \in seen["campaign"] \ Pairs :
                           credited[x] = 1 \/ x \in seen["evaluation"]
                    /\ \A x \in seen["campaign"] \intersect Pairs :
                           credited[x] \in 1..(Copies(x[1]) * Copies(x[2]))
                    /\ \A x \in DOMAIN credited \ Pairs :
                           credited[x] <= 1 \/ (blind /\ x \in GoalIds)
                    /\ {<<vertices[e[1]], vertices[e[2]]>> : e \in edges}
                           = seen["campaign"] \intersect Pairs
  BY DEF NoveltyOnce
<1>1. Shape /\ RightVertices /\ Credits /\ EdgeCredits
  BY DEF IndInv, Graph
<1>2. /\ credited \in [Elements \union GoalIds -> Nat]
      /\ seen \in [Threads -> SUBSET (Elements \union GoalIds)]
  BY <1>1 DEF Shape, TypeOK
<1>3. ASSUME NEW x \in (Elements \union GoalIds) \ Pairs
      PROVE  \/ CreditOf(TRUE, x) \/ CreditOf(FALSE, x)
             \/ blind /\ x \in GoalIds /\ x \notin seen["campaign"]
  <2>1. CASE x \in GoalIds
    BY <1>1, <2>1 DEF Credits, GoalCredit, CreditOf
  <2>2. CASE x \notin GoalIds
    <3>1. PICK f \in Functions : x = <<f>>
      BY <1>3, <2>2 DEF Elements
    <3> QED
      BY <1>1, <3>1 DEF Credits, CreditOf
  <2> QED
    BY <2>1, <2>2
<1>4. \A x \in seen["campaign"] \ Pairs : credited[x] = 1 \/ x \in seen["evaluation"]
  BY <1>2, <1>3 DEF CreditOf, Threads
<1>5. \A x \in DOMAIN credited \ Pairs : credited[x] <= 1 \/ (blind /\ x \in GoalIds)
  BY <1>2, <1>3 DEF CreditOf
<1>6. \A x \in seen["campaign"] \intersect Pairs :
          credited[x] \in 1..(Copies(x[1]) * Copies(x[2]))
  <2> TAKE x \in seen["campaign"] \intersect Pairs
  <2>1. credited[x] = Cardinality(EdgesOf(x)) /\ EdgesOf(x) # {}
    BY <1>1 DEF EdgeCredits
  <2>2. /\ Cardinality(EdgesOf(x)) \in Nat /\ Cardinality(EdgesOf(x)) # 0
        /\ Cardinality(EdgesOf(x)) <= Copies(x[1]) * Copies(x[2])
        /\ Copies(x[1]) * Copies(x[2]) \in Nat
    BY <1>1, <2>1, EdgesBounded
  <2>3. \A m, n \in Nat : m # 0 /\ m <= n => m \in 1..n
    OBVIOUS
  <2> QED
    BY <2>1, <2>2, <2>3
<1>7. {<<vertices[e[1]], vertices[e[2]]>> : e \in edges} = seen["campaign"] \intersect Pairs
  <2>1. ASSUME NEW e \in edges
        PROVE  <<vertices[e[1]], vertices[e[2]]>> \in seen["campaign"] \intersect Pairs
    <3>1. <<vertices[e[1]], vertices[e[2]]>> \in Pairs
      BY <1>1 DEF RightVertices, Pairs
    <3>2. e \in EdgesOf(<<vertices[e[1]], vertices[e[2]]>>)
      BY DEF EdgesOf
    <3> QED
      BY <1>1, <3>1, <3>2 DEF EdgeCredits
  <2>2. ASSUME NEW x \in seen["campaign"] \intersect Pairs
        PROVE  x \in {<<vertices[e[1]], vertices[e[2]]>> : e \in edges}
    <3>1. PICK e \in EdgesOf(x) : TRUE
      BY <1>1 DEF EdgeCredits
    <3>2. e \in edges /\ vertices[e[1]] = x[1] /\ vertices[e[2]] = x[2]
      BY DEF EdgesOf
    <3>3. x = <<x[1], x[2]>>
      BY DEF Pairs
    <3> QED
      BY <3>2, <3>3
  <2> QED
    BY <2>1, <2>2
<1> QED
  BY <1>4, <1>5, <1>6, <1>7

-----------------------------------------------------------------------------
\* The refinement of Novelty. Between traces the campaign has none in hand, and two
\* threads never meet in add_vertex() but where an evaluation shares the graph.
Calm ==
    /\ at["campaign"] = "idle" => todo["campaign"] = <<>>
    /\ collided => Disturbed

\* A trace is left at its end, and who meets another is not alone.
LEMMA CalmStep ==
  ASSUME Shape, Calm, NEW p \in Threads, StepOf(p)
  PROVE  Calm'
<1>0. /\ Alone(p) /\ at \in [Threads -> Places] /\ at' \in [Threads -> Places]
      /\ todo \in [Threads -> Seq(Elements)]
      /\ "campaign" \in Threads /\ "evaluation" \in Threads
  BY StepAlone DEF Shape, TypeOK, Places, Threads
<1>1. ASSUME at'["campaign"] = "idle"
      PROVE  todo'["campaign"] = <<>>
  <2>1. CASE p = "evaluation"
    BY <1>0, <1>1, <2>1 DEF Alone, Calm
  <2>2. CASE p = "campaign"
    <3>1. CASE TraceDone(p)
      BY <3>1, <2>2 DEF TraceDone
    <3>2. CASE CopyGetThrows(p)
      BY <1>0, <3>2, <2>2 DEF CopyGetThrows
    <3>3. CASE AddVertex(p) \/ NameVertex(p)
      BY <1>0, <1>1, <2>2, <3>3 DEF AddVertex, NameVertex, Found, Go
    <3>4. CASE ReachFunction(p)
      BY <1>1, <2>2, <3>4 DEF ReachFunction
    <3>5. CASE CopyGet(p) \/ FindVertex(p)
      BY <1>0, <1>1, <2>2, <3>5 DEF CopyGet, FindVertex, Found, Go
    <3>6. CASE \/ \E trace \in Traces : AddTrace(trace)
               \/ CacheHit(p) \/ CacheMiss(p) \/ AddEdge(p) \/ LookupGoals(p)
      BY <1>0, <1>1, <2>2, <3>6 DEF AddTrace, CacheHit, CacheMiss, AddEdge, LookupGoals, Go
    <3> QED
      BY <2>2, <3>1, <3>2, <3>3, <3>4, <3>5, <3>6 DEF StepOf, MakesNoVertex
  <2> QED
    BY <2>1, <2>2 DEF Threads
<1>2. ASSUME collided'
      PROVE  Disturbed'
  <2>1. CASE collided
    BY <2>1, DisturbedStays DEF Calm
  <2>2. CASE ~collided
    <3>1. AddVertex(p)
      BY <1>2, <2>2, NotNaming, NameKeeps DEF StepOf
    <3>2. PICK q \in Threads : at[p] = "add" /\ at[q] = "name"
      BY <1>2, <2>2, <3>1 DEF AddVertex
    <3>3. at["evaluation"] \in {"add", "name"}
      BY <3>2 DEF Threads
    <3>4. Disturbed
      BY <3>3 DEF Shape, EvaluatesShared, Looking, Disturbed
    <3> QED
      BY <3>4, DisturbedStays
  <2> QED
    BY <2>1, <2>2
<1> QED
  BY <1>1, <1>2 DEF Calm

\* Undisturbed, a block has one vertex.
LEMMA OneVertex ==
  ASSUME IndInv, ~collided, ~Disturbed, NEW u \in Vertices, NEW v \in Vertices,
         vertices[u] = vertices[v], vertices[v] \in Blocks
  PROVE  u = v
<1> DEFINE S == VerticesOf(vertices[v])
<1>1. IsFiniteSet(S) /\ Cardinality(S) \in Nat /\ Cardinality(S) <= 1
  BY CopiesFew, CopiesCounted DEF FewCopies, IndInv
<1>2. u \in S /\ v \in S
  BY DEF VerticesOf
<1> HIDE DEF S
<1>3. IsFiniteSet(S \ {u}) /\ Cardinality(S \ {u}) = Cardinality(S) - 1
  BY <1>1, <1>2, FS_RemoveElement
<1>4. Cardinality(S \ {u}) \in Nat
  BY <1>3, FS_CardinalityType
<1>5. Cardinality(S \ {u}) = 0
  BY <1>1, <1>3, <1>4
<1>6. S \ {u} = {}
  BY <1>3, <1>5, FS_EmptySet
<1> QED
  BY <1>2, <1>6

\* So whether there is an edge between two vertices says whether the step was taken.
LEMMA EdgeIsStep ==
  ASSUME IndInv, ~collided, ~Disturbed, NEW p \in Threads, AddEdge(p)
  PROVE  Element(p) \in Joined <=> <<ends[p][1], ends[p][2]>> \in edges
<1>0. Shape /\ RightVertices /\ edges \subseteq Vertices \X Vertices
  BY DEF IndInv, Graph, Shape, TypeOK
<1>1. /\ Element(p) \in Pairs
      /\ ends[p][1] \in Vertices /\ vertices[ends[p][1]] = Element(p)[1]
      /\ ends[p][2] \in Vertices /\ vertices[ends[p][2]] = Element(p)[2]
      /\ Element(p)[1] \in Blocks /\ Element(p)[2] \in Blocks
  BY <1>0, NewEdge
<1>2. Element(p) = <<Element(p)[1], Element(p)[2]>>
  BY <1>1 DEF Pairs
<1>3. ASSUME <<ends[p][1], ends[p][2]>> \in edges
      PROVE  Element(p) \in Joined
  BY <1>1, <1>2, <1>3 DEF Joined
<1>4. ASSUME Element(p) \in Joined
      PROVE  <<ends[p][1], ends[p][2]>> \in edges
  <2>1. PICK e \in edges : Element(p) = <<vertices[e[1]], vertices[e[2]]>>
    BY <1>4 DEF Joined
  <2>2. e[1] \in Vertices /\ e[2] \in Vertices /\ e = <<e[1], e[2]>>
    BY <1>0
  <2>3. e[1] = ends[p][1] /\ e[2] = ends[p][2]
    BY <1>1, <2>1, <2>2, OneVertex
  <2> QED
    BY <2>2, <2>3
<1> QED
  BY <1>3, <1>4

\* What is reached, by kind.
LEMMA ReachedKinds ==
  ASSUME Shape, RightVertices, at["campaign"] # "goals"
  PROVE  /\ \A f \in Functions : <<f>> \in Reached <=> f \in reached_functions
         /\ \A x \in Pairs : x \in Reached <=> x \in Joined
         /\ \A g \in GoalIds : g \in Reached <=> g \in covered_goals
         /\ Coming = {} /\ Left = todo["campaign"]
<1>1. Joined \subseteq Pairs
  BY DEF Joined, Pairs, RightVertices
<1>2. reached_functions \subseteq Functions /\ covered_goals \subseteq GoalIds
  BY DEF Shape, TypeOK
<1>3. Coming = {} /\ Left = todo["campaign"]
  BY DEF Coming, Left
<1> QED
  BY <1>1, <1>2, <1>3, KindsApart DEF Reached

\* A step that scores nothing and leaves the trace is not seen.
LEMMA NotSeen ==
  ASSUME Shape, OneUnnamed, RightVertices, NEW p \in Threads, StepOf(p), ~collided',
         UNCHANGED score_vars, edges' = edges, todo'["campaign"] = todo["campaign"],
         at'["campaign"] = "goals" <=> at["campaign"] = "goals"
  PROVE  UNCHANGED <<WorthOf(blind), Left, Reached, Balance>>
<1>1. Joined' = Joined
  BY EndsKept DEF Joined
<1>b. UNCHANGED blind
  BY StepAlone DEF given_vars
<1>2. Coming' = Coming /\ Left' = Left /\ WorthOf(blind)' = WorthOf(blind)
  BY <1>b DEF Coming, Left, Element, GoalsOf, WorthOf
<1> QED
  BY <1>b, <1>1, <1>2 DEF Reached, Balance, score_vars

\* A function is credited if it was not reached.
LEMMA FunctionReached ==
  ASSUME Shape, OneUnnamed, RightVertices, StepOf("campaign"), ~collided',
         ReachFunction("campaign")
  PROVE  Oracle!Reach
<1> DEFINE p == "campaign"
<1>0. /\ p \in Threads /\ at[p] = "element" /\ at'[p] = "element" /\ edges' = edges
      /\ todo[p] # <<>> /\ Len(Element(p)) = 1
      /\ NextElement(p) /\ covered_goals' = covered_goals /\ TypeOK
      /\ todo \in [Threads -> Seq(Elements)] /\ UNCHANGED blind
  BY DEF ReachFunction, graph_vars, trace_vars, given_vars, Shape, TypeOK, Threads
<1>1. Element(p) \in Elements /\ Element(p) = Head(todo[p])
  BY <1>0 DEF Element
<1>2. PICK f \in Functions : Element(p) = <<f>>
  BY <1>0, <1>1, ElementKinds
<1>3. /\ reached_functions' = reached_functions \union {f}
      /\ Score(p, {<<f>>} \ {<<g>> : g \in reached_functions}, {<<f>>})
  <2>1. Element(p)[1] = f
    BY <1>2
  <2> QED
    BY <2>1 DEF ReachFunction
<1>4. WorthOf(blind)[Element(p)] = {<<f>>}
  BY <1>1, <1>2, KindsApart DEF WorthOf
<1>5. /\ <<f>> \in Reached <=> f \in reached_functions
      /\ Coming = {} /\ Left = todo[p]
  BY <1>0, ReachedKinds
<1>6. Coming' = {} /\ Left' = Tail(todo[p])
  BY <1>0 DEF Coming, Left, NextElement
<1>7. Reached' = Reached \union {<<f>>}
  <2>1. Joined' = Joined
    BY <1>0, EndsKept DEF Joined
  <2>2. {<<g>> : g \in reached_functions'} = {<<g>> : g \in reached_functions} \union {<<f>>}
    BY <1>3
  <2> QED
    BY <1>0, <1>5, <1>6, <2>1, <2>2 DEF Reached
<1>8. Balance' = [x \in Things |-> Balance[x] + (IF x \in {<<f>>} \ Reached THEN 1 ELSE 0)]
  <2>1. \A x \in Things : credited'[x] = credited[x] + (IF x \in {<<f>>} \ Reached THEN 1 ELSE 0)
                          /\ credited[x] \in Nat
    <3>1. \A x : x \in {<<f>>} \ {<<g>> : g \in reached_functions} <=> x \in {<<f>>} \ Reached
      BY <1>5
    <3>2. \A x \in Things :
            /\ x \in {<<f>>} \ {<<g>> : g \in reached_functions} => credited'[x] = credited[x] + 1
            /\ x \notin {<<f>>} \ {<<g>> : g \in reached_functions} => credited'[x] = credited[x]
            /\ credited[x] \in Nat
      BY <1>0, <1>3, Scored DEF Things
    <3> QED
      BY <3>1, <3>2
  <2>2. \A x \in Things :
            Balance[x] = IF blind /\ x \in GoalIds THEN 0 ELSE credited[x]
    BY <1>5, <2>1 DEF Balance
  <2>3. Balance' = [x \in Things |-> IF blind /\ x \in GoalIds THEN 0 ELSE credited'[x]]
    <3>1. Balance' = [x \in Things |-> IF blind /\ x \in GoalIds THEN 0 ELSE credited'[x] + 0]
      BY <1>0, <1>6 DEF Balance
    <3>2. \A x \in Things : credited'[x] + 0 = credited'[x]
      BY <2>1
    <3> QED
      BY <3>1, <3>2
  <2>4. <<f>> \notin GoalIds
    BY KindsApart
  <2> QED
    BY <2>1, <2>2, <2>3, <2>4
<1> QED
  BY <1>0, <1>1, <1>4, <1>5, <1>6, <1>7, <1>8 DEF Oracle!Reach, WorthOf

\* A step is credited if its edge was not there, together with its goals.
LEMMA StepReached ==
  ASSUME IndInv, ~collided, ~Disturbed, AddEdge("campaign")
  PROVE  Oracle!Reach
<1> DEFINE p == "campaign"
           edge == <<ends[p][1], ends[p][2]>>
           new == IF edge \in edges THEN {} ELSE {Element(p)}
           gs == GoalsOf(Element(p)[2])
<1>0. Shape /\ OneUnnamed /\ RightVertices /\ TypeOK /\ p \in Threads
  BY DEF IndInv, Graph, Shape, Threads
<1>1. /\ at[p] = "element" /\ at'[p] = "goals" /\ todo' = todo /\ todo[p] # <<>>
      /\ Score(p, new, {Element(p)}) /\ edges' = edges \union {edge}
      /\ vertices' = vertices
      /\ UNCHANGED <<reached_functions, covered_goals, blind>>
  BY <1>0 DEF AddEdge, AddsEdge, OnPair, Go, TypeOK, trace_vars, given_vars
<1>2. /\ Element(p) \in Pairs /\ Element(p) = <<Element(p)[1], Element(p)[2]>>
      /\ vertices[edge[1]] = Element(p)[1] /\ vertices[edge[2]] = Element(p)[2]
  <2>1. Element(p) \in Pairs /\ vertices[ends[p][1]] = Element(p)[1]
        /\ vertices[ends[p][2]] = Element(p)[2]
    BY <1>0, NewEdge
  <2> QED
    BY <2>1 DEF Pairs
<1>3. Element(p) \in Joined <=> edge \in edges
  BY <1>0, EdgeIsStep
<1>4. gs \subseteq GoalIds /\ Element(p) \in Elements /\ Element(p) = Head(todo[p])
      /\ (blind => gs = {})
  <2>1. Element(p)[2] \in Blocks
    BY <1>2 DEF Pairs
  <2> QED
    BY <1>2, <2>1 DEF GoalIds, GoalsOf, Elements, Element
<1>5. WorthOf(blind)[Element(p)] = {Element(p)} \union gs
  BY <1>2, <1>4 DEF WorthOf, GoalsOf
<1>6. /\ Element(p) \in Reached <=> Element(p) \in Joined
      /\ \A g \in GoalIds : g \in Reached <=> g \in covered_goals
      /\ Coming = {} /\ Left = todo[p]
  BY <1>0, <1>1, <1>2, ReachedKinds
<1>7. Coming' = gs /\ Left' = Tail(todo[p])
  BY <1>1 DEF Coming, Left, Element, GoalsOf
<1>8. Reached' = Reached \union ({Element(p)} \union gs)
  <2> HIDE DEF gs
  <2>1. Joined' = Joined \union {Element(p)}
    <3>1. Joined' = Joined \union {<<vertices[edge[1]], vertices[edge[2]]>>}
      <4> HIDE DEF edge
      <4> QED
        BY <1>1 DEF Joined
    <3> QED
      BY <1>2, <3>1
  <2> QED
    BY <1>1, <1>6, <1>7, <2>1 DEF Reached
<1>9. Element(p) \notin GoalIds /\ Element(p) \in Things
  BY <1>2, <1>4, KindsApart DEF Things
<1>10. Balance' = [x \in Things |->
          Balance[x] + (IF x \in ({Element(p)} \union gs) \ Reached THEN 1 ELSE 0)]
  <2>1. \A x \in Things :
           /\ x \in new => credited'[x] = credited[x] + 1
           /\ x \notin new => credited'[x] = credited[x]
           /\ credited[x] \in Nat
    <3>1. TypeOK /\ Score(p, new, {Element(p)})
      BY <1>0, <1>1
    <3> HIDE DEF new
    <3> QED
      BY <1>0, <3>1, Scored DEF Things
  <2>2. Balance = [x \in Things |-> IF blind /\ x \in GoalIds THEN 0 ELSE credited[x] + 0]
    BY <1>6 DEF Balance
  <2>3. Balance' = [x \in Things |-> IF blind /\ x \in GoalIds THEN 0
            ELSE credited'[x] + (IF x \in gs \ covered_goals THEN 1 ELSE 0)]
    <3> HIDE DEF gs
    <3> QED
      BY <1>1, <1>7 DEF Balance
  <2>4. /\ \A x : x \in new <=> x = Element(p) /\ Element(p) \notin Reached
        /\ \A x \in gs : x # Element(p) /\ (x \in Reached <=> x \in covered_goals)
    BY <1>3, <1>4, <1>6, <1>9
  <2>6. ASSUME NEW x \in Things, blind /\ x \in GoalIds
        PROVE  0 = 0 + (IF x \in ({Element(p)} \union gs) \ Reached THEN 1 ELSE 0)
    BY <1>4, <1>9, <2>6
  <2> HIDE DEF new, gs
  <2>5. ASSUME NEW x \in Things
        PROVE  credited'[x] + (IF x \in gs \ covered_goals THEN 1 ELSE 0)
               = (credited[x] + 0)
                    + (IF x \in ({Element(p)} \union gs) \ Reached THEN 1 ELSE 0)
    <3>1. CASE x \in new
      <4>1. x \notin gs /\ x \in ({Element(p)} \union gs) \ Reached
        BY <2>4, <3>1
      <4> QED
        BY <2>1, <3>1, <4>1
    <3>2. CASE x \notin new
      <4>1. x \in ({Element(p)} \union gs) \ Reached <=> x \in gs \ covered_goals
        BY <2>4, <3>2
      <4> QED
        BY <2>1, <3>2, <4>1
    <3> QED
      BY <3>1, <3>2
  <2> QED
    BY <2>2, <2>3, <2>5, <2>6
<1> QED
  BY <1>1, <1>4, <1>5, <1>6, <1>7, <1>8, <1>10 DEF Oracle!Reach, WorthOf

\* The goals of a step were reached with it.
LEMMA GoalsReached ==
  ASSUME Shape, OneUnnamed, RightVertices, StepOf("campaign"), ~collided',
         LookupGoals("campaign")
  PROVE  UNCHANGED <<WorthOf(blind), Left, Reached, Balance>>
<1> DEFINE p == "campaign"
           gs == GoalsOf(Element(p)[2])
           ns == NewGoals(Element(p)[2])
<1>1. /\ p \in Threads /\ at[p] = "goals" /\ at'[p] = "element" /\ edges' = edges
      /\ todo'[p] = Tail(todo[p]) /\ covered_goals' = covered_goals \union gs
      /\ Score(p, ns, gs) /\ reached_functions' = reached_functions
      /\ TypeOK /\ UNCHANGED blind
  BY DEF LookupGoals, NextElement, Go, graph_vars, trace_vars, given_vars, Shape, TypeOK, Threads
<1>2. Coming = gs /\ Coming' = {} /\ Left' = Left /\ WorthOf(blind)' = WorthOf(blind)
  BY <1>1 DEF Coming, Left, WorthOf
<1>n. /\ ~blind => ns = gs \ covered_goals
      /\ blind => gs = {}
      /\ ns \subseteq GoalIds
  <2>1. Element(p) \in Pairs /\ mocked_scores \in MockedScores
    BY <1>1 DEF Shape, InPlace, TypeOK
  <2>2. Element(p)[2] \in Blocks
    BY <2>1 DEF Pairs
  <2> QED
    BY <2>1, <2>2, GoalsTyped DEF GoalsOf, NewGoals
<1> HIDE DEF gs, ns
<1>3. Reached' = Reached
  <2>1. Joined' = Joined
    BY <1>1, EndsKept DEF Joined
  <2> QED
    BY <1>1, <1>2, <2>1 DEF Reached
<1>4. Balance' = Balance
  <2>1. \A x \in Things : /\ x \in ns => credited'[x] = credited[x] + 1
                          /\ x \notin ns => credited'[x] = credited[x]
                          /\ credited[x] \in Nat
    BY <1>1, Scored DEF Things
  <2>2. Balance = [x \in Things |-> IF blind /\ x \in GoalIds THEN 0
                     ELSE credited[x] + (IF x \in gs \ covered_goals THEN 1 ELSE 0)]
    BY <1>2 DEF Balance
  <2>3. Balance' = [x \in Things |-> IF blind /\ x \in GoalIds THEN 0 ELSE credited'[x] + 0]
    BY <1>1, <1>2 DEF Balance
  <2>4. ASSUME NEW x \in Things, ~(blind /\ x \in GoalIds)
        PROVE  credited[x] + (IF x \in gs \ covered_goals THEN 1 ELSE 0) = credited'[x] + 0
    <3>1. x \in ns <=> x \in gs \ covered_goals
      BY <1>n, <2>4
    <3> QED
      BY <2>1, <3>1
  <2> QED
    BY <2>2, <2>3, <2>4
<1> QED
  BY <1>2, <1>3, <1>4

\* Every step is one of Novelty, or not seen.
LEMMA OracleStep ==
  ASSUME IndInv, Calm, NEW p \in Threads, StepOf(p), ~Disturbed'
  PROVE  Oracle!Next \/ UNCHANGED <<WorthOf(blind), Left, Reached, Balance>>
<1>0. /\ Shape /\ ~Disturbed /\ ~collided /\ ~collided'
      /\ at \in [Threads -> Places] /\ todo \in [Threads -> Seq(Elements)]
  BY DisturbedStays, CalmStep DEF IndInv, Calm, Shape, TypeOK, Places
<1>1. OneUnnamed /\ RightVertices
  BY <1>0 DEF IndInv, Graph
<1>2. CASE p = "evaluation"
  <2>1. at[p] \notin Looking \union {"element", "goals"}
    BY <1>0, <1>2 DEF Shape, EvaluatesShared, Disturbed, Looking
  <2>2. ~EvaluateTrace(todo'[p]) /\ \A trace : ~EvaluateTrace(trace)
    BY <1>0, <1>2 DEF EvaluateTrace, StaleTraceFound, Disturbed
  <2>3. StartEvaluation
    BY <1>2, <2>1, <2>2 DEF StepOf, MakesNoVertex, TraceDone, CacheHit, CacheMiss,
      CopyGetThrows, ReachFunction, AddEdge, LookupGoals, CopyGet, FindVertex, AddVertex,
      NameVertex, WantsVertex, Looking
  <2>4. /\ UNCHANGED score_vars /\ edges' = edges /\ todo' = todo
        /\ at'["campaign"] = at["campaign"]
    <3>1. "evaluation" # "campaign" /\ "campaign" \in Threads
      BY DEF Threads
    <3>2. \E pl : at' = [at EXCEPT !["evaluation"] = pl]
      BY <2>3 DEF StartEvaluation, Go
    <3>3. at'["campaign"] = at["campaign"]
      BY <1>0, <3>1, <3>2
    <3> QED
      BY <2>3, <3>3 DEF StartEvaluation, graph_vars
  <2> QED
    BY <1>0, <1>1, <2>4, NotSeen
<1>3. CASE p = "campaign"
  <2>1. CASE \E trace \in Traces : AddTrace(trace)
    <3>1. PICK trace \in Traces : AddTrace(trace)
      BY <2>1
    <3>2. /\ at[p] = "idle" /\ at'[p] = "element" /\ todo[p] = <<>> /\ todo'[p] = trace
          /\ UNCHANGED score_vars /\ edges' = edges
      BY <1>0, <1>3, <3>1 DEF AddTrace, Go, graph_vars, Calm
    <3>3. Joined' = Joined
      BY <1>0, <1>1, <3>2, EndsKept DEF Joined
    <3>4. /\ Left = <<>> /\ Left' = trace /\ Coming = {} /\ Coming' = {}
      BY <1>3, <3>2 DEF Left, Coming
    <3>b. UNCHANGED blind
      BY <3>1 DEF AddTrace, given_vars
    <3>5. Oracle!Take
      BY <3>b, <3>2, <3>3, <3>4 DEF Oracle!Take, Reached, Balance, score_vars, WorthOf
    <3> QED
      BY <3>5 DEF Oracle!Next
  <2>2. CASE ReachFunction(p)
    BY <1>0, <1>1, <1>3, <2>2, FunctionReached DEF Oracle!Next
  <2>3. CASE AddEdge(p)
    BY <1>0, <1>3, <2>3, StepReached DEF Oracle!Next
  <2>4. CASE LookupGoals(p)
    BY <1>0, <1>1, <1>3, <2>4, GoalsReached
  <2>5. ~CopyGetThrows(p)
    BY <1>0 DEF IndInv, GetsCached, CopyGetThrows, Evicted
  <2>6. CASE \/ TraceDone(p) \/ CacheHit(p) \/ CacheMiss(p) \/ CopyGet(p) \/ FindVertex(p)
             \/ AddVertex(p) \/ NameVertex(p)
    <3>1. /\ UNCHANGED score_vars /\ edges' = edges /\ todo' = todo
      BY <2>6 DEF TraceDone, CacheHit, CacheMiss, CopyGet, FindVertex, AddVertex, NameVertex,
        graph_vars
    <3>2. at[p] # "goals" /\ at'[p] # "goals"
      BY <1>0, <1>3, <2>6 DEF TraceDone, CacheHit, CacheMiss, CopyGet, FindVertex, AddVertex,
        NameVertex, WantsVertex, Found, Go
    <3> QED
      BY <1>0, <1>1, <1>3, <3>1, <3>2, NotSeen
  <2> QED
    BY <1>3, <2>1, <2>2, <2>3, <2>4, <2>5, <2>6 DEF StepOf, MakesNoVertex
<1> QED
  BY <1>2, <1>3 DEF Threads

-----------------------------------------------------------------------------
\* The invariant holds in every state, however the two threads interleave
\* (knowledge.cpp:188-313, lrucache.h:29-75).
THEOREM KnowledgeInvariance == Spec => []IndInv
BY InvInit, InvStep, PTL DEF Spec

\* Every variable keeps its type, the cache has no two entries for a block and never
\* more of them than its size (lrucache.h:29-47).
THEOREM KnowledgeTypeCorrect == Spec => []TypeOK
<1>1. IndInv => TypeOK
  BY DEF IndInv, Shape
<1> QED
  BY <1>1, KnowledgeInvariance, PTL

\* Whatever was evicted, a block has one vertex, or two where an evaluation shares the
\* graph with a trace of an earlier session, and the cache leads to it
\* (knowledge.cpp:220-252).
THEOREM BlocksHaveFewVertices == Spec => []FewCopies
<1>1. IndInv => FewCopies
  BY CopiesFew
<1> QED
  BY <1>1, KnowledgeInvariance, PTL

\* What is new is credited to one testcase, once; an edge as often as its blocks were
\* given vertices (knowledge.cpp:188-205, 254-275, 290-329).
THEOREM NewIsCreditedOnce == Spec => []NoveltyOnce
<1>1. IndInv => NoveltyOnce
  BY OnceNew
<1> QED
  BY <1>1, KnowledgeInvariance, PTL

\* copy_get() throws only where an evaluation with a trace of an earlier session shares a
\* cache that is too small for the blocks of the target (lrucache.h:61-75).
THEOREM GetThrowsOnlyIfEvicted == Spec => []FailsOnlyIfEvicted
<1>1. IndInv => FailsOnlyIfEvicted
  BY DEF IndInv
<1> QED
  BY <1>1, KnowledgeInvariance, PTL

\* Until an evaluation shares the graph, which takes a trace that an earlier session
\* left, Coverage with its vertices and its cache implements a set of what was reached,
\* with models or without, for any blocks, traces and size of the cache
\* (knowledge.cpp:142-275, lrucache.h:29-75).
THEOREM ImplementsNovelty == Spec => NoveltySpec
<1> DEFINE Inv == IndInv /\ Calm
<1>1. Init => Oracle!Init /\ Calm
  <2> SUFFICES ASSUME Init
               PROVE  Oracle!Init /\ Calm
    OBVIOUS
  <2>1. Coming = {} /\ Left = <<>> /\ Joined = {} /\ Reached = {}
    BY DEF Init, Coming, Left, Joined, Reached, Threads
  <2>2. Balance = [x \in Things |-> 0]
    BY <2>1 DEF Balance, Init, Things
  <2>3. WorthOf(blind) \in {WorthOf(no_goals) : no_goals \in BOOLEAN}
    BY DEF Init
  <2> QED
    BY <2>1, <2>2, <2>3 DEF Oracle!Init, Calm, Init, Threads
<1>2. Inv /\ [Next]_vars => Calm' /\ [Disturbed' \/ Oracle!Next]_(Oracle!vars)
  <2> SUFFICES ASSUME Inv, [Next]_vars
               PROVE  Calm' /\ [Disturbed' \/ Oracle!Next]_(Oracle!vars)
    OBVIOUS
  <2>1. CASE Next
    <3>1. PICK p \in Threads : StepOf(p)
      BY <2>1, SomeThread
    <3>2. Calm'
      BY <3>1, CalmStep DEF IndInv
    <3>3. Disturbed' \/ Oracle!Next \/ UNCHANGED <<WorthOf(blind), Left, Reached, Balance>>
      BY <3>1, OracleStep
    <3> QED
      BY <3>2, <3>3 DEF Oracle!vars
  <2>2. CASE UNCHANGED vars
    <3>1. UNCHANGED <<WorthOf(blind), Left, Reached, Balance>> /\ Calm'
      BY <2>2 DEF vars, graph_vars, score_vars, trace_vars, given_vars, Left, Reached, Balance, Joined,
        Coming, Element, Calm, Disturbed, GoalsOf, WorthOf
    <3> QED
      BY <3>1 DEF Oracle!vars
  <2> QED
    BY <2>1, <2>2
<1> QED
  BY <1>1, <1>2, KnowledgeInvariance, PTL DEF Spec, NoveltySpec
=============================================================================
