-------------------------- MODULE PopulationProofs --------------------------
(***************************************************************************)
(* Proofs about Population and the best individuals it keeps.              *)
(***************************************************************************)
EXTENDS Population, TLAPS, FiniteSetTheorems, WellFoundedInduction

(***************************************************************************)
(* Least elements                                                          *)
(***************************************************************************)

\* A set of naturals has a least element.
LEMMA LeastNatural ==
    ASSUME NEW T, T \subseteq Nat, T # {}
    PROVE  \E n \in T : \A k \in T : n <= k
<1>1. PICK n \in T : \A k \in T : ~(<<k, n>> \in OpToRel(<, Nat))
    BY NatLessThanWellFounded, WFMin
<1>2. \A k \in T : ~(k < n)
    BY <1>1 DEF OpToRel
<1>3. \A k \in T : k \in Nat
    OBVIOUS
<1>4. ASSUME NEW k \in T
      PROVE  n <= k
    BY <1>2, <1>3
<1>. QED
    BY <1>4

\* consolidate_min_key() finds a key of the container, and none weighs less.
LEMMA LeastKeyFound ==
    ASSUME NEW entries, entries \subseteq Entries, entries # {}
    PROVE  /\ LeastKey(entries) \in {e.measure : e \in entries}
           /\ LeastKey(entries) \in Measures
           /\ \A e \in entries : Weight[LeastKey(entries)] <= Weight[e.measure]
<1>. DEFINE weights == Weights(entries)
<1>1. \A e \in entries : e.measure \in Measures /\ Weight[e.measure] \in Nat
    BY BestAssumption DEF Entries
<1>2. weights \subseteq Nat /\ weights # {}
    BY <1>1 DEF Weights
<1>3. PICK w \in weights : \A v \in weights : w <= v
    BY <1>2, LeastNatural
<1>4. PICK f \in entries : w = Weight[f.measure]
    BY <1>3 DEF Weights
<1>5. \A e \in entries : Weight[f.measure] <= Weight[e.measure]
    BY <1>3, <1>4 DEF Weights
<1>6. LeastKey(entries) \in {e.measure : e \in entries}
      /\ \A e \in entries : Weight[LeastKey(entries)] <= Weight[e.measure]
    BY <1>5 DEF LeastKey
<1>. QED
    BY <1>1, <1>6

(***************************************************************************)
(* Types                                                                   *)
(***************************************************************************)

\* The best individuals keep their type, whoever is taken.
LEMMA InsertedType ==
    ASSUME NEW b \in Best, NEW entry \in Entries, NEW c \in Inserted(b, entry)
    PROVE  c \in Best
<1>0. /\ b.container \subseteq Entries /\ b.hashes \subseteq Contents
      /\ b.min_key \in Measures /\ b.max_key \in Measures
      /\ entry.content \in Contents /\ entry.measure \in Measures
    BY DEF Best, Entries
<1>1. ASSUME NEW removed \in Removed(b)
      PROVE  Replace(b, removed, entry) \in Best
    <2>. DEFINE kept == (b.container \ removed) \union {entry}
    <2>1. kept \subseteq Entries /\ kept # {}
        BY <1>0
    <2>2. LeastKey(kept) \in Measures
        BY <2>1, LeastKeyFound
    <2>. QED
        BY <1>0, <2>1, <2>2 DEF Replace, HashesLeft, ConsolidatedMinKey, Best, Contained
<1>2. Add(b, entry) \in Best
    BY <1>0 DEF Add, Best
<1>. QED
    BY <1>1, <1>2 DEF Inserted

\* The numbers the population's actions compute are naturals.
LEMMA NumbersNatural ==
    /\ MinPop \in Nat /\ MaxPop \in Nat /\ DoubleDeviation = 2 * Deviation
    /\ DoubleDeviation \in Nat /\ MinPop <= PopSize /\ PopSize <= MaxPop
    /\ MinPop = PopSize - Deviation /\ MaxPop = PopSize + Deviation
    /\ PopSize \in Nat \ {0} /\ Deviation \in Nat /\ Deviation <= PopSize
    /\ MaxStale \in Nat /\ MaxGenerations \in Nat /\ BestSize \in Nat \ {0}
BY PopulationAssumption, BestAssumption DEF MinPop, MaxPop, DoubleDeviation

\* What get_best() returns, and what it says is missing.
LEMMA Counts ==
    ASSUME NEW b \in Best, IsFiniteSet(b.container), NEW num \in Nat
    PROVE  /\ Cardinality(b.container) \in Nat
           /\ BestCount(b, num) \in Nat
           /\ Remaining(b, num) \in Nat
           /\ BestCount(b, num) + Remaining(b, num) <= IF num = 0 THEN 1 ELSE num
           /\ Remaining(b, num) <= IF num > Cardinality(b.container)
                                   THEN num - Cardinality(b.container) ELSE 0
           /\ Cardinality(b.container) >= 2 /\ num >= 2 => BestCount(b, num) >= 2
           /\ Cardinality(b.container) >= 1 => BestCount(b, num) >= 1
<1>1. Cardinality(b.container) \in Nat
    BY FS_CardinalityType
<1>. QED
    BY <1>1 DEF BestCount, Remaining

\* TypeOK, and the best individuals are finitely many.
TypeInv == TypeOK /\ IsFiniteSet(best.container)

\* A full container gives up at most one element for the new one.
LEMMA InsertedFull ==
    ASSUME NEW b, NEW entry, NEW c \in Inserted(b, entry), Full(b)
    PROVE  \E removed \in Removed(b) :
                /\ c.container = (b.container \ removed) \union {entry}
                /\ c.hashes = (b.hashes \ Contained(removed)) \union {entry.content}
                /\ c.min_key = LeastKey(c.container)
<1>1. PICK removed \in Removed(b) : c = Replace(b, removed, entry)
    BY DEF Inserted
<1>2. /\ c.container = (b.container \ removed) \union {entry}
      /\ c.hashes = (b.hashes \ Contained(removed)) \union {entry.content}
      /\ c.min_key = LeastKey((b.container \ removed) \union {entry})
    BY <1>1 DEF Replace, HashesLeft, ConsolidatedMinKey
<1>. QED
    BY <1>2

\* The container after an insertion: one element more, and at most one less.
LEMMA InsertedContainer ==
    ASSUME NEW b \in Best, NEW entry \in Entries, NEW c \in Inserted(b, entry)
    PROVE  \E removed \in Removed(b) \union {{}} :
                c.container = (b.container \ removed) \union {entry}
<1>1. CASE Full(b)
    BY <1>1, InsertedFull
<1>2. CASE ~Full(b)
    <2>1. c.container = b.container \union {entry}
        BY <1>2 DEF Inserted, Add
    <2>2. c.container = (b.container \ {}) \union {entry}
        BY <2>1
    <2>. QED
        BY <2>2
<1>. QED
    BY <1>1, <1>2

LEMMA InsertedFinite ==
    ASSUME NEW b \in Best, NEW entry \in Entries, NEW c \in Inserted(b, entry),
           IsFiniteSet(b.container)
    PROVE  IsFiniteSet(c.container)
<1>1. PICK removed : c.container = (b.container \ removed) \union {entry}
    BY InsertedContainer
<1>2. b.container \ removed \in SUBSET b.container
    OBVIOUS
<1>3. IsFiniteSet(b.container \ removed)
    BY <1>2, FS_Subset
<1>. QED
    BY <1>1, <1>3, FS_AddElement

\* Weights are naturals.
LEMMA WeightsNatural ==
    ASSUME NEW entries, entries \subseteq Entries
    PROVE  Weights(entries) \subseteq Nat
BY BestAssumption DEF Weights, Entries

LEMMA PairsNatural ==
    ASSUME NEW size \in Nat
    PROVE  /\ Pairs(size) \subseteq Nat
           /\ \A n \in Pairs(size) : 2 * n <= size + 1
BY DEF Pairs

LEMMA TypeInit == Init => TypeInv
<1>1. PopSize..(MaxPop - 1) \subseteq Nat
    BY NumbersNatural
<1>2. \A b \in NewBest : b \in Best /\ b.container = {}
    BY BestAssumption DEF NewBest, Best
<1>3. IsFiniteSet({})
    BY FS_EmptySet
<1>. SUFFICES ASSUME Init
              PROVE  TypeInv
    OBVIOUS
<1>4. seeds \in Nat /\ individuals \in Nat
    BY <1>1, NumbersNatural DEF Init
<1>5. best \in Best /\ IsFiniteSet(best.container)
    BY <1>2, <1>3 DEF Init
<1>6. improved \in BOOLEAN
    BY Zenon DEF Init
<1>7. /\ pc \in Places /\ dropped \subseteq Nat
      /\ stale = 0 /\ ranked = 0 /\ new_individuals = 0 /\ last_injected = 0
      /\ generations = 0 /\ unimproved = 0
    BY DEF Init, Places
<1>. QED
    BY <1>4, <1>5, <1>6, <1>7 DEF TypeInv, TypeOK

LEMMA TypeStep == TypeInv /\ [Next]_vars => TypeInv'
<1>. SUFFICES ASSUME TypeInv, [Next]_vars
              PROVE  TypeInv'
    OBVIOUS
<1>. USE DEF TypeInv, TypeOK, Places, pop_vars, rank_vars, count_vars, new_vars
<1>1. CASE Evolve
    <2>1. improved' \in BOOLEAN
        BY <1>1, Zenon DEF Evolve
    <2>. QED
        BY <1>1, <2>1 DEF Evolve
<1>2. CASE Rank
    <2>1. PICK entry \in Entries :
            \/ /\ dropped' = dropped \/ dropped' = dropped \union Weights({entry})
               /\ UNCHANGED <<best, improved>>
            \/ /\ best' \in Inserted(best, entry)
               /\ improved' = (improved \/ Improves(best, entry))
               /\ dropped' = dropped \union Weights(best.container \ best'.container)
        BY <1>2 DEF Rank
    <2>2. best' \in Best /\ IsFiniteSet(best'.container)
        BY <2>1, InsertedType, InsertedFinite
    <2>3. dropped' \subseteq Nat
        <3>1. Weights({entry}) \subseteq Nat
            BY WeightsNatural
        <3>2. best.container \ best'.container \subseteq Entries
            BY DEF Best
        <3>3. Weights(best.container \ best'.container) \subseteq Nat
            BY <3>2, WeightsNatural
        <3>. QED
            BY <2>1, <3>1, <3>3
    <2>4. improved' \in BOOLEAN
        BY <2>1 DEF Improves
    <2>. QED
        BY <1>2, <2>2, <2>3, <2>4 DEF Rank
<1>3. CASE Ranked
    BY <1>3 DEF Ranked
<1>4. CASE Breed
    BY <1>4, PairsNatural DEF Breed
<1>5. CASE Reinject
    BY <1>5, NumbersNatural DEF Reinject, TooFew, LastIndex, Within
<1>6. CASE Adjust
    <2>1. \A num \in Adjustments : num \in Nat
        BY NumbersNatural DEF Adjustments
    <2>2. new_individuals' \in Nat
        BY <1>6, <2>1, Counts DEF Adjust
    <2>. QED
        BY <1>6, <2>2 DEF Adjust, Within
<1>7. CASE Perturb
    <2>1. individuals \div 2 \in Nat
        OBVIOUS
    <2>2. BestCount(best, individuals \div 2) \in Nat
        BY <2>1, Counts
    <2>. QED
        BY <1>7, <2>1, <2>2 DEF Perturb, Within
<1>8. CASE Assign
    BY <1>8 DEF Assign
<1>9. CASE UNCHANGED vars
    BY <1>9 DEF vars
<1>. QED
    BY <1>1, <1>2, <1>3, <1>4, <1>5, <1>6, <1>7, <1>8, <1>9 DEF Next

(***************************************************************************)
(* The best individuals                                                    *)
(***************************************************************************)

\* Nothing kept weighs less than min_key, nothing dropped weighs more, and
\* nothing is dropped before the container is full.
BestInv ==
    /\ BestDistinct
    /\ AtMostOneMore
    /\ \A e \in best.container : Weight[best.min_key] <= Weight[e.measure]
    /\ dropped = {} \/ Full(best)
    /\ \A w \in dropped : w <= Weight[best.min_key]

\* An individual that is taken while there is a place left.
LEMMA AddStep ==
    ASSUME TypeInv, BestInv, NEW entry \in Entries,
           ~Refuses(best, entry), ~Full(best), best' = Add(best, entry),
           dropped' = dropped \union Weights(best.container \ best'.container)
    PROVE  BestInv'
<1>1. /\ best'.container = best.container \union {entry}
      /\ best'.hashes = best.hashes \union {entry.content}
      /\ best'.min_key = IF Less(entry.measure, best.min_key)
                         THEN entry.measure ELSE best.min_key
    BY DEF Add
<1>2. entry.content \notin best.hashes /\ entry \notin best.container
    BY DEF Refuses, Known, BestInv, BestDistinct, Contained
<1>3. BestDistinct'
    BY <1>1, <1>2 DEF BestInv, BestDistinct, Contained
<1>4. Cardinality(best'.container) = Cardinality(best.container) + 1
      /\ Cardinality(best.container) \in Nat
    BY <1>1, <1>2, FS_AddElement, FS_CardinalityType DEF TypeInv
<1>5. AtMostOneMore'
    BY <1>4, NumbersNatural DEF Full, AtMostOneMore
<1>6. dropped' = {}
    BY <1>1 DEF Weights, BestInv
<1>7. \A e \in best'.container : Weight[best'.min_key] <= Weight[e.measure]
    <2>1. /\ \A e \in best.container : Weight[e.measure] \in Nat
          /\ Weight[entry.measure] \in Nat /\ Weight[best.min_key] \in Nat
        BY BestAssumption DEF TypeInv, TypeOK, Best, Entries
    <2>. QED
        BY <1>1, <2>1 DEF Less, BestInv
<1>. QED
    BY <1>3, <1>5, <1>6, <1>7 DEF BestInv

\* An individual that is taken into a full container.
LEMMA ReplaceStep ==
    ASSUME TypeInv, BestInv, NEW entry \in Entries,
           ~Refuses(best, entry), Full(best), best' \in Inserted(best, entry),
           dropped' = dropped \union Weights(best.container \ best'.container)
    PROVE  BestInv'
<1>1. PICK removed \in Removed(best) :
            /\ best'.container = (best.container \ removed) \union {entry}
            /\ best'.hashes = (best.hashes \ Contained(removed)) \union {entry.content}
            /\ best'.min_key = LeastKey(best'.container)
    BY InsertedFull
<1>2. entry.content \notin best.hashes /\ entry \notin best.container
    BY DEF Refuses, Known, BestInv, BestDistinct, Contained
<1>3. \/ removed = {} /\ Worst(best) = {}
      \/ \E e \in Worst(best) : removed = {e}
    BY DEF Removed
<1>4. /\ removed \subseteq best.container
      /\ \A e \in removed : Weight[e.measure] = Weight[best.min_key]
    BY <1>3 DEF Worst
<1>5. best.container \ best'.container = removed
    BY <1>1, <1>2, <1>4
<1>6. /\ best.container \subseteq Entries
      /\ best'.container \subseteq Entries /\ best'.container # {}
      /\ best'.min_key \in Measures /\ best.min_key \in Measures
      /\ \A m \in Measures : Weight[m] \in Nat
      /\ \A e \in Entries : e.measure \in Measures
    <2>1. best' \in Best
        BY InsertedType DEF TypeInv, TypeOK
    <2>. QED
        BY <1>1, <2>1, BestAssumption DEF TypeInv, TypeOK, Best, Entries
<1>7. BestDistinct'
    BY <1>1, <1>2, <1>4 DEF BestInv, BestDistinct, Contained
<1>8. /\ best'.min_key \in {e.measure : e \in best'.container}
      /\ \A e \in best'.container : Weight[best'.min_key] <= Weight[e.measure]
    BY <1>1, <1>6, LeastKeyFound
<1>9. Weight[best.min_key] <= Weight[best'.min_key]
    <2>1. Weight[best.min_key] <= Weight[entry.measure]
        BY <1>6 DEF Refuses, Less
    <2>2. \A e \in best'.container : Weight[best.min_key] <= Weight[e.measure]
        BY <1>1, <2>1 DEF BestInv
    <2>. QED
        BY <1>8, <2>2
<1>10. /\ Cardinality(best.container) \in Nat /\ Cardinality(best'.container) \in Nat
       /\ Cardinality(best'.container) >= Cardinality(best.container)
       /\ Cardinality(best'.container) <= BestSize + 1
    <2>1. CASE removed = {} /\ Worst(best) = {}
        <3>1. best'.container = best.container \union {entry}
            BY <1>1, <2>1
        <3>2. Cardinality(best'.container) = Cardinality(best.container) + 1
              /\ Cardinality(best.container) \in Nat
            BY <1>2, <3>1, FS_AddElement, FS_CardinalityType DEF TypeInv
        <3>3. ~(Cardinality(best.container) > BestSize)
            BY <2>1 DEF BestInv, AtMostOneMore
        <3>. QED
            BY <3>2, <3>3, NumbersNatural
    <2>2. CASE \E e \in Worst(best) : removed = {e}
        <3>1. PICK e \in best.container : removed = {e}
            BY <2>2 DEF Worst
        <3>2. /\ IsFiniteSet(best.container \ {e})
              /\ Cardinality(best.container \ {e}) = Cardinality(best.container) - 1
              /\ Cardinality(best.container) \in Nat
            BY FS_RemoveElement, FS_CardinalityType DEF TypeInv
        <3>3. entry \notin best.container \ {e}
            BY <1>2
        <3>4. Cardinality(best'.container) = (Cardinality(best.container) - 1) + 1
            BY <1>1, <3>1, <3>2, <3>3, FS_AddElement
        <3>. QED
            BY <3>2, <3>4 DEF BestInv, AtMostOneMore
    <2>. QED
        BY <1>3, <2>1, <2>2
<1>11. AtMostOneMore'
    BY <1>8, <1>10 DEF AtMostOneMore, Worst
<1>12. Full(best)'
    BY <1>10, NumbersNatural DEF Full
<1>13. \A w \in dropped' : w <= Weight[best'.min_key]
    <2>1. \A w \in dropped' : w \in Nat /\ w <= Weight[best.min_key]
        BY <1>4, <1>5, <1>6 DEF Weights, BestInv, TypeInv, TypeOK
    <2>2. Weight[best.min_key] \in Nat /\ Weight[best'.min_key] \in Nat
        BY <1>6
    <2>. SUFFICES ASSUME NEW w \in dropped'
                  PROVE  w <= Weight[best'.min_key]
        OBVIOUS
    <2>3. w \in Nat /\ w <= Weight[best.min_key]
        BY <2>1
    <2>. QED
        BY <1>9, <2>2, <2>3
<1>. QED
    BY <1>7, <1>8, <1>11, <1>12, <1>13 DEF BestInv

\* An individual that is refused.
LEMMA RefuseStep ==
    ASSUME TypeInv, BestInv, NEW entry \in Entries,
           Refuses(best, entry), UNCHANGED best,
           dropped' = IF Known(best, entry) THEN dropped
                      ELSE dropped \union Weights({entry})
    PROVE  BestInv'
<1>1. BestDistinct' /\ AtMostOneMore' /\ (Full(best)' <=> Full(best))
    BY DEF BestInv, BestDistinct, AtMostOneMore, Worst, Full
<1>2. /\ dropped' = {} \/ Full(best)
      /\ \A w \in dropped' : w <= Weight[best.min_key]
    <2>1. Weight[entry.measure] \in Nat /\ Weight[best.min_key] \in Nat
        BY BestAssumption DEF TypeInv, TypeOK, Best, Entries
    <2>2. ~Known(best, entry) => Full(best) /\ Weight[entry.measure] <= Weight[best.min_key]
        BY <2>1 DEF Refuses, Less
    <2>3. Weights({entry}) = {Weight[entry.measure]}
        BY DEF Weights
    <2>. QED
        BY <2>2, <2>3 DEF BestInv
<1>. QED
    BY <1>1, <1>2 DEF BestInv

LEMMA BestInit == Init => BestInv
<1>. SUFFICES ASSUME Init
              PROVE  BestInv
    OBVIOUS
<1>1. best.container = {} /\ best.hashes = {} /\ dropped = {}
    BY DEF Init, NewBest
<1>2. Cardinality(best.container) = 0
    BY <1>1, FS_EmptySet
<1>. QED
    BY <1>1, <1>2, NumbersNatural
    DEF BestInv, BestDistinct, AtMostOneMore, Contained

\* Only the ranking of an individual touches the best ones.
LEMMA BestStep == TypeInv /\ BestInv /\ [Next]_vars => BestInv'
<1>. SUFFICES ASSUME TypeInv, BestInv, [Next]_vars
              PROVE  BestInv'
    OBVIOUS
<1>1. CASE Rank
    <2>. PICK entry \in Entries :
            \/ /\ Refuses(best, entry)
               /\ dropped' = IF Known(best, entry) THEN dropped
                             ELSE dropped \union Weights({entry})
               /\ UNCHANGED best
            \/ /\ ~Refuses(best, entry)
               /\ best' \in Inserted(best, entry)
               /\ dropped' = dropped \union Weights(best.container \ best'.container)
        BY <1>1 DEF Rank
    <2>1. CASE Refuses(best, entry)
        BY <2>1, RefuseStep
    <2>2. CASE ~Refuses(best, entry) /\ Full(best)
        BY <2>2, ReplaceStep
    <2>3. CASE ~Refuses(best, entry) /\ ~Full(best)
        <3>1. best' = Add(best, entry)
            BY <2>3 DEF Inserted
        <3>. QED
            BY <2>3, <3>1, AddStep
    <2>. QED
        BY <2>1, <2>2, <2>3
<1>2. CASE UNCHANGED <<best, dropped>>
    BY <1>2 DEF BestInv, BestDistinct, AtMostOneMore, Worst, Full
<1>3. Rank \/ UNCHANGED <<best, dropped>>
    BY DEF Next, vars, rank_vars, Evolve, Ranked, Breed, Reinject, Adjust,
           Perturb, Assign
<1>. QED
    BY <1>1, <1>2, <1>3

(***************************************************************************)
(* The size of the population                                              *)
(***************************************************************************)

\* How many individuals there are, and how many of the next generation, at
\* every place of evolve().
SizeInv ==
    ModestDeviation =>
        /\ seeds >= PopSize
        /\ individuals \in MinPop..MaxPop
        /\ pc \in {"rank", "breed", "reinject", "perturb"} => last_injected = 0
        /\ pc = "reinject" => new_individuals <= MinPop
        /\ pc = "adjust" => new_individuals = MinPop /\ last_injected < MinPop
        /\ pc = "assign" => new_individuals \in MinPop..MaxPop
        /\ InRange

LEMMA SizeInit == Init => SizeInv
<1>. SUFFICES ASSUME Init, ModestDeviation
              PROVE  SizeInv
    BY DEF SizeInv
<1>1. seeds \in Nat /\ seeds >= PopSize /\ seeds <= MaxPop
    BY NumbersNatural DEF Init, ModestDeviation
<1>. QED
    BY <1>1, NumbersNatural DEF Init, SizeInv, InRange

\* A modest deviation leaves the best of a range to breed: two parents a child.
LEMMA ModestNumbers ==
    ASSUME ModestDeviation, NEW n \in Nat, NEW size \in MinPop..MaxPop,
           2 * n <= size + 1
    PROVE  n <= MinPop
BY NumbersNatural DEF ModestDeviation

LEMMA SizeStep == TypeInv /\ SizeInv /\ [Next]_vars => SizeInv'
<1>. SUFFICES ASSUME TypeInv, SizeInv, [Next]_vars, ModestDeviation
              PROVE  SizeInv'
    BY DEF SizeInv, ModestDeviation
<1>. USE DEF pop_vars, rank_vars, count_vars, new_vars
<1>0. /\ seeds \in Nat /\ individuals \in Nat
      /\ new_individuals \in Nat /\ last_injected \in Nat
      /\ best \in Best /\ IsFiniteSet(best.container)
      /\ Cardinality(best.container) \in Nat
    BY FS_CardinalityType DEF TypeInv, TypeOK
<1>1. CASE Evolve
    BY <1>1 DEF Evolve, SizeInv, InRange
<1>2. CASE Rank
    BY <1>2 DEF Rank, SizeInv, InRange
<1>3. CASE Ranked
    BY <1>3 DEF Ranked, SizeInv, InRange
<1>4. CASE Breed
    <2>1. new_individuals' \in Nat /\ 2 * new_individuals' <= individuals + 1
        BY <1>0, <1>4, PairsNatural DEF Breed
    <2>2. individuals \in MinPop..MaxPop
        BY DEF SizeInv
    <2>3. new_individuals' <= MinPop
        BY <2>1, <2>2, ModestNumbers
    <2>. QED
        BY <1>4, <2>3 DEF Breed, SizeInv, InRange
<1>5. CASE Reinject
    <2>1. /\ individuals \in MinPop..MaxPop /\ last_injected = 0
          /\ new_individuals <= MinPop /\ MinPop \in Nat /\ MinPop >= 1
        BY <1>5, NumbersNatural DEF Reinject, TooFew, SizeInv, ModestDeviation
    <2>2. MinPop - new_individuals <= individuals
        BY <1>0, <2>1
    <2>3. /\ pc' = "adjust" /\ new_individuals' = MinPop
          /\ last_injected' \in Nat /\ last_injected' < MinPop
        BY <1>0, <1>5, <2>1, <2>2 DEF Reinject, TooFew, LastIndex, Within
    <2>. QED
        BY <1>5, <2>3 DEF Reinject, TooFew, SizeInv, InRange
<1>6. CASE Adjust
    <2>1. CASE pc' = "assign" /\ UNCHANGED new_vars
        BY <1>0, <1>6, <2>1, NumbersNatural DEF Adjust, SizeInv, InRange
    <2>2. CASE \E num \in Adjustments :
                    /\ Within(Remaining(best, num) > 0
                              => last_injected + Remaining(best, num) <= individuals,
                              "assign")
                    /\ new_individuals' =
                            new_individuals + BestCount(best, num) + Remaining(best, num)
        <3>. PICK num \in Adjustments :
                    /\ Within(Remaining(best, num) > 0
                              => last_injected + Remaining(best, num) <= individuals,
                              "assign")
                    /\ new_individuals' =
                            new_individuals + BestCount(best, num) + Remaining(best, num)
            BY <2>2
        <3>1. num \in Nat /\ 1 <= num /\ num <= DoubleDeviation
            BY NumbersNatural DEF Adjustments, ModestDeviation
        <3>2. /\ BestCount(best, num) \in Nat /\ Remaining(best, num) \in Nat
              /\ BestCount(best, num) + Remaining(best, num) <= num
              /\ Remaining(best, num) <= IF num > Cardinality(best.container)
                                   THEN num - Cardinality(best.container) ELSE 0
            BY <1>0, <3>1, Counts
        <3>3. new_individuals = MinPop /\ last_injected < MinPop
              /\ individuals \in MinPop..MaxPop
            BY <1>6 DEF Adjust, SizeInv
        <3>4. new_individuals' \in MinPop..MaxPop
            BY <3>1, <3>2, <3>3, NumbersNatural
        <3>5. Cardinality(best.container) >= DoubleDeviation - 1
                => pc' = "assign"
            BY <1>0, <3>1, <3>2, <3>3, NumbersNatural DEF Within
        <3>6. pc' = "assign" \/ pc' = "out_of_range"
            BY DEF Within
        <3>. QED
            BY <1>6, <3>4, <3>5, <3>6 DEF Adjust, SizeInv, InRange
    <2>. QED
        BY <1>6, <2>1, <2>2 DEF Adjust
<1>7. CASE Perturb
    <2>. DEFINE half == individuals \div 2
                bests == BestCount(best, half)
    <2>1. individuals \in MinPop..MaxPop /\ individuals >= 1 /\ seeds >= PopSize
        BY <1>0, NumbersNatural DEF SizeInv, ModestDeviation
    <2>2. half \in Nat /\ 2 * half <= individuals /\ half <= seeds
        BY <1>0, <2>1, NumbersNatural DEF ModestDeviation
    <2>3. bests \in Nat /\ bests <= IF half = 0 THEN 1 ELSE half
        <3>. HIDE DEF half
        <3>. QED
            BY <1>0, <2>2, Counts
    <2>. /\ new_individuals' = IF bests + half > individuals THEN bests + half ELSE individuals
         /\ pc' = "spin" \/ pc' = "assign"
         /\ UNCHANGED <<seeds, individuals, best, last_injected>>
        BY <1>7, <2>2 DEF Perturb, Within
    <2>4. new_individuals' = individuals
        <3>. HIDE DEF half, bests
        <3>. QED
            BY <1>0, <2>1, <2>2, <2>3
    <2>. QED
        BY <1>7, <2>1, <2>4 DEF Perturb, SizeInv, InRange
<1>8. CASE Assign
    BY <1>8 DEF Assign, SizeInv, InRange
<1>9. CASE UNCHANGED vars
    BY <1>9 DEF vars, SizeInv, InRange
<1>. QED
    BY <1>1, <1>2, <1>3, <1>4, <1>5, <1>6, <1>7, <1>8, <1>9 DEF Next

\* Two different indices are drawn without end only where there are not two to
\* draw: a half of more than one individual asks for two at least.
LEMMA DrawInit == Init => DrawEnds
BY DEF Init, DrawEnds

LEMMA DrawStep == TypeInv /\ DrawEnds /\ [Next]_vars => DrawEnds'
<1>. SUFFICES ASSUME TypeInv, DrawEnds, [Next]_vars
              PROVE  DrawEnds'
    OBVIOUS
<1>. USE DEF pop_vars, rank_vars, count_vars, new_vars
<1>1. CASE Perturb
    <2>. DEFINE half == individuals \div 2
                bests == BestCount(best, half)
    <2>0. individuals \in Nat /\ half \in Nat /\ bests \in Nat
          /\ Cardinality(best.container) \in Nat
        <3>1. individuals \in Nat /\ half \in Nat
              /\ best \in Best /\ IsFiniteSet(best.container)
            BY DEF TypeInv, TypeOK
        <3>. HIDE DEF half
        <3>. QED
            BY <3>1, Counts
    <2>1. SUFFICES ASSUME pc' = "spin", Cardinality(best.container) >= 2
                   PROVE  individuals = 3
        BY <1>1, <2>0 DEF Perturb, DrawEnds
    <2>2. bests + half < individuals /\ bests < 2
        BY <1>1, <2>1 DEF Perturb, Within
    <2>3. half < 2 /\ bests >= 1
        <3>. HIDE DEF half
        <3>. QED
            BY <2>0, <2>1, <2>2, Counts DEF TypeInv, TypeOK
    <2>. QED
        BY <2>0, <2>2, <2>3
<1>2. CASE pc' # "spin"
    BY <1>2 DEF DrawEnds
<1>3. CASE UNCHANGED vars
    BY <1>3 DEF vars, DrawEnds
<1>4. Perturb \/ pc' # "spin" \/ UNCHANGED vars
    <2>1. CASE Rank
        BY <2>1 DEF Rank
    <2>2. CASE Reinject
        BY <2>2 DEF Reinject, TooFew, LastIndex, Within
    <2>3. CASE Adjust
        BY <2>3 DEF Adjust, Within
    <2>. QED
        BY <2>1, <2>2, <2>3 DEF Next, Evolve, Ranked, Breed, Assign
<1>. QED
    BY <1>1, <1>2, <1>3, <1>4

(***************************************************************************)
(* Generations without an improvement                                      *)
(***************************************************************************)

\* The generations that did not improve are among those that are counted since
\* the last perturbation.
StaleInv ==
    /\ pc \in {"run", "breed", "reinject", "adjust", "assign"}
            => unimproved <= stale /\ unimproved <= MaxStale
    /\ pc = "rank" => unimproved < stale /\ unimproved <= MaxStale

LEMMA StaleInit == Init => StaleInv
BY NumbersNatural DEF Init, StaleInv

LEMMA StaleStep == TypeInv /\ StaleInv /\ [Next]_vars => StaleInv'
<1>. SUFFICES ASSUME TypeInv, StaleInv, [Next]_vars
              PROVE  StaleInv'
    OBVIOUS
<1>. USE NumbersNatural DEF pop_vars, rank_vars, count_vars, new_vars
<1>0. stale \in Nat /\ unimproved \in Nat
    BY DEF TypeInv, TypeOK
<1>1. CASE Evolve
    BY <1>0, <1>1 DEF Evolve, StaleInv
<1>2. CASE Rank
    BY <1>2 DEF Rank, StaleInv
<1>3. CASE Ranked
    BY <1>0, <1>3 DEF Ranked, Stagnates, StaleInv
<1>4. CASE Breed
    BY <1>4 DEF Breed, StaleInv
<1>5. CASE Reinject
    BY <1>5 DEF Reinject, TooFew, LastIndex, Within, StaleInv
<1>6. CASE Adjust
    BY <1>6 DEF Adjust, Within, StaleInv
<1>7. CASE Perturb
    <2>1. unimproved' = 0 /\ stale' = stale
        BY <1>7 DEF Perturb
    <2>2. pc' # "rank"
        BY <1>7 DEF Perturb, Within
    <2>. QED
        BY <1>0, <2>1, <2>2 DEF StaleInv
<1>8. CASE Assign
    BY <1>8 DEF Assign, StaleInv
<1>9. CASE UNCHANGED vars
    BY <1>9 DEF vars, StaleInv
<1>. QED
    BY <1>1, <1>2, <1>3, <1>4, <1>5, <1>6, <1>7, <1>8, <1>9 DEF Next

(***************************************************************************)
(* Theorems                                                                *)
(***************************************************************************)

LEMMA AllInvariants ==
    Spec => [](TypeInv /\ BestInv /\ SizeInv /\ DrawEnds /\ StaleInv)
<1>. DEFINE All == TypeInv /\ BestInv /\ SizeInv /\ DrawEnds /\ StaleInv
<1>1. Init => All
    BY TypeInit, BestInit, SizeInit, DrawInit, StaleInit
<1>2. All /\ [Next]_vars => All'
    BY TypeStep, BestStep, SizeStep, DrawStep, StaleStep
<1>. QED
    BY <1>1, <1>2, PTL DEF Spec

\* The evolver's variables keep their types: no count of individuals, and no
\* index of a reinjected one, becomes negative in evolve().
THEOREM PopulationTypeCorrect == Spec => []TypeOK
<1>1. TypeInv => TypeOK
    BY DEF TypeInv
<1>. QED
    BY <1>1, AllInvariants, PTL

\* best_individuals_t::insert() keeps the hashes in step with the container and
\* the container without duplicates, for every size, order and set of contents.
THEOREM HashesOfTheKept == Spec => []BestDistinct
<1>1. BestInv => BestDistinct
    BY DEF BestInv
<1>. QED
    BY <1>1, AllInvariants, PTL

\* min_key, whatever a default-initialised measure_t holds, never makes insert()
\* refuse or remove an individual that weighs more than one it keeps.
THEOREM BestAreKept == Spec => []BestKept
<1>1. TypeInv /\ BestInv => BestKept
    <2>. SUFFICES ASSUME TypeInv, BestInv,
                         NEW e \in best.container, NEW w \in dropped
                  PROVE  Weight[e.measure] >= w
        BY DEF BestKept
    <2>1. w \in Nat /\ Weight[e.measure] \in Nat /\ Weight[best.min_key] \in Nat
        BY BestAssumption DEF TypeInv, TypeOK, Best, Entries
    <2>. QED
        BY <2>1 DEF BestInv
<1>. QED
    BY <1>1, AllInvariants, PTL

\* insert() lets the container outgrow its size by one element and no further.
THEOREM BestOutgrowByOne == Spec => []AtMostOneMore
<1>1. BestInv => AtMostOneMore
    BY DEF BestInv
<1>. QED
    BY <1>1, AllInvariants, PTL

\* Whatever the strategies mate and the coin says, evolve() leaves a population
\* of a size within population-deviation-size, if that is a third at most.
THEOREM PopulationStaysInRange == Spec => []SizeInRange
<1>1. SizeInv => SizeInRange
    BY DEF SizeInv, SizeInRange
<1>. QED
    BY <1>1, AllInvariants, PTL

\* evolve() reads its vectors within their bounds, under the same condition and
\* with enough of the best.
THEOREM ReadsInRange == Spec => []InRange
<1>1. SizeInv => InRange
    BY DEF SizeInv, InRange
<1>. QED
    BY <1>1, AllInvariants, PTL

\* global_perturbation() finds its two different parents, but in a population
\* of three and with a single best individual.
THEOREM PerturbationDraws == Spec => []DrawEnds
BY AllInvariants, PTL

\* The population is perturbed after max-evolution-fixpoint generations without
\* an improvement at the latest.
THEOREM PerturbedInTime == Spec => []FixpointBound
<1>1. StaleInv => FixpointBound
    BY DEF StaleInv, FixpointBound
<1>. QED
    BY <1>1, AllInvariants, PTL
=============================================================================
