----------------------- MODULE IndividualMemoryProofs -----------------------
(***************************************************************************)
(* Proofs about IndividualMemory: the counts cover the individuals, no     *)
(* individual holds a dismissed slot, nothing outlives its generation, and *)
(* no operator of the evolver leaves a buffer or empties one.              *)
(***************************************************************************)
EXTENDS IndividualMemory, TLAPS, FiniteSetTheorems

(***************************************************************************)
(* Buffers                                                                 *)
(***************************************************************************)

LEMMA BufferConstants ==
    /\ Multiplier \in Nat \ {0} /\ Duplicator \in Nat \ {0}
    /\ Shuffled \in Nat \ {0} /\ Digits \in Nat \ {0} /\ Segment \in Nat \ {0}
BY BuffersAssumption

\* What a buffer has after its creation and after an insertion.
LEMMA BufferSizes ==
    ASSUME NEW len \in Nat
    PROVE  /\ Created(len).length = len
           /\ Created(len).capacity \in Nat \ {0}
           /\ Created(len).capacity >= len
           /\ \A n : Inserted(Created(len), n).length = len + n
                    /\ Inserted(Created(len), n).capacity = len + n
BY DEF Created, CreatedCapacity, Inserted

\* An outcome that stays in its buffers and empties nothing.
Safe(outcome, len) ==
    /\ InBounds(outcome)
    /\ outcome.buffer.length \in Nat
    /\ len > 0 => outcome.buffer.length > 0

\* No mutation, of a buffer of any length, reads or writes past the end of a
\* buffer, or makes an empty one of one that is not.
THEOREM MutationsSafe ==
    ASSUME NEW len \in Nat, NEW outcome \in Mutated(len)
    PROVE  Safe(outcome, len)
<1>. USE BufferConstants, BufferSizes
<1>1. Safe(Unchanged(Created(len)), len)
    BY DEF Safe, InBounds, Unchanged
<1>2. ASSUME NEW idx \in Draw(len)
      PROVE  Safe(Only(Created(len), idx + 1), len)
    BY DEF Safe, InBounds, Only, Reaching, Draw
<1>3. ASSUME NEW idx \in Draw(len + 1)
      PROVE  Safe(Only(Inserted(Created(len), 1), idx + 1), len)
    BY DEF Safe, InBounds, Only, Reaching, Draw
<1>4. CASE outcome \in EraseByte(len)
    BY <1>1, <1>4 DEF EraseByte, EnoughBytes, Safe, InBounds, Reaching, Removed, Created
<1>5. CASE outcome \in SwapByte(len)
    <2>1. CASE len < 2
        BY <1>1, <1>5, <2>1 DEF SwapByte
    <2>2. CASE ~(len < 2)
        <3>1. PICK idx1 \in Draw(len), idx2 \in Draw(len) :
                  outcome = [buffer |-> Created(len),
                             accesses |-> {Reaching(Created(len), idx1 + 1),
                                           Reaching(Created(len), idx2 + 1)}]
            BY <1>5, <2>2 DEF SwapByte
        <3>. QED
            BY <2>2, <3>1 DEF Safe, InBounds, Reaching, Draw
    <2>. QED
        BY <2>1, <2>2
<1>6. CASE outcome \in ShuffleBytes(len)
    <2>1. CASE len < 2
        BY <1>1, <1>6, <2>1 DEF ShuffleBytes
    <2>2. CASE ~(len < 2)
        <3>1. PICK amount \in 1..(IF len < Shuffled THEN len ELSE Shuffled) :
                  \E start \in Draw(len - amount) :
                      outcome = Only(Created(len), start + amount)
            BY <1>6, <2>2 DEF ShuffleBytes
        <3>2. PICK start \in Draw(len - amount) :
                  outcome = Only(Created(len), start + amount)
            BY <3>1
        <3>3. amount \in Nat /\ amount <= len /\ start \in Nat /\ start + amount <= len
            BY <3>1, <3>2 DEF Draw
        <3>. QED
            BY <2>2, <3>2, <3>3 DEF Safe, InBounds, Only, Reaching
    <2>. QED
        BY <2>1, <2>2
<1>7. CASE outcome \in DuplicateByte(len)
    <2>1. PICK mul \in 1..Multiplier, idx \in Draw(len) :
              outcome = [buffer |-> Inserted(Created(len), mul),
                         accesses |-> {Reaching(Created(len), idx + 1),
                                       Reaching(Inserted(Created(len), mul), idx + mul)}]
        BY <1>7 DEF DuplicateByte
    <2>. QED
        BY <2>1 DEF Safe, InBounds, Reaching, Draw
<1>8. CASE outcome \in DuplicateBytes(len)
    <2>1. PICK range \in 1..Duplicator :
              outcome \in IF range >= len THEN {Unchanged(Created(len))}
                         ELSE {LET grown == Inserted(Created(len), mul * range)
                               IN  Only(grown, idx + range + mul * range) :
                                   idx \in Draw(len - range), mul \in 1..Multiplier}
        BY <1>8 DEF DuplicateBytes
    <2>2. CASE range >= len
        BY <1>1, <2>1, <2>2
    <2>3. CASE ~(range >= len)
        <3>1. PICK idx \in Draw(len - range), mul \in 1..Multiplier :
                  outcome = Only(Inserted(Created(len), mul * range), idx + range + mul * range)
            BY <2>1, <2>3
        <3>2. /\ range \in Nat /\ mul \in Nat /\ idx \in Nat
              /\ idx + range <= len
            BY <2>3 DEF Draw
        <3>. DEFINE added == mul * range
        <3>3. added \in Nat
            BY <3>2
        <3>4. outcome = Only(Inserted(Created(len), added), idx + range + added)
            BY <3>1
        <3>. HIDE DEF added
        <3>. QED
            BY <3>2, <3>3, <3>4 DEF Safe, InBounds, Only, Reaching
    <2>. QED
        BY <2>2, <2>3
<1>9. CASE outcome \in ChangeASCIIInteger(len)
    <2>1. CASE outcome = Unchanged(Created(len))
        BY <1>1, <2>1
    <2>2. CASE outcome # Unchanged(Created(len))
        <3>1. PICK start \in 0..len, digits \in 1..len, written \in 1..Digits :
                  /\ start + digits <= len
                  /\ outcome = WriteInteger(len, start, digits, written)
            BY <1>9, <2>2 DEF ChangeASCIIInteger
        <3>2. CASE written > digits
            BY <3>1, <3>2 DEF WriteInteger, Safe, InBounds, Reaching
        <3>3. CASE ~(written > digits)
            BY <3>1, <3>3 DEF WriteInteger, Safe, InBounds, Reaching
        <3>. QED
            BY <3>2, <3>3
    <2>. QED
        BY <2>1, <2>2
<1>10. CASE outcome \in FlipBit(len) \union ChangeByte(len) \union InsertByte(len)
    BY <1>2, <1>3, <1>10 DEF FlipBit, ChangeByte, InsertByte
<1>. QED
    BY <1>4, <1>5, <1>6, <1>7, <1>8, <1>9, <1>10 DEF Mutated

\* No cross-over of two buffers of any lengths leaves the child or a parent, and
\* the child is as long as the one it is a clone of.
THEOREM CrossOversSafe ==
    ASSUME NEW child \in Nat, NEW parents \in [1..2 -> Nat],
           NEW outcome \in Crossed(child, parents)
    PROVE  InBounds(outcome) /\ outcome.buffer.length = child
<1>. USE BufferSizes
<1>1. CASE outcome \in PointOrUniform(child, parents)
    <2>1. PICK taken \in [0..(child - 1) -> 1..2] :
              outcome = [buffer |-> Created(child),
                         accesses |-> UNION {TakenByte(child, parents[taken[i]], i) :
                                                i \in 0..(child - 1)}]
        BY <1>1 DEF PointOrUniform
    <2>2. ASSUME NEW a \in outcome.accesses
          PROVE  a.reach <= a.capacity
        <3>1. PICK i \in 0..(child - 1) : a \in TakenByte(child, parents[taken[i]], i)
            BY <2>1, <2>2
        <3>2. parents[taken[i]] \in Nat
            BY <2>1
        <3>. QED
            BY <3>1, <3>2 DEF TakenByte, Reaching
    <2>. QED
        BY <2>1, <2>2 DEF InBounds
<1>2. CASE outcome \in NPoints(child, parents)
    <2>1. CASE Segment > child
        BY <1>2, <2>1 DEF NPoints, Unchanged, InBounds
    <2>2. CASE ~(Segment > child)
        <3>0. PICK taken \in Cuts(child) : outcome = CutAt(child, parents, taken)
            BY <1>2, <2>2 DEF NPoints
        <3>1. PICK points \in SUBSET (0..(child - 1)) : taken \in [points -> 1..2]
            BY DEF Cuts
        <3>2. ASSUME NEW a \in outcome.accesses
              PROVE  a.reach <= a.capacity
            <4>1. PICK to \in points :
                      a \in {Reaching(Created(child), to)}
                           \union IF to <= parents[taken[to]]
                                  THEN {Reaching(Created(parents[taken[to]]), to)} ELSE {}
                BY <3>0, <3>1, <3>2 DEF CutAt
            <4>2. parents[taken[to]] \in Nat /\ to \in Nat /\ to <= child
                BY <3>1, <4>1
            <4>. QED
                BY <4>1, <4>2 DEF Reaching
        <3>. QED
            BY <3>0, <3>2 DEF InBounds, CutAt
    <2>. QED
        BY <2>1, <2>2
<1>. QED
    BY <1>1, <1>2 DEF Crossed

(***************************************************************************)
(* The inductive invariant                                                 *)
(***************************************************************************)

\* A slot that has not been created has no count.
Uncreated == \A s \in Slot : s >= next_index => refs[s] = 0

\* The seeds are held twice, all the time.
SeedsHeld == \A i \in 1..Seeds : Held(Seed(i)) /\ holds[Value(i)] = holds[Seed(i)]

\* The locals of evolve() and of get_and_mutate() exist in their scope only.
LocalsScoped ==
    /\ Held(Child) => pc \in {"mutate", "again", "retry", "push", "pushed", "release"}
    /\ Held(Source) => pc \in {"mutate", "again", "retry", "push"}
    /\ Held(Mutant) <=> pc \in {"retry", "push", "pushed"}
    /\ pc = "release" => Held(Child)

\* What get_and_mutate is called with is there.
OriginalHeld ==
    pc \in {"mutate", "again", "retry"} /\ ~Held(Child) /\ ~Held(Source)
        => at \in 1..MaxDrawn /\ Held(Drawn(at))

\* The vectors hold an individual at each index up to their size. While the
\* population is assigned it is neither the old one nor the new one.
VectorsFilled ==
    /\ count <= MaxNew /\ size <= MaxNew /\ chosen <= MaxDrawn
    /\ pc \in {"mutate", "again", "retry", "push"} => count < MaxNew
    /\ pc = "insert" => at <= size
    /\ \A i \in 1..MaxNew : Held(New(i)) <=> i <= count
    /\ \A i \in 1..MaxDrawn : Held(Drawn(i)) <=> i <= chosen
    /\ pc # "assign" => \A i \in 1..size : Held(Ind(i))

\* assign() fills one storage from new_individuals, and leaves the other empty.
Assigning ==
    /\ at \in Nat \ {0}
    /\ pc = "assign" => loop = "assign"
    /\ pc = "assign" =>
          \A i \in 1..MaxNew : i < at /\ i <= count => holds[Stored(into, i)] = holds[New(i)]
    /\ \A i \in 1..MaxNew :
          Held(Stored(Other(live), i)) => pc = "assign" /\ into = Other(live) /\ i <= count
    /\ \A i \in 1..MaxNew :
          Held(Ind(i)) => i <= size \/ (pc = "assign" /\ into = live /\ i <= count)

\* What force_clean() does not look at is gone, or shared with the population.
ReadyToClean ==
    /\ pc \in {"run", "rank", "insert", "clean", "cleaned"} => chosen = 0
    /\ pc \in {"run", "rank", "insert"} => count = 0
    /\ loop \in {"mates", "reinject"} => chosen = 0
    /\ loop = "assign" /\ ~perturbing => chosen = 0
    /\ loop \in {"seeds", "cross"} => perturbing
    /\ pc = "clean" => \A i \in 1..count : holds[Ind(i)] = holds[New(i)]

\* What has been cleaned stays clean.
Cleaned ==
    pc \in {"cleaned", "run"} => \A s \in Slot : refs[s] > 0 => s \in Active

\* The memory is of its type, and its counts cover the individuals.
MemoryOK ==
    /\ refs \in [Slot -> Nat]
    /\ length \in [Slot -> Nat]
    /\ next_index \in 1..(MaxSlots + 1)
    /\ holds \in [Place -> Slot \union {UNINIT_INDEX}]
    /\ RefsCover
    /\ Uncreated

\* The types of what is not memory, and what it says of the places.
ControlInv ==
    /\ live \in Storage /\ into \in Storage
    /\ size \in Nat /\ count \in Nat /\ at \in Nat /\ chosen \in Nat /\ generations \in Nat
    /\ pc \in {"run", "rank", "insert", "next", "mutate", "again", "retry", "push",
               "pushed", "release", "assign", "perturbed", "clean", "cleaned"}
    /\ loop \in {"none", "mates", "reinject", "draw", "seeds", "drawn", "cross", "remaining",
                 "forget", "assign"}
    /\ perturbing \in BOOLEAN
    /\ overran = FALSE
    /\ SeedsHeld /\ LocalsScoped /\ OriginalHeld
    /\ VectorsFilled /\ Assigning /\ ReadyToClean

IInv == MemoryOK /\ ControlInv /\ Cleaned /\ OwnBuffer /\ NeverEmptied

(***************************************************************************)
(* Places and their holders                                                *)
(***************************************************************************)

LEMMA MemoryConstants ==
    /\ Seeds \in Nat /\ MinSize \in Nat /\ BestSize \in Nat /\ MaxNew \in Nat
    /\ MaxDrawn \in Nat /\ MaxGenerations \in Nat /\ MaxSlots \in Nat /\ MaxLength \in Nat
    /\ SeedLengths \subseteq Nat /\ Seeds <= MaxNew /\ Seeds <= MaxSlots
    /\ Slot \subseteq Nat /\ UNINIT_INDEX \notin Slot /\ UNINIT_INDEX = 0
BY IndividualMemoryAssumption DEF Slot, UNINIT_INDEX

\* There are finitely many individuals at a time.
LEMMA FinitePlaces == IsFiniteSet(Place)
<1>1. IsFiniteSet(1..Seeds) /\ IsFiniteSet(1..(BestSize + 1))
      /\ IsFiniteSet(1..MaxNew) /\ IsFiniteSet(1..MaxDrawn)
    BY MemoryConstants, FS_Interval
<1>2. \A x : IsFiniteSet({x})
    BY FS_Singleton
<1>3. \A S, T : IsFiniteSet(S) /\ IsFiniteSet(T) => IsFiniteSet(S \union T)
    BY FS_Union
<1>4. \A S, T : IsFiniteSet(S) /\ IsFiniteSet(T) => IsFiniteSet(S \X T)
    BY FS_Product
<1>5. {"value", "seed"} = {"value"} \union {"seed"}
      /\ Storage \union {"new"} = ({"front"} \union {"back"}) \union {"new"}
      /\ {Child, Source, Mutant} = ({Child} \union {Source}) \union {Mutant}
    BY DEF Storage
<1>6. IsFiniteSet({"value", "seed"}) /\ IsFiniteSet(Storage \union {"new"})
      /\ IsFiniteSet({Child, Source, Mutant}) /\ IsFiniteSet({"best"}) /\ IsFiniteSet({"drawn"})
    <2>1. /\ IsFiniteSet({"value"}) /\ IsFiniteSet({"seed"}) /\ IsFiniteSet({"front"})
          /\ IsFiniteSet({"back"}) /\ IsFiniteSet({"new"}) /\ IsFiniteSet({"best"})
          /\ IsFiniteSet({"drawn"})
          /\ IsFiniteSet({Child}) /\ IsFiniteSet({Source}) /\ IsFiniteSet({Mutant})
        BY <1>2
    <2>2. /\ IsFiniteSet({"value"} \union {"seed"})
          /\ IsFiniteSet({"front"} \union {"back"})
          /\ IsFiniteSet({Child} \union {Source})
        BY <1>3, <2>1
    <2>3. /\ IsFiniteSet(({"front"} \union {"back"}) \union {"new"})
          /\ IsFiniteSet(({Child} \union {Source}) \union {Mutant})
        BY <1>3, <2>1, <2>2
    <2>. QED
        BY <1>5, <2>1, <2>2, <2>3
<1>7. /\ IsFiniteSet({"value", "seed"} \X (1..Seeds))
      /\ IsFiniteSet({"best"} \X (1..(BestSize + 1)))
      /\ IsFiniteSet((Storage \union {"new"}) \X (1..MaxNew))
      /\ IsFiniteSet({"drawn"} \X (1..MaxDrawn))
    BY <1>1, <1>4, <1>6
<1>. QED
    BY <1>3, <1>6, <1>7 DEF Place

\* Which places there are.
LEMMA Places ==
    /\ \A i \in 1..Seeds : Value(i) \in Place /\ Seed(i) \in Place
    /\ \A i \in 1..(BestSize + 1) : BestInd(i) \in Place
    /\ \A i \in 1..MaxNew : New(i) \in Place /\ \A storage \in Storage : Stored(storage, i) \in Place
    /\ \A i \in 1..MaxDrawn : Drawn(i) \in Place
    /\ Child \in Place /\ Source \in Place /\ Mutant \in Place
BY DEF Place, Value, Seed, BestInd, New, Drawn, Stored, Child, Source, Mutant

\* And that they are different ones.
LEMMA PlacesDiffer ==
    /\ Child # Source /\ Child # Mutant /\ Source # Mutant
    /\ \A i, j : i # j => New(i) # New(j) /\ Drawn(i) # Drawn(j)
    /\ \A i, j : New(i) # Drawn(j) /\ New(i) # BestInd(j) /\ Drawn(i) # BestInd(j)
    /\ \A i : /\ Child # New(i) /\ Child # Drawn(i) /\ Child # BestInd(i)
              /\ Source # New(i) /\ Source # Drawn(i) /\ Source # BestInd(i)
              /\ Mutant # New(i) /\ Mutant # Drawn(i) /\ Mutant # BestInd(i)
    /\ \A storage \in Storage : \A i :
          /\ Stored(storage, i) # Child /\ Stored(storage, i) # Source
          /\ Stored(storage, i) # Mutant
    /\ \A storage \in Storage : \A i, j :
          /\ Stored(storage, i) # New(j) /\ Stored(storage, i) # Drawn(j)
          /\ Stored(storage, i) # BestInd(j)
          /\ i # j => Stored(storage, i) # Stored(storage, j)
          /\ Stored(storage, i) # Stored(Other(storage), j)
<1>. USE DEF BestInd, New, Drawn, Child, Source, Mutant, Storage, Stored, Other
<1>1. /\ Child # Source /\ Child # Mutant /\ Source # Mutant
      /\ \A i, j : i # j => New(i) # New(j) /\ Drawn(i) # Drawn(j)
    OBVIOUS
<1>2. /\ \A i, j : New(i) # Drawn(j) /\ New(i) # BestInd(j) /\ Drawn(i) # BestInd(j)
      /\ \A i : /\ Child # New(i) /\ Child # Drawn(i) /\ Child # BestInd(i)
                /\ Source # New(i) /\ Source # Drawn(i) /\ Source # BestInd(i)
                /\ Mutant # New(i) /\ Mutant # Drawn(i) /\ Mutant # BestInd(i)
    OBVIOUS
<1>3. ASSUME NEW storage \in Storage, NEW i
      PROVE  /\ Stored(storage, i) # Child /\ Stored(storage, i) # Source
             /\ Stored(storage, i) # Mutant
    OBVIOUS
<1>4. ASSUME NEW storage \in Storage, NEW i, NEW j
      PROVE  /\ Stored(storage, i) # New(j) /\ Stored(storage, i) # Drawn(j)
             /\ Stored(storage, i) # BestInd(j)
             /\ i # j => Stored(storage, i) # Stored(storage, j)
             /\ Stored(storage, i) # Stored(Other(storage), j)
    OBVIOUS
<1>. HIDE DEF BestInd, New, Drawn, Child, Source, Mutant, Storage, Stored, Other
<1>. QED
    BY <1>1, <1>2, <1>3, <1>4

\* A place of something else than a seed.
NotSeed(p) == \A i \in 1..Seeds : p # Seed(i) /\ p # Value(i)

LEMMA NotSeeds ==
    /\ NotSeed(Child) /\ NotSeed(Source) /\ NotSeed(Mutant)
    /\ \A i : NotSeed(New(i)) /\ NotSeed(Drawn(i)) /\ NotSeed(BestInd(i))
    /\ \A storage \in Storage : \A i : NotSeed(Stored(storage, i))
BY DEF NotSeed, Value, Seed, BestInd, New, Drawn, Stored, Storage, Child, Source, Mutant

LEMMA FiniteHolders ==
    ASSUME NEW s
    PROVE  /\ IsFiniteSet(Holders(s)) /\ Cardinality(Holders(s)) \in Nat
           /\ Cardinality(Holders(s)) = 0 <=> Holders(s) = {}
<1>1. Holders(s) \in SUBSET Place
    BY DEF Holders
<1>2. IsFiniteSet(Holders(s))
    BY <1>1, FinitePlaces, FS_Subset
<1>. QED
    BY <1>2, FS_CardinalityType, FS_EmptySet

\* What an individual holds is there.
LEMMA HeldAllocated ==
    ASSUME MemoryOK, NEW p \in Place, Held(p)
    PROVE  /\ holds[p] \in Slot /\ refs[holds[p]] > 0 /\ refs[holds[p]] \in Nat
           /\ length[holds[p]] \in Nat
           /\ next_index \in Nat /\ holds[p] < next_index
<1>1. holds[p] \in Slot /\ holds[p] \in Nat /\ next_index \in Nat
      /\ refs[holds[p]] \in Nat /\ length[holds[p]] \in Nat
    <2>1. holds[p] \in Slot
        BY DEF MemoryOK, Held
    <2>2. next_index \in Nat
        BY MemoryConstants DEF MemoryOK
    <2>. QED
        BY <2>1, <2>2, MemoryConstants DEF MemoryOK
<1>2. Holders(holds[p]) # {}
    BY DEF Holders
<1>3. Cardinality(Holders(holds[p])) \in Nat /\ Cardinality(Holders(holds[p])) # 0
    BY <1>2, FiniteHolders
<1>4. refs[holds[p]] > 0
    BY <1>1, <1>3 DEF MemoryOK, RefsCover
<1>. QED
    BY <1>1, <1>4 DEF MemoryOK, Uncreated

\* A slot without a count has no holder.
LEMMA Unheld ==
    ASSUME MemoryOK, NEW s \in Slot, refs[s] = 0
    PROVE  Holders(s) = {}
<1>1. Cardinality(Holders(s)) \in Nat /\ Cardinality(Holders(s)) <= 0
    BY FiniteHolders DEF MemoryOK, RefsCover
<1>. QED
    BY <1>1, FiniteHolders

\* How the holders of a slot change when one place does.
LEMMA HoldersOfChanged ==
    ASSUME NEW p, NEW s, holds' = [holds EXCEPT ![p] = s],
           holds \in [Place -> Slot \union {UNINIT_INDEX}], NEW t
    PROVE  /\ Holders(t)' \subseteq Holders(t) \union {p}
           /\ t # s => Holders(t)' = Holders(t) \ {p}
           /\ IsFiniteSet(Holders(t)') /\ Cardinality(Holders(t)') \in Nat
           /\ Cardinality(Holders(t)') <= Cardinality(Holders(t)) + 1
           /\ t # s => Cardinality(Holders(t)') <= Cardinality(Holders(t))
           /\ t # s /\ p \in Holders(t)
                => Cardinality(Holders(t)') = Cardinality(Holders(t)) - 1
<1>1. Holders(t)' = {q \in Place : holds'[q] = t}
    BY DEF Holders
<1>2. \A q \in Place : holds'[q] = IF q = p THEN s ELSE holds[q]
    OBVIOUS
<1>3. Holders(t)' \subseteq Holders(t) \union {p}
    BY <1>1, <1>2 DEF Holders
<1>4. t # s => Holders(t)' = Holders(t) \ {p}
    BY <1>1, <1>2 DEF Holders
<1>5. /\ IsFiniteSet(Holders(t)) /\ Cardinality(Holders(t)) \in Nat
      /\ IsFiniteSet(Holders(t) \union {p})
      /\ Cardinality(Holders(t) \union {p}) <= Cardinality(Holders(t)) + 1
    <2>1. IsFiniteSet(Holders(t)) /\ Cardinality(Holders(t)) \in Nat
        BY FiniteHolders
    <2>2. /\ IsFiniteSet(Holders(t) \union {p})
          /\ Cardinality(Holders(t) \union {p}) = IF p \in Holders(t) THEN Cardinality(Holders(t))
                                                 ELSE Cardinality(Holders(t)) + 1
        BY <2>1, FS_AddElement
    <2>. QED
        BY <2>1, <2>2
<1>6. /\ IsFiniteSet(Holders(t)') /\ Cardinality(Holders(t)') \in Nat
      /\ Cardinality(Holders(t)') <= Cardinality(Holders(t) \union {p})
    BY <1>3, <1>5, FS_Subset, FS_CardinalityType
<1>7. t # s => Cardinality(Holders(t)') = IF p \in Holders(t)
                  THEN Cardinality(Holders(t)) - 1 ELSE Cardinality(Holders(t))
    BY <1>4, <1>5, FS_RemoveElement
<1>8. Cardinality(Holders(t) \union {p}) \in Nat
    BY <1>5, FS_CardinalityType
<1>. QED
    BY <1>3, <1>4, <1>5, <1>6, <1>7, <1>8

(***************************************************************************)
(* The operations on one individual                                        *)
(***************************************************************************)

\* The other places keep what they hold.
OnlyChanged(p) == \A q \in Place : q # p => holds'[q] = holds[q]

\* A copy of an individual that is there: one holder and one count more, and
\* what the place held before has one holder less.
LEMMA CopyKeeps ==
    ASSUME MemoryOK, NEW p \in Place, NEW s \in Slot, refs[s] > 0, Copy(p, s)
    PROVE  /\ MemoryOK' /\ OnlyChanged(p) /\ holds'[p] = s
           /\ length' = length
           /\ \A t \in Slot : refs'[t] > 0 <=> refs[t] > 0
<1>1. /\ refs \in [Slot -> Nat] /\ holds \in [Place -> Slot \union {UNINIT_INDEX}]
      /\ refs' = [t \in Slot |-> IF t = s /\ refs[t] > 0 THEN refs[t] + 1 ELSE refs[t]]
      /\ holds' = [holds EXCEPT ![p] = s]
    BY DEF MemoryOK, Copy, CountOfCopy, Increased
<1>2. /\ refs' \in [Slot -> Nat] /\ holds' \in [Place -> Slot \union {UNINIT_INDEX}]
      /\ OnlyChanged(p) /\ holds'[p] = s
      /\ \A t \in Slot : refs'[t] > 0 <=> refs[t] > 0
    BY <1>1 DEF OnlyChanged
<1>3. RefsCover'
    <2>1. ASSUME NEW t \in Slot
          PROVE  Cardinality(Holders(t)') <= refs'[t]
        <3>1. /\ Cardinality(Holders(t)) \in Nat /\ Cardinality(Holders(t)') \in Nat
              /\ Cardinality(Holders(t)') <= Cardinality(Holders(t)) + 1
              /\ t # s => Cardinality(Holders(t)') <= Cardinality(Holders(t))
            BY <1>1, HoldersOfChanged, FiniteHolders
        <3>2. Cardinality(Holders(t)) <= refs[t] /\ refs[t] \in Nat
            BY <1>1 DEF MemoryOK, RefsCover
        <3>3. refs'[t] = IF t = s THEN refs[t] + 1 ELSE refs[t]
            BY <1>1
        <3>. QED
            BY <3>1, <3>2, <3>3
    <2>. QED
        BY <2>1 DEF RefsCover
<1>4. Uncreated'
    BY <1>1, <1>2 DEF Uncreated, MemoryOK, Copy
<1>. QED
    BY <1>2, <1>3, <1>4 DEF MemoryOK, Copy

\* A destruction: one holder and one count less.
LEMMA DestroyKeeps ==
    ASSUME MemoryOK, NEW p \in Place, Held(p), Destroy(p)
    PROVE  /\ MemoryOK' /\ OnlyChanged(p) /\ holds'[p] = UNINIT_INDEX
           /\ \A t \in Slot : refs'[t] > 0 => refs[t] > 0 /\ length'[t] = length[t]
           /\ \A t \in Slot : length'[t] > 0 => length'[t] = length[t]
<1>. DEFINE s == holds[p]
<1>1. /\ refs \in [Slot -> Nat] /\ holds \in [Place -> Slot \union {UNINIT_INDEX}]
      /\ length \in [Slot -> Nat]
      /\ refs' = [t \in Slot |-> IF t = s /\ refs[t] > 0 THEN refs[t] - 1 ELSE refs[t]]
      /\ holds' = [holds EXCEPT ![p] = UNINIT_INDEX]
      /\ length' = [t \in Slot |-> IF refs'[t] > 0 THEN length[t] ELSE 0]
    BY DEF MemoryOK, Destroy, Decreased, LengthsOf
<1>2. /\ refs' \in [Slot -> Nat] /\ holds' \in [Place -> Slot \union {UNINIT_INDEX}]
      /\ length' \in [Slot -> Nat]
      /\ OnlyChanged(p) /\ holds'[p] = UNINIT_INDEX
      /\ \A t \in Slot : refs'[t] > 0 => refs[t] > 0 /\ length'[t] = length[t]
      /\ \A t \in Slot : length'[t] > 0 => length'[t] = length[t]
    BY <1>1 DEF OnlyChanged
<1>3. s \in Slot /\ refs[s] > 0
    BY HeldAllocated
<1>4. RefsCover'
    <2>1. ASSUME NEW t \in Slot
          PROVE  Cardinality(Holders(t)') <= refs'[t]
        <3>0. t # UNINIT_INDEX /\ (t = s => p \in Holders(t))
            BY MemoryConstants DEF Holders
        <3>1. /\ Cardinality(Holders(t)) \in Nat /\ Cardinality(Holders(t)') \in Nat
              /\ Cardinality(Holders(t)') <= Cardinality(Holders(t))
              /\ t = s => Cardinality(Holders(t)') = Cardinality(Holders(t)) - 1
            BY <1>1, <3>0, HoldersOfChanged, FiniteHolders
        <3>2. Cardinality(Holders(t)) <= refs[t] /\ refs[t] \in Nat
            BY <1>1 DEF MemoryOK, RefsCover
        <3>3. refs'[t] = IF t = s THEN refs[t] - 1 ELSE refs[t]
            BY <1>1, <1>3
        <3>. QED
            BY <3>1, <3>2, <3>3
    <2>. QED
        BY <2>1 DEF RefsCover
<1>5. Uncreated'
    BY <1>1, <1>2 DEF Uncreated, MemoryOK, Destroy
<1>. QED
    BY <1>2, <1>4, <1>5 DEF MemoryOK, Destroy

\* A clone into an empty place: a new slot with the one holder.
LEMMA CloneKeeps ==
    ASSUME MemoryOK, NEW p \in Place, ~Held(p), NEW s \in Slot, refs[s] > 0,
           NEW len \in Nat, Clone(p, s, len)
    PROVE  /\ MemoryOK' /\ OnlyChanged(p) /\ holds'[p] = next_index
           /\ next_index \in Slot /\ refs[next_index] = 0
           /\ Holders(holds[p])' = {p}
           /\ \A q \in Place : q # p => holds[q] # next_index
           /\ length'[next_index] = len
           /\ \A t \in Slot : t # next_index =>
                  length'[t] = length[t] /\ (refs'[t] > 0 <=> refs[t] > 0)
<1>1. /\ refs \in [Slot -> Nat] /\ holds \in [Place -> Slot \union {UNINIT_INDEX}]
      /\ length \in [Slot -> Nat] /\ next_index \in 1..(MaxSlots + 1)
      /\ next_index <= MaxSlots /\ next_index' = next_index + 1
      /\ refs' = [[t \in Slot |-> IF t = s /\ refs[t] > 0 THEN refs[t] + 1 ELSE refs[t]]
                    EXCEPT ![next_index] = 1]
      /\ holds' = [holds EXCEPT ![p] = next_index]
      /\ length' = [length EXCEPT ![next_index] = len]
    BY DEF MemoryOK, Clone, SlotOfCopy, Increased
<1>2. /\ next_index \in Slot /\ next_index \in Nat
      /\ next_index + 1 \in 1..(MaxSlots + 1)
    BY <1>1, MemoryConstants DEF Slot
<1>3. refs[next_index] = 0
    BY <1>2 DEF MemoryOK, Uncreated
<1>4. /\ refs' \in [Slot -> Nat] /\ holds' \in [Place -> Slot \union {UNINIT_INDEX}]
      /\ length' \in [Slot -> Nat]
      /\ OnlyChanged(p) /\ holds'[p] = next_index
      /\ length'[next_index] = len /\ refs'[next_index] = 1
      /\ \A t \in Slot : t # next_index =>
             /\ length'[t] = length[t] /\ (refs'[t] > 0 <=> refs[t] > 0)
             /\ refs'[t] >= refs[t]
    BY <1>1, <1>2 DEF OnlyChanged
<1>5. Holders(next_index) = {}
    BY <1>2, <1>3, Unheld
<1>6. /\ \A q \in Place : holds'[q] = next_index <=> q = p
      /\ \A q \in Place : q # p => holds[q] # next_index
    BY <1>4, <1>5 DEF Holders, OnlyChanged
<1>9. Holders(holds[p])' = {p}
    BY <1>4, <1>6 DEF Holders
<1>7. RefsCover'
    <2>1. ASSUME NEW t \in Slot
          PROVE  Cardinality(Holders(t)') <= refs'[t]
        <3>1. CASE t = next_index
            <4>1. Holders(t)' = {p}
                BY <1>6, <3>1 DEF Holders
            <4>2. Cardinality(Holders(t)') = 1
                BY <4>1, FS_Singleton
            <4>. QED
                BY <1>4, <3>1, <4>2
        <3>2. CASE t # next_index
            <4>1. /\ Cardinality(Holders(t)) \in Nat /\ Cardinality(Holders(t)') \in Nat
                  /\ Cardinality(Holders(t)') <= Cardinality(Holders(t))
                BY <1>1, <3>2, HoldersOfChanged, FiniteHolders
            <4>2. Cardinality(Holders(t)) <= refs[t] /\ refs[t] \in Nat /\ refs'[t] \in Nat
                BY <1>1, <1>4 DEF MemoryOK, RefsCover
            <4>. QED
                BY <1>4, <3>2, <4>1, <4>2
        <3>. QED
            BY <3>1, <3>2
    <2>. QED
        BY <2>1 DEF RefsCover
<1>8. Uncreated'
    <2>1. ASSUME NEW t \in Slot, t >= next_index + 1
          PROVE  refs'[t] = 0
        <3>1. t \in Nat /\ t # next_index /\ t >= next_index
            BY <1>2, <2>1, MemoryConstants
        <3>2. refs[t] = 0
            BY <3>1 DEF MemoryOK, Uncreated
        <3>. QED
            BY <1>4, <3>1, <3>2
    <2>. QED
        BY <1>1, <2>1 DEF Uncreated
<1>. QED
    BY <1>1, <1>2, <1>3, <1>4, <1>6, <1>7, <1>8, <1>9 DEF MemoryOK

(***************************************************************************)
(* The steps of a generation                                               *)
(***************************************************************************)

\* Steps that leave the memory alone.
LEMMA QuietSteps ==
    ASSUME IInv, UNCHANGED memory_vars,
           \/ Evolve \/ Refuse \/ EraseWorst \/ Ranked \/ TakeDrawn \/ NextLoop
           \/ AssignBegin \/ Perturbed \/ Return
    PROVE  ControlInv'
<1>. USE MemoryConstants
     DEF IInv, ControlInv, SeedsHeld, LocalsScoped, OriginalHeld, VectorsFilled, Assigning,
         ReadyToClean, Held, Goto, memory_vars, loop_vars, vector_vars, other_vars,
         Ind
<1>1. CASE Evolve
    BY <1>1 DEF Evolve
<1>2. CASE Refuse
    BY <1>2 DEF Refuse
<1>3. CASE EraseWorst
    BY <1>3 DEF EraseWorst
<1>4. CASE Ranked
    BY <1>4 DEF Ranked
<1>5. CASE TakeDrawn
    <2>1. at \in 1..MaxDrawn /\ at <= chosen
        BY <1>5 DEF TakeDrawn
    <2>2. Held(Drawn(at))
        BY <2>1
    <2>. QED
        BY <1>5, <2>1, <2>2 DEF TakeDrawn
<1>6. CASE NextLoop
    <2>1. /\ pc = "next" /\ pc' = "next" /\ at' = 1 /\ UNCHANGED perturbing
          /\ UNCHANGED vector_vars /\ UNCHANGED other_vars
        BY <1>6 DEF NextLoop
    <2>2. SeedsHeld' /\ LocalsScoped' /\ OriginalHeld' /\ VectorsFilled' /\ Assigning'
        BY <2>1
    <2>3. loop' \in {"mates", "reinject", "draw", "seeds", "drawn", "cross", "remaining",
                    "forget", "assign"}
        BY <1>6 DEF NextLoop
    <2>4. /\ loop' \in {"mates", "reinject"} => chosen = 0
          /\ loop' = "assign" /\ ~perturbing => chosen = 0
          /\ loop' \in {"seeds", "cross"} => perturbing
        BY <1>6 DEF NextLoop
    <2>. QED
        BY <2>1, <2>2, <2>3, <2>4
<1>7. CASE AssignBegin
    <2>1. /\ pc = "next" /\ pc' = "assign" /\ loop = "assign" /\ at' = 1
          /\ into' \in Storage
          /\ UNCHANGED <<loop, perturbing, live, size, count, chosen>> /\ UNCHANGED other_vars
        BY <1>7 DEF AssignBegin, Other, Storage
    <2>2. SeedsHeld' /\ LocalsScoped' /\ OriginalHeld' /\ VectorsFilled'
        BY <2>1
    <2>3. Assigning'
        BY <2>1
    <2>4. ReadyToClean'
        BY <2>1
    <2>. QED
        BY <2>1, <2>2, <2>3, <2>4
<1>8. CASE Perturbed
    <2>1. /\ pc = "perturbed" /\ pc' = "clean" /\ count = 0 /\ chosen = 0
          /\ UNCHANGED loop_vars /\ UNCHANGED vector_vars /\ UNCHANGED other_vars
        BY <1>8 DEF Perturbed
    <2>2. SeedsHeld' /\ LocalsScoped' /\ OriginalHeld' /\ VectorsFilled' /\ Assigning'
        BY <2>1
    <2>3. ReadyToClean'
        BY <2>1
    <2>. QED
        BY <2>1, <2>2, <2>3
<1>9. CASE Return
    <2>1. /\ pc = "cleaned" /\ pc' = "run" /\ loop' = "none" /\ at' = 1 /\ count = 0
          /\ perturbing' = FALSE /\ UNCHANGED vector_vars /\ UNCHANGED other_vars
        BY <1>9 DEF Return
    <2>2. SeedsHeld' /\ LocalsScoped' /\ OriginalHeld' /\ VectorsFilled' /\ Assigning'
        BY <2>1
    <2>3. ReadyToClean'
        BY <2>1
    <2>. QED
        BY <2>1, <2>2, <2>3
<1>. QED
    BY <1>1, <1>2, <1>3, <1>4, <1>5, <1>6, <1>7, <1>8, <1>9

LEMMA QuietKeeps ==
    ASSUME IInv, UNCHANGED memory_vars,
           \/ Evolve \/ Refuse \/ EraseWorst \/ Ranked \/ TakeDrawn \/ NextLoop
           \/ AssignBegin \/ Perturbed \/ Return
    PROVE  IInv'
<1>. USE DEF IInv
<1>1. MemoryOK'
    BY DEF memory_vars, MemoryOK, RefsCover, Holders, Uncreated
<1>2. ControlInv'
    BY QuietSteps
<1>3. Cleaned'
    <2>1. CASE Return
        <3>1. pc = "cleaned" /\ UNCHANGED <<holds, refs, live>>
            BY <2>1 DEF Return, memory_vars, vector_vars
        <3>. QED
            BY <3>1 DEF Cleaned, Active, IndicesOf
    <2>2. CASE ~Return
        <3>1. pc' \notin {"cleaned", "run"}
            BY <2>2 DEF Evolve, Refuse, EraseWorst, Ranked, TakeDrawn, NextLoop, AssignBegin,
                        Perturbed, Goto
        <3>. QED
            BY <3>1 DEF Cleaned
    <2>. QED
        BY <2>1, <2>2
<1>4. OwnBuffer'
    <2>1. pc' \notin {"push", "retry"} /\ UNCHANGED holds
        BY DEF Evolve, Refuse, EraseWorst, Ranked, TakeDrawn, NextLoop, AssignBegin,
               Perturbed, Return, Goto, memory_vars
    <2>. QED
        BY <2>1 DEF OwnBuffer, Holders, Held
<1>5. NeverEmptied'
    <2>1. UNCHANGED <<refs, length, holds>> /\ NeverEmptied
        BY DEF memory_vars
    <2>. QED
        BY <2>1 DEF NeverEmptied, Seed
<1>. QED
    BY <1>1, <1>2, <1>3, <1>4, <1>5

LEMMA SeedsKept ==
    ASSUME IInv, NEW p, NotSeed(p), OnlyChanged(p)
    PROVE  /\ SeedsHeld' /\ \A i \in 1..Seeds : holds'[Seed(i)] = holds[Seed(i)]
           /\ \A i \in 1..Seeds : Held(Seed(i)) /\ Seed(i) \in Place
<1>1. \A i \in 1..Seeds : /\ Seed(i) \in Place /\ Value(i) \in Place
                          /\ holds'[Seed(i)] = holds[Seed(i)]
                          /\ holds'[Value(i)] = holds[Value(i)]
    BY Places DEF NotSeed, OnlyChanged
<1>2. SeedsHeld
    BY DEF IInv, ControlInv
<1>. QED
    BY <1>1, <1>2 DEF SeedsHeld, Held, Seed, Value

LEMMA CopyStep ==
    ASSUME IInv, NEW p \in Place, NotSeed(p), NEW q \in Place, Held(q), Copy(p, holds[q])
    PROVE  /\ MemoryOK' /\ SeedsHeld' /\ NeverEmptied'
           /\ OnlyChanged(p) /\ holds'[p] = holds[q]
<1>1. MemoryOK /\ NeverEmptied
    BY DEF IInv
<1>2. holds[q] \in Slot /\ refs[holds[q]] > 0
    BY <1>1, HeldAllocated
<1>3. /\ MemoryOK' /\ OnlyChanged(p) /\ holds'[p] = holds[q] /\ length' = length
      /\ \A t \in Slot : refs'[t] > 0 <=> refs[t] > 0
    BY <1>1, <1>2, CopyKeeps
<1>4. SeedsHeld' /\ \A i \in 1..Seeds : holds'[Seed(i)] = holds[Seed(i)]
    BY <1>3, SeedsKept
<1>5. NeverEmptied'
    BY <1>1, <1>3, <1>4 DEF NeverEmptied, Seed
<1>. QED
    BY <1>3, <1>4, <1>5

LEMMA DestroyStep ==
    ASSUME IInv, NEW p \in Place, NotSeed(p), Held(p), Destroy(p)
    PROVE  /\ MemoryOK' /\ SeedsHeld' /\ NeverEmptied'
           /\ OnlyChanged(p) /\ holds'[p] = UNINIT_INDEX
           /\ \A t \in Slot : refs'[t] > 0 => refs[t] > 0
<1>1. MemoryOK /\ NeverEmptied
    BY DEF IInv
<1>3. /\ MemoryOK' /\ OnlyChanged(p) /\ holds'[p] = UNINIT_INDEX
      /\ \A t \in Slot : refs'[t] > 0 => refs[t] > 0 /\ length'[t] = length[t]
      /\ \A t \in Slot : length'[t] > 0 => length'[t] = length[t]
    BY <1>1, DestroyKeeps
<1>4. /\ SeedsHeld' /\ \A i \in 1..Seeds : holds'[Seed(i)] = holds[Seed(i)]
      /\ \A i \in 1..Seeds : Held(Seed(i)) /\ Seed(i) \in Place
    BY <1>3, SeedsKept
<1>5. NeverEmptied'
    <2>1. \A i \in 1..Seeds : length'[holds'[Seed(i)]] > 0 => length[holds[Seed(i)]] > 0
        BY <1>1, <1>3, <1>4, HeldAllocated
    <2>. QED
        BY <1>1, <1>3, <2>1 DEF NeverEmptied, Seed
<1>. QED
    BY <1>3, <1>4, <1>5

LEMMA CloneStep ==
    ASSUME IInv, NEW p \in Place, NotSeed(p), ~Held(p), NEW q \in Place, Held(q),
           NEW len \in Nat, length[holds[q]] > 0 => len > 0, Clone(p, holds[q], len)
    PROVE  /\ MemoryOK' /\ SeedsHeld' /\ NeverEmptied'
           /\ OnlyChanged(p) /\ holds'[p] = next_index /\ Held(p)'
           /\ Holders(holds[p])' = {p}
           /\ \A r \in Place : r # p => holds[r] # next_index
<1>1. MemoryOK /\ NeverEmptied
    BY DEF IInv
<1>2. holds[q] \in Slot /\ refs[holds[q]] > 0 /\ length[holds[q]] \in Nat
    BY <1>1, HeldAllocated
<1>3. /\ MemoryOK' /\ OnlyChanged(p) /\ holds'[p] = next_index
      /\ next_index \in Slot /\ refs[next_index] = 0
      /\ Holders(holds[p])' = {p}
      /\ \A r \in Place : r # p => holds[r] # next_index
      /\ length'[next_index] = len
      /\ \A t \in Slot : t # next_index =>
            length'[t] = length[t] /\ (refs'[t] > 0 <=> refs[t] > 0)
    BY <1>1, <1>2, CloneKeeps
<1>4. /\ SeedsHeld' /\ \A i \in 1..Seeds : holds'[Seed(i)] = holds[Seed(i)]
      /\ \A i \in 1..Seeds : Held(Seed(i)) /\ Seed(i) \in Place
    BY <1>3, SeedsKept
<1>5. NeverEmptied'
    <2>1. \A i \in 1..Seeds : /\ holds[Seed(i)] \in Slot
                              /\ holds[Seed(i)] # next_index
        BY <1>1, <1>3, <1>4, HeldAllocated
    <2>2. \A i \in 1..Seeds : length'[holds'[Seed(i)]] = length[holds[Seed(i)]]
        BY <1>3, <1>4, <2>1
    <2>3. ASSUME \A i \in 1..Seeds : length'[holds'[Seed(i)]] > 0, NEW t \in Slot, refs'[t] > 0
          PROVE  length'[t] > 0
        <3>1. \A u \in Slot : refs[u] > 0 => length[u] > 0
            BY <1>1, <2>2, <2>3 DEF NeverEmptied
        <3>. QED
            BY <1>2, <1>3, <2>3, <3>1
    <2>. QED
        BY <2>3 DEF NeverEmptied, Seed
<1>6. Held(p)'
    BY <1>3, MemoryConstants DEF Held
<1>. QED
    BY <1>3, <1>4, <1>5, <1>6

\* The steps that copy an individual.
LEMMA PushBackKeeps ==
    ASSUME IInv, PushBack
    PROVE  IInv'
<1>. DEFINE p == New(count + 1)
<1>. USE MemoryConstants, Places, PlacesDiffer, NotSeeds
<1>1. /\ pc = "push" /\ pc' = "pushed" /\ count' = count + 1 /\ ~Held(Source)
      /\ Copy(p, holds[Mutant])
      /\ UNCHANGED <<loop, perturbing, at, live, size, chosen, into, generations, overran>>
    BY DEF PushBack, loop_vars, other_vars
<1>2. /\ Held(Mutant) /\ count \in Nat /\ count < MaxNew /\ p \in Place /\ NotSeed(p)
    BY <1>1 DEF IInv, ControlInv, LocalsScoped, VectorsFilled
<1>3. /\ MemoryOK' /\ SeedsHeld' /\ NeverEmptied'
      /\ OnlyChanged(p) /\ holds'[p] = holds[Mutant]
    BY <1>1, <1>2, CopyStep
<1>4. LocalsScoped' /\ OriginalHeld'
    BY <1>1, <1>2, <1>3 DEF IInv, ControlInv, LocalsScoped, OriginalHeld, OnlyChanged, Held
<1>5. VectorsFilled'
    BY <1>1, <1>2, <1>3 DEF IInv, ControlInv, VectorsFilled, OnlyChanged, Held, Ind
<1>6. Assigning'
    BY <1>1, <1>2, <1>3 DEF IInv, ControlInv, Assigning, OnlyChanged, Held, Ind, Storage, Other
<1>7. ReadyToClean'
    BY <1>1, <1>2, <1>3 DEF IInv, ControlInv, ReadyToClean
<1>8. ControlInv'
    BY <1>1, <1>2, <1>3, <1>4, <1>5, <1>6, <1>7 DEF IInv, ControlInv
<1>9. Cleaned'
    BY <1>1 DEF Cleaned
<1>10. OwnBuffer'
    <2>1. /\ Holders(holds[Mutant]) = {Mutant}
          /\ Held(Child) => Holders(holds[Child]) = {Child}
        BY <1>1 DEF IInv, OwnBuffer
    <2>2. Held(Child) => holds[Child] # holds[Mutant]
        BY <2>1 DEF Holders
    <2>. QED
        BY <1>1, <1>2, <1>3, <2>1, <2>2 DEF OwnBuffer, Holders, Held, OnlyChanged
<1>. QED
    BY <1>3, <1>8, <1>9, <1>10 DEF IInv

LEMMA TakeIndividualKeeps ==
    ASSUME IInv, TakeIndividual
    PROVE  IInv'
<1>. USE MemoryConstants, Places, PlacesDiffer, NotSeeds
<1>1. /\ pc = "next" /\ pc' = "mutate" /\ count < MaxNew
      /\ UNCHANGED <<loop_vars, vector_vars, other_vars>>
    BY DEF TakeIndividual
<1>2. PICK i \in 1..size : Copy(Source, holds[Ind(i)])
    BY DEF TakeIndividual
<1>3. Ind(i) \in Place /\ Held(Ind(i))
    BY <1>1 DEF IInv, ControlInv, VectorsFilled, Ind
<1>4. /\ MemoryOK' /\ SeedsHeld' /\ NeverEmptied'
      /\ OnlyChanged(Source) /\ holds'[Source] = holds[Ind(i)]
    BY <1>2, <1>3, CopyStep
<1>. USE DEF loop_vars, vector_vars, other_vars
<1>5. LocalsScoped' /\ OriginalHeld'
    BY <1>1, <1>3, <1>4 DEF IInv, ControlInv, LocalsScoped, OriginalHeld, OnlyChanged, Held
<1>6. VectorsFilled'
    BY <1>1, <1>4 DEF IInv, ControlInv, VectorsFilled, OnlyChanged, Held, Ind
<1>7. Assigning'
    BY <1>1, <1>4 DEF IInv, ControlInv, Assigning, OnlyChanged, Held, Ind, Storage, Other
<1>8. ReadyToClean'
    BY <1>1 DEF IInv, ControlInv, ReadyToClean
<1>9. ControlInv'
    BY <1>1, <1>4, <1>5, <1>6, <1>7, <1>8 DEF IInv, ControlInv
<1>10. Cleaned'
    BY <1>1 DEF Cleaned
<1>11. OwnBuffer'
    BY <1>1, <1>4 DEF IInv, ControlInv, LocalsScoped, OwnBuffer, OnlyChanged, Held
<1>. QED
    BY <1>4, <1>9, <1>10, <1>11 DEF IInv

\* The place the next of the best individuals is copied to is a new one.
LEMMA InsertBestKeeps ==
    ASSUME IInv, InsertBest
    PROVE  IInv'
<1>. USE MemoryConstants, Places, PlacesDiffer, NotSeeds
<1>1. /\ pc = "insert" /\ pc' = "rank" /\ loop' = "none" /\ at' = at + 1
      /\ UNCHANGED <<perturbing, vector_vars, other_vars>>
    BY DEF InsertBest, Goto
<1>2. PICK i \in 1..(BestSize + 1) : Copy(BestInd(i), holds[Ind(at)])
    BY DEF InsertBest
<1>3. Ind(at) \in Place /\ Held(Ind(at)) /\ BestInd(i) \in Place /\ NotSeed(BestInd(i))
    BY <1>1 DEF IInv, ControlInv, VectorsFilled, Assigning, Ind
<1>4. /\ MemoryOK' /\ SeedsHeld' /\ NeverEmptied'
      /\ OnlyChanged(BestInd(i)) /\ holds'[BestInd(i)] = holds[Ind(at)]
    BY <1>2, <1>3, CopyStep
<1>. USE DEF vector_vars, other_vars
<1>5. LocalsScoped' /\ OriginalHeld'
    BY <1>1, <1>3, <1>4 DEF IInv, ControlInv, LocalsScoped, OriginalHeld, OnlyChanged, Held
<1>6. VectorsFilled'
    BY <1>1, <1>4 DEF IInv, ControlInv, VectorsFilled, OnlyChanged, Held, Ind
<1>7. Assigning'
    BY <1>1, <1>4 DEF IInv, ControlInv, Assigning, OnlyChanged, Held, Ind, Storage, Other
<1>8. ReadyToClean'
    BY <1>1 DEF IInv, ControlInv, ReadyToClean
<1>9. ControlInv'
    BY <1>1, <1>4, <1>5, <1>6, <1>7, <1>8 DEF IInv, ControlInv
<1>10. Cleaned'
    BY <1>1 DEF Cleaned
<1>11. OwnBuffer'
    BY <1>1, <1>3, <1>4 DEF IInv, ControlInv, LocalsScoped, OwnBuffer, OnlyChanged, Held
<1>. QED
    BY <1>4, <1>9, <1>10, <1>11 DEF IInv

LEMMA DrawBestKeeps ==
    ASSUME IInv, DrawBest
    PROVE  IInv'
<1>. DEFINE p == Drawn(chosen + 1)
<1>. USE MemoryConstants, Places, PlacesDiffer, NotSeeds
<1>1. /\ pc = "next" /\ loop = "draw" /\ chosen < MaxDrawn /\ chosen' = chosen + 1
      /\ UNCHANGED <<pc, loop_vars, live, size, count, into, other_vars>>
    BY DEF DrawBest
<1>2. PICK i \in Bests : Copy(p, holds[BestInd(i)])
    BY DEF DrawBest
<1>3. /\ BestInd(i) \in Place /\ Held(BestInd(i)) /\ chosen \in Nat /\ p \in Place /\ NotSeed(p)
    BY <1>1 DEF IInv, ControlInv, Bests
<1>4. /\ MemoryOK' /\ SeedsHeld' /\ NeverEmptied'
      /\ OnlyChanged(p) /\ holds'[p] = holds[BestInd(i)]
    BY <1>2, <1>3, CopyStep
<1>. USE DEF loop_vars, other_vars
<1>5. LocalsScoped' /\ OriginalHeld'
    BY <1>1, <1>3, <1>4 DEF IInv, ControlInv, LocalsScoped, OriginalHeld, OnlyChanged, Held
<1>6. VectorsFilled'
    BY <1>1, <1>3, <1>4 DEF IInv, ControlInv, VectorsFilled, OnlyChanged, Held, Ind
<1>7. Assigning'
    BY <1>1, <1>3, <1>4 DEF IInv, ControlInv, Assigning, OnlyChanged, Held, Ind, Storage, Other
<1>8. ReadyToClean'
    BY <1>1 DEF IInv, ControlInv, ReadyToClean
<1>9. ControlInv'
    BY <1>1, <1>3, <1>4, <1>5, <1>6, <1>7, <1>8 DEF IInv, ControlInv
<1>10. Cleaned'
    BY <1>1 DEF Cleaned
<1>11. OwnBuffer'
    BY <1>1, <1>4 DEF IInv, ControlInv, LocalsScoped, OwnBuffer, OnlyChanged, Held
<1>. QED
    BY <1>4, <1>9, <1>10, <1>11 DEF IInv

LEMMA DrawSeedKeeps ==
    ASSUME IInv, DrawSeed
    PROVE  IInv'
<1>. DEFINE p == Drawn(chosen + 1)
<1>. USE MemoryConstants, Places, PlacesDiffer, NotSeeds
<1>1. /\ pc = "next" /\ loop = "seeds" /\ at <= Seeds /\ chosen < MaxDrawn
      /\ chosen' = chosen + 1 /\ at' = at + 1
      /\ UNCHANGED <<pc, loop, perturbing, live, size, count, into, other_vars>>
      /\ Copy(p, holds[Seed(at)])
    BY DEF DrawSeed
<1>3. /\ at \in 1..Seeds /\ Seed(at) \in Place /\ Held(Seed(at))
      /\ chosen \in Nat /\ p \in Place /\ NotSeed(p)
    BY <1>1 DEF IInv, ControlInv, SeedsHeld, Assigning
<1>4. /\ MemoryOK' /\ SeedsHeld' /\ NeverEmptied'
      /\ OnlyChanged(p) /\ holds'[p] = holds[Seed(at)]
    BY <1>1, <1>3, CopyStep
<1>. USE DEF other_vars
<1>5. LocalsScoped' /\ OriginalHeld'
    BY <1>1, <1>3, <1>4 DEF IInv, ControlInv, LocalsScoped, OriginalHeld, OnlyChanged, Held
<1>6. VectorsFilled'
    BY <1>1, <1>3, <1>4 DEF IInv, ControlInv, VectorsFilled, OnlyChanged, Held, Ind
<1>7. Assigning'
    BY <1>1, <1>3, <1>4 DEF IInv, ControlInv, Assigning, OnlyChanged, Held, Ind, Storage, Other
<1>8. ReadyToClean'
    BY <1>1 DEF IInv, ControlInv, ReadyToClean
<1>9. ControlInv'
    BY <1>1, <1>3, <1>4, <1>5, <1>6, <1>7, <1>8 DEF IInv, ControlInv
<1>10. Cleaned'
    BY <1>1 DEF Cleaned
<1>11. OwnBuffer'
    BY <1>1, <1>4 DEF IInv, ControlInv, LocalsScoped, OwnBuffer, OnlyChanged, Held
<1>. QED
    BY <1>4, <1>9, <1>10, <1>11 DEF IInv

LEMMA AssignNextKeeps ==
    ASSUME IInv, AssignNext
    PROVE  IInv'
<1>. DEFINE p == Stored(into, at)
<1>. USE MemoryConstants, Places, PlacesDiffer, NotSeeds
<1>1. /\ pc = "assign" /\ at <= count /\ at' = at + 1
      /\ UNCHANGED <<pc, loop, perturbing, vector_vars, other_vars>>
      /\ Copy(p, holds[New(at)])
    BY DEF AssignNext
<1>3. /\ at \in 1..MaxNew /\ into \in Storage /\ live \in Storage /\ New(at) \in Place
      /\ Held(New(at)) /\ p \in Place /\ NotSeed(p)
    BY <1>1 DEF IInv, ControlInv, VectorsFilled, Assigning
<1>4. /\ MemoryOK' /\ SeedsHeld' /\ NeverEmptied'
      /\ OnlyChanged(p) /\ holds'[p] = holds[New(at)]
    BY <1>1, <1>3, CopyStep
<1>. USE DEF vector_vars, other_vars
<1>5. LocalsScoped' /\ OriginalHeld'
    BY <1>1, <1>3, <1>4 DEF IInv, ControlInv, LocalsScoped, OriginalHeld, OnlyChanged, Held
<1>6. VectorsFilled'
    BY <1>1, <1>3, <1>4 DEF IInv, ControlInv, VectorsFilled, OnlyChanged, Held
<1>7. Assigning'
    <2>1. \A i \in 1..MaxNew : i < at' /\ i <= count => holds'[Stored(into, i)] = holds'[New(i)]
        BY <1>1, <1>3, <1>4 DEF IInv, ControlInv, Assigning, OnlyChanged
    <2>2. \A i \in 1..MaxNew : Stored(Other(live), i) # p => holds'[Stored(Other(live), i)] = holds[Stored(Other(live), i)]
        BY <1>3, <1>4 DEF OnlyChanged, Other, Storage
    <2>3. \A i \in 1..MaxNew : Stored(live, i) # p => holds'[Stored(live, i)] = holds[Stored(live, i)]
        BY <1>3, <1>4 DEF OnlyChanged
    <2>4. ASSUME NEW i \in 1..MaxNew, holds'[Stored(Other(live), i)] # UNINIT_INDEX
          PROVE  into = Other(live) /\ i <= count
        <3>1. CASE Stored(Other(live), i) = p
            <4>1. at <= count
                BY <1>1
            <4>. QED
                BY <3>1, <4>1 DEF Stored
        <3>2. CASE Stored(Other(live), i) # p
            <4>1. holds[Stored(Other(live), i)] # UNINIT_INDEX
                BY <2>2, <2>4, <3>2
            <4>2. Assigning
                BY DEF IInv, ControlInv
            <4>. QED
                BY <4>1, <4>2 DEF Assigning, Held
        <3>. QED
            BY <3>1, <3>2
    <2>5. ASSUME NEW i \in 1..MaxNew, holds'[Stored(live, i)] # UNINIT_INDEX
          PROVE  i <= size \/ (into = live /\ i <= count)
        <3>1. CASE Stored(live, i) = p
            <4>1. at <= count
                BY <1>1
            <4>. QED
                BY <3>1, <4>1 DEF Stored
        <3>2. CASE Stored(live, i) # p
            <4>1. holds[Stored(live, i)] # UNINIT_INDEX
                BY <2>3, <2>5, <3>2
            <4>2. Assigning
                BY DEF IInv, ControlInv
            <4>. QED
                BY <4>1, <4>2 DEF Assigning, Held, Ind
        <3>. QED
            BY <3>1, <3>2
    <2>6. at' \in Nat \ {0} /\ loop' = "assign"
        BY <1>1, <1>3 DEF IInv, ControlInv, Assigning
    <2>. QED
        BY <1>1, <2>1, <2>4, <2>5, <2>6 DEF Assigning, Ind, Held
<1>8. ReadyToClean'
    BY <1>1 DEF IInv, ControlInv, ReadyToClean
<1>9. ControlInv'
    BY <1>1, <1>3, <1>4, <1>5, <1>6, <1>7, <1>8 DEF IInv, ControlInv
<1>10. Cleaned'
    BY <1>1 DEF Cleaned
<1>11. OwnBuffer'
    BY <1>1, <1>3, <1>4 DEF IInv, ControlInv, LocalsScoped, OwnBuffer, OnlyChanged, Held
<1>. QED
    BY <1>4, <1>9, <1>10, <1>11 DEF IInv

\* The steps that destroy an individual.
LEMMA DestroyEmptyKeeps ==
    ASSUME IInv, DestroyEmpty
    PROVE  IInv'
<1>. DEFINE p == Mutant
<1>. USE MemoryConstants, Places, PlacesDiffer, NotSeeds
<1>1. /\ pc = "retry" /\ pc' = "again"
      /\ Destroy(p)
      /\ UNCHANGED <<loop_vars, vector_vars, other_vars>>
    BY DEF DestroyEmpty
<1>3. p \in Place /\ NotSeed(p) /\ Held(p)
    BY <1>1 DEF IInv, ControlInv, LocalsScoped, VectorsFilled
<1>4. /\ MemoryOK' /\ SeedsHeld' /\ NeverEmptied'
      /\ OnlyChanged(p) /\ holds'[p] = UNINIT_INDEX
      /\ \A t \in Slot : refs'[t] > 0 => refs[t] > 0
    BY <1>1, <1>3, DestroyStep
<1>. USE DEF loop_vars, vector_vars, other_vars
<1>5. LocalsScoped' /\ OriginalHeld'
    BY <1>1, <1>3, <1>4 DEF IInv, ControlInv, LocalsScoped, OriginalHeld, OnlyChanged, Held
<1>6. VectorsFilled'
    BY <1>1, <1>3, <1>4 DEF IInv, ControlInv, VectorsFilled, OnlyChanged, Held, Ind
<1>7. Assigning'
    BY <1>1, <1>3, <1>4 DEF IInv, ControlInv, Assigning, OnlyChanged, Held, Ind, Storage, Other
<1>8. ReadyToClean'
    BY <1>1, <1>3, <1>4 DEF IInv, ControlInv, ReadyToClean
<1>9. ControlInv'
    BY <1>1, <1>3, <1>4, <1>5, <1>6, <1>7, <1>8 DEF IInv, ControlInv
<1>10. Cleaned'
    BY <1>1 DEF Cleaned
<1>11. OwnBuffer'
    BY <1>1, <1>3, <1>4 DEF IInv, ControlInv, LocalsScoped, OwnBuffer, OnlyChanged, Held, Holders
<1>. QED
    BY <1>4, <1>9, <1>10, <1>11 DEF IInv

LEMMA DestroySourceKeeps ==
    ASSUME IInv, DestroySource
    PROVE  IInv'
<1>. DEFINE p == Source
<1>. USE MemoryConstants, Places, PlacesDiffer, NotSeeds
<1>1. /\ pc = "push" /\ pc' = "push" /\ Held(Source)
      /\ Destroy(p)
      /\ UNCHANGED <<loop_vars, vector_vars, other_vars>>
    BY DEF DestroySource
<1>3. p \in Place /\ NotSeed(p) /\ Held(p)
    BY <1>1 DEF IInv, ControlInv, LocalsScoped, VectorsFilled
<1>4. /\ MemoryOK' /\ SeedsHeld' /\ NeverEmptied'
      /\ OnlyChanged(p) /\ holds'[p] = UNINIT_INDEX
      /\ \A t \in Slot : refs'[t] > 0 => refs[t] > 0
    BY <1>1, <1>3, DestroyStep
<1>. USE DEF loop_vars, vector_vars, other_vars
<1>5. LocalsScoped' /\ OriginalHeld'
    BY <1>1, <1>3, <1>4 DEF IInv, ControlInv, LocalsScoped, OriginalHeld, OnlyChanged, Held
<1>6. VectorsFilled'
    BY <1>1, <1>3, <1>4 DEF IInv, ControlInv, VectorsFilled, OnlyChanged, Held, Ind
<1>7. Assigning'
    BY <1>1, <1>3, <1>4 DEF IInv, ControlInv, Assigning, OnlyChanged, Held, Ind, Storage, Other
<1>8. ReadyToClean'
    BY <1>1, <1>3, <1>4 DEF IInv, ControlInv, ReadyToClean
<1>9. ControlInv'
    BY <1>1, <1>3, <1>4, <1>5, <1>6, <1>7, <1>8 DEF IInv, ControlInv
<1>10. Cleaned'
    BY <1>1 DEF Cleaned
<1>11. OwnBuffer'
    BY <1>1, <1>3, <1>4 DEF IInv, ControlInv, LocalsScoped, OwnBuffer, OnlyChanged, Held, Holders
<1>. QED
    BY <1>4, <1>9, <1>10, <1>11 DEF IInv

LEMMA DestroyMutantKeeps ==
    ASSUME IInv, DestroyMutant
    PROVE  IInv'
<1>. DEFINE p == Mutant
<1>. USE MemoryConstants, Places, PlacesDiffer, NotSeeds
<1>1. /\ pc = "pushed" /\ at' \in {at, at + 1}
      /\ pc' = IF Held(Child) THEN "release" ELSE "next"
      /\ Destroy(p)
      /\ UNCHANGED <<loop, perturbing, vector_vars, other_vars>>
    BY DEF DestroyMutant
<1>3. p \in Place /\ NotSeed(p) /\ Held(p)
    BY <1>1 DEF IInv, ControlInv, LocalsScoped, VectorsFilled
<1>4. /\ MemoryOK' /\ SeedsHeld' /\ NeverEmptied'
      /\ OnlyChanged(p) /\ holds'[p] = UNINIT_INDEX
      /\ \A t \in Slot : refs'[t] > 0 => refs[t] > 0
    BY <1>1, <1>3, DestroyStep
<1>. USE DEF vector_vars, other_vars
<1>5. LocalsScoped' /\ OriginalHeld'
    BY <1>1, <1>3, <1>4 DEF IInv, ControlInv, LocalsScoped, OriginalHeld, OnlyChanged, Held
<1>6. VectorsFilled'
    BY <1>1, <1>3, <1>4 DEF IInv, ControlInv, VectorsFilled, OnlyChanged, Held, Ind
<1>7. Assigning'
    BY <1>1, <1>3, <1>4 DEF IInv, ControlInv, Assigning, OnlyChanged, Held, Ind, Storage, Other
<1>8. ReadyToClean'
    BY <1>1, <1>3, <1>4 DEF IInv, ControlInv, ReadyToClean
<1>9. ControlInv'
    BY <1>1, <1>3, <1>4, <1>5, <1>6, <1>7, <1>8 DEF IInv, ControlInv
<1>10. Cleaned'
    BY <1>1 DEF Cleaned
<1>11. OwnBuffer'
    BY <1>1, <1>3, <1>4 DEF IInv, ControlInv, LocalsScoped, OwnBuffer, OnlyChanged, Held, Holders
<1>. QED
    BY <1>4, <1>9, <1>10, <1>11 DEF IInv

LEMMA DestroyChildKeeps ==
    ASSUME IInv, DestroyChild
    PROVE  IInv'
<1>. DEFINE p == Child
<1>. USE MemoryConstants, Places, PlacesDiffer, NotSeeds
<1>1. /\ pc = "release" /\ pc' = "next"
      /\ Destroy(p)
      /\ UNCHANGED <<loop_vars, vector_vars, other_vars>>
    BY DEF DestroyChild
<1>3. p \in Place /\ NotSeed(p) /\ Held(p)
    BY <1>1 DEF IInv, ControlInv, LocalsScoped, VectorsFilled
<1>4. /\ MemoryOK' /\ SeedsHeld' /\ NeverEmptied'
      /\ OnlyChanged(p) /\ holds'[p] = UNINIT_INDEX
      /\ \A t \in Slot : refs'[t] > 0 => refs[t] > 0
    BY <1>1, <1>3, DestroyStep
<1>. USE DEF loop_vars, vector_vars, other_vars
<1>5. LocalsScoped' /\ OriginalHeld'
    BY <1>1, <1>3, <1>4 DEF IInv, ControlInv, LocalsScoped, OriginalHeld, OnlyChanged, Held
<1>6. VectorsFilled'
    BY <1>1, <1>3, <1>4 DEF IInv, ControlInv, VectorsFilled, OnlyChanged, Held, Ind
<1>7. Assigning'
    BY <1>1, <1>3, <1>4 DEF IInv, ControlInv, Assigning, OnlyChanged, Held, Ind, Storage, Other
<1>8. ReadyToClean'
    BY <1>1, <1>3, <1>4 DEF IInv, ControlInv, ReadyToClean
<1>9. ControlInv'
    BY <1>1, <1>3, <1>4, <1>5, <1>6, <1>7, <1>8 DEF IInv, ControlInv
<1>10. Cleaned'
    BY <1>1 DEF Cleaned
<1>11. OwnBuffer'
    BY <1>1, <1>3, <1>4 DEF IInv, ControlInv, LocalsScoped, OwnBuffer, OnlyChanged, Held, Holders
<1>. QED
    BY <1>4, <1>9, <1>10, <1>11 DEF IInv

LEMMA ForgetDrawnKeeps ==
    ASSUME IInv, ForgetDrawn
    PROVE  IInv'
<1>. DEFINE p == Drawn(chosen)
<1>. USE MemoryConstants, Places, PlacesDiffer, NotSeeds
<1>1. /\ pc \in {"next", "perturbed"} /\ chosen > 0 /\ chosen' = chosen - 1
      /\ Destroy(p)
      /\ UNCHANGED <<pc, loop_vars, live, size, count, into, other_vars>>
    BY DEF ForgetDrawn
<1>3. p \in Place /\ NotSeed(p) /\ Held(p)
      /\ chosen \in 1..MaxDrawn
    BY <1>1 DEF IInv, ControlInv, LocalsScoped, VectorsFilled
<1>4. /\ MemoryOK' /\ SeedsHeld' /\ NeverEmptied'
      /\ OnlyChanged(p) /\ holds'[p] = UNINIT_INDEX
      /\ \A t \in Slot : refs'[t] > 0 => refs[t] > 0
    BY <1>1, <1>3, DestroyStep
<1>. USE DEF loop_vars, other_vars
<1>5. LocalsScoped' /\ OriginalHeld'
    BY <1>1, <1>3, <1>4 DEF IInv, ControlInv, LocalsScoped, OriginalHeld, OnlyChanged, Held
<1>6. VectorsFilled'
    BY <1>1, <1>3, <1>4 DEF IInv, ControlInv, VectorsFilled, OnlyChanged, Held, Ind
<1>7. Assigning'
    BY <1>1, <1>3, <1>4 DEF IInv, ControlInv, Assigning, OnlyChanged, Held, Ind, Storage, Other
<1>8. ReadyToClean'
    BY <1>1, <1>3, <1>4 DEF IInv, ControlInv, ReadyToClean
<1>9. ControlInv'
    BY <1>1, <1>3, <1>4, <1>5, <1>6, <1>7, <1>8 DEF IInv, ControlInv
<1>10. Cleaned'
    BY <1>1 DEF Cleaned
<1>11. OwnBuffer'
    BY <1>1, <1>3, <1>4 DEF IInv, ControlInv, LocalsScoped, OwnBuffer, OnlyChanged, Held, Holders
<1>. QED
    BY <1>4, <1>9, <1>10, <1>11 DEF IInv

LEMMA ForgetNewKeeps ==
    ASSUME IInv, ForgetNew
    PROVE  IInv'
<1>. DEFINE p == New(count)
<1>. USE MemoryConstants, Places, PlacesDiffer, NotSeeds
<1>1. /\ pc \in {"perturbed", "cleaned"} /\ count > 0 /\ count' = count - 1
      /\ Destroy(p)
      /\ UNCHANGED <<pc, loop_vars, live, size, chosen, into, other_vars>>
    BY DEF ForgetNew
<1>3. p \in Place /\ NotSeed(p) /\ Held(p)
      /\ count \in 1..MaxNew
    BY <1>1 DEF IInv, ControlInv, LocalsScoped, VectorsFilled
<1>4. /\ MemoryOK' /\ SeedsHeld' /\ NeverEmptied'
      /\ OnlyChanged(p) /\ holds'[p] = UNINIT_INDEX
      /\ \A t \in Slot : refs'[t] > 0 => refs[t] > 0
    BY <1>1, <1>3, DestroyStep
<1>. USE DEF loop_vars, other_vars
<1>5. LocalsScoped' /\ OriginalHeld'
    BY <1>1, <1>3, <1>4 DEF IInv, ControlInv, LocalsScoped, OriginalHeld, OnlyChanged, Held
<1>6. VectorsFilled'
    BY <1>1, <1>3, <1>4 DEF IInv, ControlInv, VectorsFilled, OnlyChanged, Held, Ind
<1>7. Assigning'
    BY <1>1, <1>3, <1>4 DEF IInv, ControlInv, Assigning, OnlyChanged, Held, Ind, Storage, Other
<1>8. ReadyToClean'
    BY <1>1, <1>3, <1>4 DEF IInv, ControlInv, ReadyToClean
<1>9. ControlInv'
    BY <1>1, <1>3, <1>4, <1>5, <1>6, <1>7, <1>8 DEF IInv, ControlInv
<1>10. Cleaned'
    <2>1. Active' = Active
        <3>1. \A q \in Place : q[1] \in {"seed", live, "best"} => q # p
            BY DEF IInv, ControlInv, Storage, New
        <3>. QED
            BY <1>1, <1>4, <3>1 DEF Active, IndicesOf, OnlyChanged
    <2>. QED
        BY <1>1, <1>4, <2>1 DEF IInv, Cleaned
<1>11. OwnBuffer'
    BY <1>1, <1>3, <1>4 DEF IInv, ControlInv, LocalsScoped, OwnBuffer, OnlyChanged, Held, Holders
<1>. QED
    BY <1>4, <1>9, <1>10, <1>11 DEF IInv

LEMMA AssignDestroyKeeps ==
    ASSUME IInv, AssignDestroy
    PROVE  IInv'
<1>. USE MemoryConstants, Places, PlacesDiffer, NotSeeds
<1>1. /\ pc = "assign" /\ at > count
      /\ UNCHANGED <<pc, loop_vars, vector_vars, other_vars>>
    BY DEF AssignDestroy
<1>2. PICK i \in Surplus : Held(Ind(i)) /\ Destroy(Ind(i))
    BY DEF AssignDestroy
<1>. DEFINE p == Stored(live, i)
<1>3. /\ i \in 1..size /\ i \in 1..MaxNew
      /\ into = live => i > count
      /\ live \in Storage /\ into \in Storage /\ p = Ind(i)
      /\ p \in Place /\ NotSeed(p) /\ Held(p)
    BY <1>2 DEF IInv, ControlInv, VectorsFilled, Surplus, Ind
<1>4. /\ MemoryOK' /\ SeedsHeld' /\ NeverEmptied'
      /\ OnlyChanged(p) /\ holds'[p] = UNINIT_INDEX
    BY <1>2, <1>3, DestroyStep
<1>. USE DEF loop_vars, vector_vars, other_vars
<1>5. LocalsScoped' /\ OriginalHeld'
    BY <1>1, <1>3, <1>4 DEF IInv, ControlInv, LocalsScoped, OriginalHeld, OnlyChanged, Held
<1>6. VectorsFilled'
    BY <1>1, <1>3, <1>4 DEF IInv, ControlInv, VectorsFilled, OnlyChanged, Held
<1>7. Assigning'
    <2>1. Assigning /\ loop = "assign"
        BY <1>1 DEF IInv, ControlInv, Assigning
    <2>2. ASSUME NEW j \in 1..MaxNew, j < at, j <= count
          PROVE  holds'[Stored(into, j)] = holds'[New(j)]
        <3>1. Stored(into, j) # p
            <4>1. count \in Nat
                BY DEF IInv, ControlInv
            <4>2. into = live => i # j
                BY <1>3, <2>2, <4>1
            <4>. QED
                BY <1>3, <4>2 DEF Stored
        <3>2. holds'[Stored(into, j)] = holds[Stored(into, j)] /\ holds'[New(j)] = holds[New(j)]
            BY <1>3, <1>4, <3>1 DEF OnlyChanged
        <3>. QED
            BY <1>1, <2>1, <2>2, <3>2 DEF Assigning
    <2>3. ASSUME NEW j \in 1..MaxNew
          PROVE  /\ holds'[Stored(Other(live), j)] # UNINIT_INDEX
                      => holds[Stored(Other(live), j)] # UNINIT_INDEX
                 /\ holds'[Stored(live, j)] # UNINIT_INDEX => holds[Stored(live, j)] # UNINIT_INDEX
        BY <1>3, <1>4 DEF OnlyChanged, Other, Storage
    <2>. QED
        BY <1>1, <2>1, <2>2, <2>3 DEF Assigning, Held, Ind
<1>8. ReadyToClean'
    BY <1>1 DEF IInv, ControlInv, ReadyToClean
<1>9. ControlInv'
    BY <1>1, <1>4, <1>5, <1>6, <1>7, <1>8 DEF IInv, ControlInv
<1>10. Cleaned'
    BY <1>1 DEF Cleaned
<1>11. OwnBuffer'
    BY <1>1, <1>3, <1>4 DEF IInv, ControlInv, LocalsScoped, OwnBuffer, OnlyChanged, Held
<1>. QED
    BY <1>4, <1>9, <1>10, <1>11 DEF IInv

\* The steps that clone an individual.
LEMMA CrossOverKeeps ==
    ASSUME IInv, CrossOver
    PROVE  IInv'
<1>. DEFINE p == Child
<1>. USE MemoryConstants, Places, PlacesDiffer, NotSeeds
<1>1. /\ pc = "next" /\ pc' = "mutate" /\ count < MaxNew
      /\ UNCHANGED <<loop_vars, vector_vars, generations>>
    <2>1. /\ pc = "next" /\ pc' = "mutate" /\ UNCHANGED <<loop_vars, vector_vars, generations>>
          /\ count < (IF loop = "cross" THEN size ELSE MaxNew)
        BY DEF CrossOver
    <2>. QED
        BY <2>1 DEF IInv, ControlInv, VectorsFilled
<1>a. PICK i1 \in 1..size, i2 \in 1..size :
         \E outcome \in Crossed(length[holds[Ind(i1)]],
                               <<length[holds[Ind(i1)]], length[holds[Ind(i2)]]>>) :
            /\ Clone(Child, holds[Ind(i1)], outcome.buffer.length)
            /\ overran' = (overran \/ ~InBounds(outcome))
    BY DEF CrossOver
<1>. DEFINE lengths == <<length[holds[Ind(i1)]], length[holds[Ind(i2)]]>>
<1>b. PICK outcome \in Crossed(lengths[1], lengths) :
            /\ Clone(Child, holds[Ind(i1)], outcome.buffer.length)
            /\ overran' = (overran \/ ~InBounds(outcome))
    BY <1>a
<1>c. Ind(i1) \in Place /\ Held(Ind(i1)) /\ Ind(i2) \in Place /\ Held(Ind(i2))
    BY <1>1 DEF IInv, ControlInv, VectorsFilled, Ind
<1>d. MemoryOK /\ length[holds[Ind(i1)]] \in Nat /\ length[holds[Ind(i2)]] \in Nat
    BY <1>c, HeldAllocated DEF IInv
<1>e. lengths \in [1..2 -> Nat] /\ lengths[1] = length[holds[Ind(i1)]] /\ lengths[1] \in Nat
    BY <1>d
<1>f. InBounds(outcome) /\ outcome.buffer.length = lengths[1]
    <2>. HIDE DEF lengths
    <2>. QED
        BY <1>b, <1>e, CrossOversSafe
<1>2. overran' = FALSE
    BY <1>b, <1>f DEF IInv, ControlInv
<1>3. p \in Place /\ NotSeed(p) /\ ~Held(p)
    BY <1>1 DEF IInv, ControlInv, LocalsScoped
<1>4. /\ MemoryOK' /\ SeedsHeld' /\ NeverEmptied'
      /\ OnlyChanged(p) /\ holds'[p] = next_index /\ Held(p)'
      /\ Holders(holds[p])' = {p}
    BY <1>3, <1>b, <1>c, <1>e, <1>f, CloneStep
<1>. USE DEF loop_vars, vector_vars
<1>5. LocalsScoped' /\ OriginalHeld'
    BY <1>1, <1>3, <1>4 DEF IInv, ControlInv, LocalsScoped, OriginalHeld, OnlyChanged, Held
<1>6. VectorsFilled'
    BY <1>1, <1>3, <1>4 DEF IInv, ControlInv, VectorsFilled, OnlyChanged, Held, Ind
<1>7. Assigning'
    BY <1>1, <1>3, <1>4 DEF IInv, ControlInv, Assigning, OnlyChanged, Held, Ind, Storage, Other
<1>8. ReadyToClean'
    BY <1>1, <1>3, <1>4 DEF IInv, ControlInv, ReadyToClean
<1>9. ControlInv'
    BY <1>1, <1>2, <1>3, <1>4, <1>5, <1>6, <1>7, <1>8 DEF IInv, ControlInv
<1>10. Cleaned'
    BY <1>1 DEF Cleaned
<1>11. OwnBuffer'
    BY <1>1, <1>4 DEF OwnBuffer
<1>. QED
    BY <1>4, <1>9, <1>10, <1>11 DEF IInv

\* The argument of get_and_mutate is there.
LEMMA OriginalPlace ==
    ASSUME IInv, pc \in {"mutate", "again"}
    PROVE  /\ \E q \in Place : Held(q) /\ holds[q] = Original
           /\ length[Original] \in Nat
<1>1. Child \in Place /\ Source \in Place /\ \A i \in 1..MaxDrawn : Drawn(i) \in Place
    BY Places
<1>2. PICK q \in Place : Held(q) /\ holds[q] = Original
    BY <1>1 DEF IInv, ControlInv, OriginalHeld, Original
<1>3. length[Original] \in Nat
    BY <1>2, HeldAllocated DEF IInv
<1>. QED
    BY <1>2, <1>3

LEMMA PlainCloneKeeps ==
    ASSUME IInv, PlainClone
    PROVE  IInv'
<1>. DEFINE p == Mutant
<1>. USE MemoryConstants, Places, PlacesDiffer, NotSeeds
<1>1. /\ pc = "mutate" /\ pc' = "push"
      /\ UNCHANGED <<loop_vars, vector_vars, other_vars>>
      /\ Clone(p, Original, length[Original])
    BY DEF PlainClone
<1>2. overran' = FALSE /\ UNCHANGED generations
    BY <1>1 DEF IInv, ControlInv, other_vars
<1>3. p \in Place /\ NotSeed(p) /\ ~Held(p)
    BY <1>1 DEF IInv, ControlInv, LocalsScoped
<1>a. PICK q \in Place : Held(q) /\ holds[q] = Original /\ length[Original] \in Nat
    BY <1>1, OriginalPlace
<1>4. /\ MemoryOK' /\ SeedsHeld' /\ NeverEmptied'
      /\ OnlyChanged(p) /\ holds'[p] = next_index /\ Held(p)'
      /\ Holders(holds[p])' = {p}
      /\ \A r \in Place : r # p => holds[r] # next_index
    BY <1>1, <1>3, <1>a, CloneStep
<1>. USE DEF loop_vars, vector_vars
<1>5. LocalsScoped' /\ OriginalHeld'
    BY <1>1, <1>3, <1>4 DEF IInv, ControlInv, LocalsScoped, OriginalHeld, OnlyChanged, Held
<1>6. VectorsFilled'
    BY <1>1, <1>3, <1>4 DEF IInv, ControlInv, VectorsFilled, OnlyChanged, Held, Ind
<1>7. Assigning'
    BY <1>1, <1>3, <1>4 DEF IInv, ControlInv, Assigning, OnlyChanged, Held, Ind, Storage, Other
<1>8. ReadyToClean'
    BY <1>1, <1>3, <1>4 DEF IInv, ControlInv, ReadyToClean
<1>9. ControlInv'
    BY <1>1, <1>2, <1>3, <1>4, <1>5, <1>6, <1>7, <1>8 DEF IInv, ControlInv
<1>10. Cleaned'
    BY <1>1 DEF Cleaned
<1>11. OwnBuffer'
    BY <1>1, <1>3, <1>4 DEF IInv, OwnBuffer, OnlyChanged, Holders, Held
<1>. QED
    BY <1>4, <1>9, <1>10, <1>11 DEF IInv

LEMMA MutateKeeps ==
    ASSUME IInv, Mutate
    PROVE  IInv'
<1>. DEFINE p == Mutant
<1>. USE MemoryConstants, Places, PlacesDiffer, NotSeeds
<1>a. PICK outcome \in Mutated(length[Original]) :
          /\ Clone(p, Original, outcome.buffer.length)
          /\ overran' = (overran \/ ~InBounds(outcome))
          /\ pc' = IF outcome.buffer.length > 0 THEN "push" ELSE "retry"
    BY DEF Mutate
<1>1. /\ pc \in {"mutate", "again"} /\ pc' \in {"push", "retry"}
      /\ UNCHANGED <<loop_vars, vector_vars, generations>>
    BY <1>a DEF Mutate
<1>b. PICK q \in Place : Held(q) /\ holds[q] = Original /\ length[Original] \in Nat
    BY <1>1, OriginalPlace
<1>c. Safe(outcome, length[Original])
    BY <1>a, <1>b, MutationsSafe
<1>d. /\ InBounds(outcome) /\ outcome.buffer.length \in Nat
      /\ length[Original] > 0 => outcome.buffer.length > 0
    BY <1>c DEF Safe
<1>2. overran' = FALSE
    BY <1>a, <1>d DEF IInv, ControlInv
<1>3. p \in Place /\ NotSeed(p) /\ ~Held(p)
    BY <1>1 DEF IInv, ControlInv, LocalsScoped
<1>4. /\ MemoryOK' /\ SeedsHeld' /\ NeverEmptied'
      /\ OnlyChanged(p) /\ holds'[p] = next_index /\ Held(p)'
      /\ Holders(holds[p])' = {p}
      /\ \A r \in Place : r # p => holds[r] # next_index
    BY <1>3, <1>a, <1>b, <1>d, CloneStep
<1>. USE DEF loop_vars, vector_vars
<1>5. LocalsScoped' /\ OriginalHeld'
    BY <1>1, <1>3, <1>4 DEF IInv, ControlInv, LocalsScoped, OriginalHeld, OnlyChanged, Held
<1>6. VectorsFilled'
    BY <1>1, <1>3, <1>4 DEF IInv, ControlInv, VectorsFilled, OnlyChanged, Held, Ind
<1>7. Assigning'
    BY <1>1, <1>3, <1>4 DEF IInv, ControlInv, Assigning, OnlyChanged, Held, Ind, Storage, Other
<1>8. ReadyToClean'
    BY <1>1, <1>3, <1>4 DEF IInv, ControlInv, ReadyToClean
<1>9. ControlInv'
    BY <1>1, <1>2, <1>3, <1>4, <1>5, <1>6, <1>7, <1>8 DEF IInv, ControlInv
<1>10. Cleaned'
    BY <1>1 DEF Cleaned
<1>11. OwnBuffer'
    BY <1>1, <1>3, <1>4 DEF IInv, OwnBuffer, OnlyChanged, Holders, Held
<1>. QED
    BY <1>4, <1>9, <1>10, <1>11 DEF IInv

\* Other steps: the end of assign(), and force_clean().
LEMMA EraseWorstKeeps ==
    ASSUME IInv, EraseWorst
    PROVE  IInv'
<1>. USE MemoryConstants, Places, PlacesDiffer, NotSeeds
<1>1. /\ pc = "rank" /\ at <= size /\ pc' = "insert" /\ loop' = "none"
      /\ UNCHANGED <<perturbing, at, vector_vars, other_vars>>
    BY DEF EraseWorst, Goto
<1>2. CASE UNCHANGED memory_vars
    BY <1>2, QuietKeeps
<1>3. CASE \E i \in Bests : Destroy(BestInd(i))
    <2>1. PICK i \in Bests : Destroy(BestInd(i))
        BY <1>3
    <2>. DEFINE p == BestInd(i)
    <2>3. p \in Place /\ NotSeed(p) /\ Held(p)
        BY DEF Bests
    <2>4. /\ MemoryOK' /\ SeedsHeld' /\ NeverEmptied'
          /\ OnlyChanged(p) /\ holds'[p] = UNINIT_INDEX
        BY <2>1, <2>3, DestroyStep
    <2>. USE DEF vector_vars, other_vars
    <2>5. LocalsScoped' /\ OriginalHeld'
        BY <1>1, <2>4 DEF IInv, ControlInv, LocalsScoped, OriginalHeld, OnlyChanged, Held
    <2>6. VectorsFilled'
        BY <1>1, <2>4 DEF IInv, ControlInv, VectorsFilled, OnlyChanged, Held, Ind
    <2>7. Assigning'
        BY <1>1, <2>4 DEF IInv, ControlInv, Assigning, OnlyChanged, Held, Ind, Storage, Other
    <2>8. ReadyToClean'
        BY <1>1 DEF IInv, ControlInv, ReadyToClean
    <2>9. ControlInv'
        BY <1>1, <2>4, <2>5, <2>6, <2>7, <2>8 DEF IInv, ControlInv
    <2>10. Cleaned'
        BY <1>1 DEF Cleaned
    <2>11. OwnBuffer'
        BY <1>1, <2>4 DEF IInv, ControlInv, LocalsScoped, OwnBuffer, OnlyChanged, Held
    <2>. QED
        BY <2>4, <2>9, <2>10, <2>11 DEF IInv
<1>. QED
    BY <1>2, <1>3 DEF EraseWorst

LEMMA AssignEndKeeps ==
    ASSUME IInv, AssignEnd
    PROVE  IInv'
<1>. USE MemoryConstants, Places, PlacesDiffer, NotSeeds
<1>1. /\ pc = "assign" /\ at > count /\ live' = into /\ size' = count
      /\ pc' = IF perturbing THEN "perturbed" ELSE "clean"
      /\ \A i \in Surplus : ~Held(Ind(i))
      /\ UNCHANGED memory_vars
      /\ UNCHANGED loop_vars
      /\ UNCHANGED <<count, chosen, into, other_vars>>
    BY DEF AssignEnd
<1>. USE DEF memory_vars, loop_vars, other_vars
<1>2. MemoryOK'
    BY <1>1 DEF IInv, MemoryOK, RefsCover, Holders, Uncreated
<1>3. /\ loop = "assign" /\ count \in Nat /\ count <= MaxNew /\ size \in Nat
      /\ live \in Storage /\ into \in Storage /\ at \in Nat
      /\ Other(Other(live)) = live /\ (into = live \/ into = Other(live))
    BY <1>1 DEF IInv, ControlInv, VectorsFilled, Assigning, Storage, Other
<1>4. \A i \in 1..MaxNew : i <= count => holds[Stored(into, i)] = holds[New(i)]
    BY <1>1, <1>3 DEF IInv, ControlInv, Assigning
<1>5. \A i \in 1..MaxNew : i <= count => holds[Stored(into, i)] # UNINIT_INDEX
    BY <1>4 DEF IInv, ControlInv, VectorsFilled, Held
<1>6. ASSUME NEW i \in 1..MaxNew
      PROVE  /\ holds[Stored(Other(into), i)] = UNINIT_INDEX
             /\ holds[Stored(into, i)] # UNINIT_INDEX => i <= count
    <2>1. /\ holds[Stored(Other(live), i)] # UNINIT_INDEX => into = Other(live) /\ i <= count
          /\ holds[Stored(live, i)] # UNINIT_INDEX => i <= size \/ (into = live /\ i <= count)
        BY DEF IInv, ControlInv, Assigning, Held, Ind
    <2>2. i <= size /\ (into = live => i > count) => holds[Stored(live, i)] = UNINIT_INDEX
        BY <1>1, <1>3 DEF Surplus, Held, Ind
    <2>3. live # Other(live)
        BY <1>3 DEF Storage, Other
    <2>4. CASE into = live
        BY <1>3, <2>1, <2>2, <2>3, <2>4
    <2>5. CASE into = Other(live)
        BY <1>3, <2>1, <2>2, <2>3, <2>5
    <2>. QED
        BY <1>3, <2>4, <2>5
<1>7. SeedsHeld' /\ LocalsScoped' /\ OriginalHeld'
    BY <1>1 DEF IInv, ControlInv, SeedsHeld, LocalsScoped, OriginalHeld, Held
<1>8. VectorsFilled'
    BY <1>1, <1>3, <1>5 DEF IInv, ControlInv, VectorsFilled, Held, Ind
<1>9. Assigning'
    BY <1>1, <1>3, <1>6 DEF IInv, ControlInv, Assigning, Held, Ind
<1>10. ReadyToClean'
    BY <1>1, <1>3, <1>4 DEF IInv, ControlInv, ReadyToClean, Ind
<1>11. ControlInv'
    BY <1>1, <1>3, <1>7, <1>8, <1>9, <1>10 DEF IInv, ControlInv
<1>12. Cleaned' /\ OwnBuffer'
    BY <1>1 DEF IInv, Cleaned, OwnBuffer, Holders, Held
<1>13. NeverEmptied'
    BY <1>1 DEF IInv, NeverEmptied, Seed
<1>. QED
    BY <1>2, <1>11, <1>12, <1>13 DEF IInv

\* What is not active has no holder when it is cleaned.
LEMMA InactiveUnheld ==
    ASSUME IInv, pc = "clean", NEW s \in Slot, s \notin Active
    PROVE  Holders(s) = {}
<1>. USE MemoryConstants, Places, PlacesDiffer, NotSeeds
<1>1. ASSUME NEW p \in Place, holds[p] = s
      PROVE  FALSE
    <2>1. /\ Held(p) /\ live \in Storage /\ count \in Nat /\ count <= MaxNew
          /\ \A i \in 1..MaxNew : Held(New(i)) <=> i <= count
          /\ \A i \in 1..MaxDrawn : ~Held(Drawn(i))
          /\ \A i \in 1..count : holds[Ind(i)] = holds[New(i)]
          /\ \A i \in 1..MaxNew : ~Held(Stored(Other(live), i))
          /\ ~Held(Child) /\ ~Held(Source) /\ ~Held(Mutant)
          /\ \A i \in 1..Seeds : holds[Value(i)] = holds[Seed(i)]
        <3>1. Held(p) /\ live \in Storage /\ count \in Nat /\ count <= MaxNew /\ chosen = 0
            BY <1>1 DEF IInv, ControlInv, VectorsFilled, ReadyToClean, Held
        <3>2. /\ \A i \in 1..MaxNew : Held(New(i)) <=> i <= count
              /\ \A i \in 1..MaxDrawn : ~Held(Drawn(i))
            BY <3>1 DEF IInv, ControlInv, VectorsFilled
        <3>3. \A i \in 1..count : holds[Ind(i)] = holds[New(i)]
            BY DEF IInv, ControlInv, ReadyToClean
        <3>4. \A i \in 1..MaxNew : ~Held(Stored(Other(live), i))
            BY DEF IInv, ControlInv, Assigning
        <3>5. ~Held(Child) /\ ~Held(Source) /\ ~Held(Mutant)
            BY DEF IInv, ControlInv, LocalsScoped
        <3>6. \A i \in 1..Seeds : holds[Value(i)] = holds[Seed(i)]
            BY DEF IInv, ControlInv, SeedsHeld
        <3>. QED
            BY <3>1, <3>2, <3>3, <3>4, <3>5, <3>6
    <2>2. \A q \in Place : q[1] \in {"seed", live, "best"} => holds[q] # s
        BY DEF Active, IndicesOf
    <2>3. \A i \in 1..Seeds : Seed(i)[1] = "seed"
        BY DEF Seed
    <2>4. \A i \in 1..MaxNew : Ind(i)[1] = live /\ Ind(i) \in Place
        BY <2>1 DEF Ind, Stored, Place
    <2>5. CASE p \in {"value", "seed"} \X (1..Seeds)
        <3>1. PICK i \in 1..Seeds : p = Value(i) \/ p = Seed(i)
            BY <2>5 DEF Value, Seed
        <3>. QED
            BY <1>1, <2>1, <2>2, <2>3, <3>1
    <2>6. CASE p \in {"best"} \X (1..(BestSize + 1))
        BY <1>1, <2>2, <2>6
    <2>7. CASE p \in (Storage \union {"new"}) \X (1..MaxNew)
        <3>1. PICK i \in 1..MaxNew : p = New(i) \/ p = Stored(Other(live), i) \/ p = Ind(i)
            BY <2>1, <2>7 DEF New, Stored, Ind, Storage, Other
        <3>2. CASE p = New(i)
            <4>1. i \in 1..count
                BY <2>1, <3>2
            <4>. QED
                BY <1>1, <2>1, <2>2, <2>4, <3>2, <4>1
        <3>. QED
            BY <1>1, <2>1, <2>2, <2>4, <3>1, <3>2
    <2>8. CASE p \in {"drawn"} \X (1..MaxDrawn)
        BY <2>1, <2>8 DEF Drawn
    <2>9. CASE p \in {Child, Source, Mutant}
        BY <2>1, <2>9
    <2>. QED
        BY <2>5, <2>6, <2>7, <2>8, <2>9 DEF Place
<1>. QED
    BY <1>1 DEF Holders

LEMMA ForceCleanKeeps ==
    ASSUME IInv, ForceClean
    PROVE  IInv'
<1>. USE MemoryConstants, Places, PlacesDiffer, NotSeeds
<1>1. /\ pc = "clean" /\ pc' = "cleaned"
      /\ refs' = [s \in Slot |-> IF s \notin Active THEN 0 ELSE refs[s]]
      /\ length' = [s \in Slot |-> IF refs'[s] > 0 THEN length[s] ELSE 0]
      /\ UNCHANGED <<next_index, holds>>
      /\ UNCHANGED loop_vars
      /\ UNCHANGED vector_vars
      /\ UNCHANGED other_vars
    BY DEF ForceClean, Inactive, LengthsOf
<1>. USE DEF loop_vars, vector_vars, other_vars
<1>2. MemoryOK /\ NeverEmptied /\ refs \in [Slot -> Nat] /\ length \in [Slot -> Nat]
    BY DEF IInv, MemoryOK
<1>3. refs' \in [Slot -> Nat] /\ length' \in [Slot -> Nat]
    BY <1>1, <1>2
<1>4. RefsCover'
    <2>1. ASSUME NEW s \in Slot
          PROVE  Cardinality(Holders(s)) <= refs'[s]
        <3>1. CASE s \in Active
            BY <1>1, <1>2, <3>1 DEF MemoryOK, RefsCover
        <3>2. CASE s \notin Active
            <4>1. Cardinality(Holders(s)) = 0
                BY <1>1, <3>2, InactiveUnheld, FiniteHolders
            <4>2. refs'[s] = 0
                BY <1>1, <3>2
            <4>. QED
                BY <4>1, <4>2
        <3>. QED
            BY <3>1, <3>2
    <2>. QED
        BY <1>1, <2>1 DEF RefsCover, Holders
<1>5. MemoryOK'
    BY <1>1, <1>2, <1>3, <1>4 DEF MemoryOK, Uncreated
<1>6. SeedsHeld' /\ LocalsScoped' /\ OriginalHeld' /\ VectorsFilled' /\ Assigning'
    BY <1>1 DEF IInv, ControlInv, SeedsHeld, LocalsScoped, OriginalHeld, VectorsFilled, Assigning,
                Held, Ind
<1>7. ReadyToClean'
    BY <1>1 DEF IInv, ControlInv, ReadyToClean
<1>8. ControlInv'
    BY <1>1, <1>6, <1>7 DEF IInv, ControlInv
<1>9. Cleaned'
    BY <1>1 DEF Cleaned, Active, IndicesOf
<1>10. OwnBuffer'
    BY <1>1 DEF IInv, ControlInv, LocalsScoped, OwnBuffer, Held
<1>11. NeverEmptied'
    <2>1. ASSUME NEW i \in 1..Seeds
          PROVE  holds[Seed(i)] \in Slot /\ holds[Seed(i)] \in Active /\ refs[holds[Seed(i)]] > 0
        <3>1. Held(Seed(i)) /\ Seed(i) \in Place /\ Seed(i)[1] = "seed"
            BY DEF IInv, ControlInv, SeedsHeld, Seed, Place
        <3>. QED
            BY <1>2, <3>1, HeldAllocated DEF Active, IndicesOf, Held
    <2>2. \A i \in 1..Seeds : length'[holds[Seed(i)]] = length[holds[Seed(i)]]
        BY <1>1, <1>2, <2>1
    <2>3. \A s \in Slot : refs'[s] > 0 => refs[s] > 0 /\ length'[s] = length[s]
        BY <1>1, <1>2
    <2>. QED
        BY <1>1, <1>2, <2>2, <2>3 DEF NeverEmptied, Seed
<1>. QED
    BY <1>5, <1>8, <1>9, <1>10, <1>11 DEF IInv

(***************************************************************************)
(* The inductive invariant holds                                           *)
(***************************************************************************)

LEMMA InitHolds ==
    ASSUME Init
    PROVE  IInv
<1>. USE MemoryConstants
<1>1. /\ next_index = Seeds + 1
      /\ length \in [Slot -> Nat]
      /\ holds = [p \in Place |-> IF p[1] \in {"value", "seed", "front"} /\ p[2] <= Seeds
                                  THEN p[2] ELSE UNINIT_INDEX]
      /\ refs = [s \in Slot |-> IF s <= Seeds THEN 3 ELSE 0]
      /\ live = "front" /\ into = "front" /\ size = Seeds
      /\ pc = "run" /\ loop = "none" /\ perturbing = FALSE
      /\ at = 1 /\ count = 0 /\ chosen = 0 /\ generations = 0 /\ overran = FALSE
    <2>1. PICK lengths \in [1..Seeds -> SeedLengths] :
              length = [s \in Slot |-> IF s <= Seeds THEN lengths[s] ELSE 0]
        BY DEF Init
    <2>2. ASSUME NEW s \in Slot
          PROVE  (IF s <= Seeds THEN lengths[s] ELSE 0) \in Nat
        <3>1. s \in Nat /\ s >= 1
            BY DEF Slot
        <3>2. s <= Seeds => lengths[s] \in SeedLengths
            BY <3>1
        <3>. QED
            BY <3>2
    <2>3. length \in [Slot -> Nat]
        BY <2>1, <2>2
    <2>. QED
        BY <2>3 DEF Init
<1>2. ASSUME NEW p \in Place
      PROVE  /\ holds[p] \in Slot \union {UNINIT_INDEX}
             /\ Held(p) => p[1] \in {"value", "seed", "front"} /\ p[2] \in 1..Seeds /\ holds[p] = p[2]
    <2>1. \A storage \in Storage \union {"new"} : storage \in {"front", "back", "new"}
        BY DEF Storage
    <2>2. p[2] \in Nat /\ (p[1] \in {"value", "seed", "front"} => p[2] >= 1)
        BY <2>1 DEF Place, Child, Source, Mutant
    <2>. QED
        BY <1>1, <2>2 DEF Held, Slot
<1>3. \A i \in 1..Seeds : /\ holds[Value(i)] = i /\ holds[Seed(i)] = i
                          /\ holds[Stored("front", i)] = i
    <2>1. ASSUME NEW i \in 1..Seeds
          PROVE  Value(i) \in Place /\ Seed(i) \in Place /\ Stored("front", i) \in Place
        <3>1. i \in 1..MaxNew /\ "front" \in Storage
            BY DEF Storage
        <3>. QED
            BY <3>1, Places
    <2>2. \A i \in 1..Seeds : /\ Value(i)[1] = "value" /\ Value(i)[2] = i
                              /\ Seed(i)[1] = "seed" /\ Seed(i)[2] = i
                              /\ Stored("front", i)[1] = "front" /\ Stored("front", i)[2] = i
        BY DEF Value, Seed, Stored
    <2>. QED
        BY <1>1, <2>1, <2>2
<1>4. ASSUME NEW s \in Slot
      PROVE  Cardinality(Holders(s)) <= refs[s]
    <2>1. CASE s > Seeds
        <3>1. Holders(s) = {}
            BY <1>2, <2>1 DEF Holders, Held
        <3>. QED
            BY <1>1, <2>1, <3>1, FS_EmptySet
    <2>2. CASE s <= Seeds
        <3>1. Holders(s) \subseteq ({Value(s)} \union {Seed(s)}) \union {Stored("front", s)}
            <4>1. ASSUME NEW p \in Holders(s)
                  PROVE  p \in {Value(s), Seed(s), Stored("front", s)}
                <5>1. p \in Place /\ p[1] \in {"value", "seed", "front"} /\ p[2] = s
                    BY <1>2, <4>1 DEF Holders, Held
                <5>2. p = <<p[1], p[2]>>
                    BY <5>1 DEF Place, Child, Source, Mutant
                <5>. QED
                    BY <5>1, <5>2 DEF Value, Seed, Stored
            <4>. QED
                BY <4>1
        <3>2. /\ IsFiniteSet({Value(s)}) /\ Cardinality({Value(s)}) = 1
            BY FS_Singleton
        <3>3. /\ IsFiniteSet({Value(s)} \union {Seed(s)})
              /\ Cardinality({Value(s)} \union {Seed(s)}) \in 1..2
            BY <3>2, FS_AddElement
        <3>4. /\ IsFiniteSet(({Value(s)} \union {Seed(s)}) \union {Stored("front", s)})
              /\ Cardinality(({Value(s)} \union {Seed(s)}) \union {Stored("front", s)}) \in 1..3
            BY <3>3, FS_AddElement
        <3>5. /\ Cardinality(Holders(s)) \in Nat
              /\ Cardinality(Holders(s))
                   <= Cardinality(({Value(s)} \union {Seed(s)}) \union {Stored("front", s)})
            BY <3>1, <3>4, FS_Subset, FS_CardinalityType
        <3>. QED
            BY <1>1, <2>2, <3>4, <3>5
    <2>. QED
        BY <2>1, <2>2
<1>5. MemoryOK
    <2>1. refs \in [Slot -> Nat] /\ next_index \in 1..(MaxSlots + 1)
          /\ holds \in [Place -> Slot \union {UNINIT_INDEX}]
        BY <1>1, <1>2
    <2>2. Uncreated
        BY <1>1 DEF Uncreated
    <2>. QED
        BY <1>1, <1>4, <2>1, <2>2 DEF MemoryOK, RefsCover
<1>6. /\ ~Held(Child) /\ ~Held(Source) /\ ~Held(Mutant)
      /\ \A i \in 1..MaxNew : ~Held(New(i)) /\ ~Held(Stored("back", i))
      /\ \A i \in 1..MaxDrawn : ~Held(Drawn(i))
      /\ \A i \in 1..MaxNew : Held(Stored("front", i)) => i <= Seeds
    <2>1. /\ Child \in Place /\ Source \in Place /\ Mutant \in Place
          /\ \A i \in 1..MaxNew : New(i) \in Place /\ Stored("back", i) \in Place
                                 /\ Stored("front", i) \in Place
          /\ \A i \in 1..MaxDrawn : Drawn(i) \in Place
        BY Places DEF Storage
    <2>2. /\ Child[1] = "child" /\ Source[1] = "source" /\ Mutant[1] = "mutant"
          /\ \A i \in 1..MaxNew : New(i)[1] = "new" /\ Stored("back", i)[1] = "back"
                                 /\ Stored("front", i)[2] = i
          /\ \A i \in 1..MaxDrawn : Drawn(i)[1] = "drawn"
        BY DEF Child, Source, Mutant, New, Stored, Drawn
    <2>. QED
        BY <1>2, <2>1, <2>2
<1>7. SeedsHeld /\ LocalsScoped /\ OriginalHeld
    BY <1>1, <1>3, <1>6 DEF SeedsHeld, LocalsScoped, OriginalHeld, Held
<1>8. VectorsFilled /\ Assigning /\ ReadyToClean
    <2>1. ASSUME NEW i \in 1..Seeds
          PROVE  holds[Ind(i)] = i /\ i # 0
        <3>1. Ind(i) = Stored("front", i)
            BY <1>1, Zenon DEF Ind
        <3>2. i # 0
            OBVIOUS
        <3>. QED
            BY <1>3, <3>1, <3>2, Zenon
    <2>2. VectorsFilled
        BY <1>1, <1>6, <2>1 DEF VectorsFilled, Held
    <2>3. Assigning
        BY <1>1, <1>6 DEF Assigning, Ind, Other
    <2>4. ReadyToClean
        BY <1>1 DEF ReadyToClean
    <2>. QED
        BY <2>2, <2>3, <2>4
<1>9. ControlInv
    BY <1>1, <1>7, <1>8 DEF ControlInv, Storage
<1>10. Cleaned
    <2>1. ASSUME NEW s \in Slot, refs[s] > 0
          PROVE  s \in Active
        <3>1. s \in 1..Seeds
            BY <1>1, <2>1 DEF Slot
        <3>2. Seed(s) \in Place /\ Seed(s)[1] = "seed" /\ holds[Seed(s)] = s
            BY <1>3, <3>1, Places DEF Seed
        <3>. QED
            BY <3>2 DEF Active, IndicesOf
    <2>. QED
        BY <2>1 DEF Cleaned
<1>11. OwnBuffer
    BY <1>1, <1>6 DEF OwnBuffer
<1>12. NeverEmptied
    <2>1. ASSUME NEW s \in Slot, refs[s] > 0
          PROVE  s \in 1..Seeds /\ holds[Seed(s)] = s
        <3>1. s \in 1..Seeds
            BY <1>1, <2>1 DEF Slot
        <3>. QED
            BY <1>3, <3>1
    <2>2. ASSUME \A i \in 1..Seeds : length[holds[Seed(i)]] > 0, NEW s \in Slot, refs[s] > 0
          PROVE  length[s] > 0
        <3>1. s \in 1..Seeds /\ holds[Seed(s)] = s
            BY <2>1, <2>2
        <3>. QED
            BY <2>2, <3>1
    <2>. QED
        BY <2>2 DEF NeverEmptied
<1>. QED
    BY <1>5, <1>9, <1>10, <1>11, <1>12 DEF IInv

LEMMA StepKeeps ==
    ASSUME IInv, [Next]_vars
    PROVE  IInv'
<1>1. CASE UNCHANGED vars
    BY <1>1 DEF vars, memory_vars, loop_vars, vector_vars, other_vars, IInv, MemoryOK, RefsCover,
        Uncreated, ControlInv, SeedsHeld, LocalsScoped, OriginalHeld, VectorsFilled, Assigning,
        ReadyToClean, Cleaned, OwnBuffer, NeverEmptied, Holders, Held, Active, IndicesOf, Ind, Seed
<1>2. CASE Evolve \/ Refuse \/ Ranked \/ TakeDrawn \/ NextLoop \/ AssignBegin \/ Perturbed \/ Return
    <2>1. UNCHANGED memory_vars
        BY <1>2 DEF Evolve, Refuse, Ranked, TakeDrawn, NextLoop, AssignBegin, Perturbed, Return
    <2>. QED
        BY <1>2, <2>1, QuietKeeps
<1>3. CASE EraseWorst \/ InsertBest \/ TakeIndividual \/ PushBack \/ DrawBest \/ DrawSeed \/ AssignNext
    BY <1>3, EraseWorstKeeps, InsertBestKeeps, TakeIndividualKeeps, PushBackKeeps, DrawBestKeeps,
       DrawSeedKeeps, AssignNextKeeps
<1>4. CASE DestroyEmpty \/ DestroySource \/ DestroyMutant \/ DestroyChild \/ ForgetDrawn \/ ForgetNew
    BY <1>4, DestroyEmptyKeeps, DestroySourceKeeps, DestroyMutantKeeps, DestroyChildKeeps,
       ForgetDrawnKeeps, ForgetNewKeeps
<1>5. CASE AssignDestroy
    BY <1>5, AssignDestroyKeeps
<1>6. CASE CrossOver \/ PlainClone \/ Mutate
    BY <1>6, CrossOverKeeps, PlainCloneKeeps, MutateKeeps
<1>7. CASE AssignEnd \/ ForceClean
    BY <1>7, AssignEndKeeps, ForceCleanKeeps
<1>. QED
    BY <1>1, <1>2, <1>3, <1>4, <1>5, <1>6, <1>7 DEF Next

LEMMA InvariantHolds == Spec => []IInv
<1>1. Init => IInv
    BY InitHolds
<1>2. IInv /\ [Next]_vars => IInv'
    BY StepKeeps
<1>. QED
    BY <1>1, <1>2, PTL DEF Spec

(***************************************************************************)
(* The theorems                                                            *)
(***************************************************************************)

\* Every variable keeps its type, whatever the bounds, and the locals are those
\* of the loop evolve() is in.
THEOREM TypeCorrect == Spec => []TypeOK
<1>1. IInv => TypeOK
    BY DEF IInv, MemoryOK, ControlInv, TypeOK
<1>. QED
    BY <1>1, InvariantHolds, PTL

\* The count of a slot is never below the number of individuals that hold it,
\* through every copy, clone, assignment, destruction and force_clean().
THEOREM CountsCoverIndividuals == Spec => []RefsCover
<1>1. IInv => RefsCover
    BY DEF IInv, MemoryOK
<1>. QED
    BY <1>1, InvariantHolds, PTL

\* No individual, in whichever vector or local, holds a slot that has been
\* dismissed: neither by a last reference nor by force_clean().
THEOREM NobodyDangles == Spec => []NoDangling
<1>1. IInv => NoDangling
    BY HeldAllocated DEF IInv, NoDangling
<1>. QED
    BY <1>1, InvariantHolds, PTL

\* What the counts leak does not outlive its generation: between two of them the
\* slots in use are those of the seeds, the population and the best.
THEOREM LeaksEndWithGeneration == Spec => []NothingLeaked
<1>1. IInv => NothingLeaked
    BY DEF IInv, Cleaned, NothingLeaked
<1>. QED
    BY <1>1, InvariantHolds, PTL

\* A mutation and a cross-over write to a buffer nobody else holds.
THEOREM WritesOwnBuffer == Spec => []OwnBuffer
<1>1. IInv => OwnBuffer
    BY DEF IInv
<1>. QED
    BY <1>1, InvariantHolds, PTL

\* They never leave it, for seeds of any lengths and however long the buffers
\* become.
THEOREM NeverOverrun == Spec => []StaysInBuffer
<1>1. IInv => StaysInBuffer
    BY DEF IInv, ControlInv, StaysInBuffer
<1>. QED
    BY <1>1, InvariantHolds, PTL

\* Where no seed is empty, no individual ever becomes empty.
THEOREM NobodyEmptied == Spec => []NeverEmptied
<1>1. IInv => NeverEmptied
    BY DEF IInv
<1>. QED
    BY <1>1, InvariantHolds, PTL
=============================================================================
