-------------------------- MODULE IndividualMemory --------------------------
(***************************************************************************)
(* Who holds which slot of the MemoryManager while the evolver makes one   *)
(* generation from another (memory-manager.cpp, Individual and Evolver of  *)
(* evolution.cpp). A C++ object of type Individual is a place that holds   *)
(* the index of a slot; its copy, clone, assignment and destruction count  *)
(* the references of the slot, and force_clean() frees what it does not    *)
(* find among the seeds, the population and the best individuals.          *)
(*                                                                         *)
(* One action is one of these operations on one Individual, in the order   *)
(* of the code. Which individuals are mated, ranked or drawn, and how many *)
(* of them, is left open (Population says more about that).                *)
(***************************************************************************)
EXTENDS Buffers

CONSTANTS
    Seeds,        \* how many seeds there are
    SeedLengths,
    MinSize,      \* population_range.first
    BestSize,     \* best_individuals_t::max_size
    MaxNew,       \* bound: individuals of a population
    MaxGenerations,  \* bound: calls of evolve()
    MaxDrawn,     \* bound: best individuals and seeds drawn at a time
    MaxSlots,     \* bound: slots ever created
    MaxLength     \* bound: length of a buffer of the population

ASSUME IndividualMemoryAssumption ==
    /\ {Seeds, MinSize, BestSize, MaxNew, MaxDrawn, MaxGenerations, MaxSlots,
        MaxLength} \subseteq Nat
    /\ SeedLengths \subseteq Nat
    /\ Seeds <= MaxNew
    /\ Seeds <= MaxSlots

VARIABLES
    refs,         \* MemoryManager::refs; 0: the slot is not in the maps
    length,       \* MemoryManager::lengths
    next_index,
    holds,        \* the index each place holds; 0: there is no individual
    live,         \* which storage the population's vector uses
    size,         \* population->individuals.size()
    pc,           \* where evolve() or global_perturbation() is
    loop,         \* and in which of its loops
    perturbing,
    at,           \* the index of the loop
    count,        \* new_individuals.size()
    chosen,       \* n_bests.size(), or starting_individuals.size()
    into,         \* the storage assign() fills
    generations,
    overran       \* history: has an access left its buffer?

memory_vars == <<refs, length, next_index, holds>>
loop_vars == <<loop, perturbing, at>>
vector_vars == <<live, size, count, chosen, into>>
other_vars == <<generations, overran>>
vars == <<memory_vars, pc, loop_vars, vector_vars, other_vars>>

Slot == 1..MaxSlots
UNINIT_INDEX == 0

\* Every Individual there may be.
Storage == {"front", "back"}
Value(i) == <<"value", i>>   \* SeedHandler::values
Seed(i) == <<"seed", i>>     \* Population::seeds
Stored(storage, i) == <<storage, i>>
Ind(i) == Stored(live, i)    \* Population::individuals
BestInd(i) == <<"best", i>>
New(i) == <<"new", i>>
Drawn(i) == <<"drawn", i>>   \* n_bests or starting_individuals
Child == <<"child", 0>>      \* new_member, what a cross-over makes
Source == <<"source", 0>>    \* cur_ind, a copy of an individual
Mutant == <<"mutant", 0>>    \* what get_and_mutate returns

Place ==
    ({"value", "seed"} \X (1..Seeds)) \union ({"best"} \X (1..(BestSize + 1)))
    \union ((Storage \union {"new"}) \X (1..MaxNew)) \union ({"drawn"} \X (1..MaxDrawn))
    \union {Child, Source, Mutant}

Held(p) == holds[p] # UNINIT_INDEX
Holders(s) == {p \in Place : holds[p] = s}
Other(storage) == IF storage = "front" THEN "back" ELSE "front"

-----------------------------------------------------------------------------
\* MemoryManager::increase_count and decrease_count: nothing for a slot that is
\* not there; the last reference dismisses the slot.
Increased(r, s) == [t \in Slot |-> IF t = s /\ r[t] > 0 THEN r[t] + 1 ELSE r[t]]
Decreased(r, s) == [t \in Slot |-> IF t = s /\ r[t] > 0 THEN r[t] - 1 ELSE r[t]]
LengthsOf(r) == [t \in Slot |-> IF r[t] > 0 THEN length[t] ELSE 0]

\* The copy constructor, and operator=: what the place held before is not
\* released.  Mutant: the slot is not counted.
CountKept(r, s) == r
CountOfCopy(r, s) == Increased(r, s)
Copy(p, s) ==
    /\ holds' = [holds EXCEPT ![p] = s]
    /\ refs' = CountOfCopy(refs, s)
    /\ UNCHANGED <<length, next_index>>

Destroy(p) ==
    /\ holds' = [holds EXCEPT ![p] = UNINIT_INDEX]
    /\ refs' = Decreased(refs, holds[p])
    /\ length' = LengthsOf(refs')
    /\ UNCHANGED next_index

\* Individual::clone: a copy of the individual, then a slot of its own for the
\* copy; the reference the copy took is never given back.  Mutant: the copy in
\* MemoryManager::copy is shallow.
SharedSlot(s) == s
SlotOfCopy(s) == next_index
Clone(p, s, size_of_clone) ==
    /\ next_index <= MaxSlots
    /\ holds' = [holds EXCEPT ![p] = SlotOfCopy(s)]
    /\ refs' = [Increased(refs, s) EXCEPT ![next_index] = 1]
    /\ length' = [length EXCEPT ![next_index] = size_of_clone]
    /\ next_index' = next_index + 1

\* The slots of get_active_individual_indices().  Mutant: without the seeds.
IndicesOf(kinds) == {holds[p] : p \in {q \in Place : q[1] \in kinds}} \ {UNINIT_INDEX}
ActiveButSeeds == IndicesOf({live, "best"})
Active == IndicesOf({"seed", live, "best"})

-----------------------------------------------------------------------------
\* The seeds are read one by one, copied by the constructor of the population,
\* and copied again by init_population().
Init ==
    /\ next_index = Seeds + 1
    /\ \E lengths \in [1..Seeds -> SeedLengths] :
          length = [s \in Slot |-> IF s <= Seeds THEN lengths[s] ELSE 0]
    /\ holds = [p \in Place |-> IF p[1] \in {"value", "seed", "front"} /\ p[2] <= Seeds
                                THEN p[2] ELSE UNINIT_INDEX]
    /\ refs = [s \in Slot |-> IF s <= Seeds THEN 3 ELSE 0]
    /\ live = "front" /\ into = "front"
    /\ size = Seeds
    /\ pc = "run" /\ loop = "none" /\ perturbing = FALSE
    /\ at = 1 /\ count = 0 /\ chosen = 0
    /\ generations = 0 /\ overran = FALSE

Goto(next_pc, next_loop) == pc' = next_pc /\ loop' = next_loop

Evolve ==
    /\ pc = "run"
    /\ generations < MaxGenerations
    /\ generations' = generations + 1
    /\ Goto("rank", "none")
    /\ at' = 1
    /\ UNCHANGED <<memory_vars, vector_vars, perturbing, overran>>

Bests == {i \in 1..(BestSize + 1) : Held(BestInd(i))}

\* best_individuals.insert() of the individual at `at`: refused, or taken,
\* where there is no place left at the expense of another one. min_key may once
\* be of none, see Population.AtMostOneMore.
Refuse ==
    /\ pc = "rank" /\ at <= size
    /\ at' = at + 1
    /\ UNCHANGED <<memory_vars, pc, loop, perturbing, vector_vars, other_vars>>

EraseWorst ==
    /\ pc = "rank" /\ at <= size
    /\ \/ Cardinality(Bests) <= BestSize /\ UNCHANGED memory_vars
       \/ /\ Cardinality(Bests) >= BestSize
          /\ \E i \in Bests : Destroy(BestInd(i))
    /\ Goto("insert", "none")
    /\ UNCHANGED <<perturbing, at, vector_vars, other_vars>>

InsertBest ==
    /\ pc = "insert"
    /\ \E i \in (1..(BestSize + 1)) \ Bests :
          /\ \A j \in 1..(i - 1) : j \in Bests
          /\ Copy(BestInd(i), holds[Ind(at)])
    /\ at' = at + 1
    /\ Goto("rank", "none")
    /\ UNCHANGED <<perturbing, vector_vars, other_vars>>

Ranked ==
    /\ pc = "rank" /\ at > size
    /\ pc' = "next"
    /\ \/ loop' = "mates" /\ perturbing' = FALSE
       \/ loop' = "draw" /\ perturbing' = TRUE
    /\ UNCHANGED <<memory_vars, at, vector_vars, other_vars>>

-----------------------------------------------------------------------------
\* A cross-over of two individuals, for the mates that were found, or to fill
\* up a perturbed population.
CrossOver ==
    /\ pc = "next" /\ loop \in {"mates", "cross"}
    /\ count < (IF loop = "cross" THEN size ELSE MaxNew)
    /\ \E i1, i2 \in 1..size :
        LET lengths == <<length[holds[Ind(i1)]], length[holds[Ind(i2)]]>> IN
        \E outcome \in Crossed(lengths[1], lengths) :
            /\ Clone(Child, holds[Ind(i1)], outcome.buffer.length)
            /\ overran' = (overran \/ ~InBounds(outcome))
    /\ pc' = "mutate"
    /\ UNCHANGED <<loop_vars, vector_vars, generations>>

\* get_and_mutate(index): a copy of one of the individuals, as long as there
\* are too few, or where there are too few best ones.
TakeIndividual ==
    /\ pc = "next"
    /\ \/ loop = "reinject" /\ count < MinSize
       \/ loop = "remaining"
    /\ count < MaxNew
    /\ \E i \in 1..size : Copy(Source, holds[Ind(i)])
    /\ pc' = "mutate"
    /\ UNCHANGED <<loop_vars, vector_vars, other_vars>>

\* The next of the individuals that were drawn; it is not copied.
TakeDrawn ==
    /\ pc = "next" /\ loop = "drawn" /\ at <= chosen
    /\ count < MaxNew
    /\ pc' = "mutate"
    /\ UNCHANGED <<memory_vars, loop_vars, vector_vars, other_vars>>

\* The argument of get_and_mutate.
Original == IF Held(Child) THEN holds[Child]
            ELSE IF Held(Source) THEN holds[Source] ELSE holds[Drawn(at)]

\* get_and_mutate: mostly a plain clone.
PlainClone ==
    /\ pc = "mutate"
    /\ Clone(Mutant, Original, length[Original])
    /\ pc' = "push"
    /\ UNCHANGED <<loop_vars, vector_vars, other_vars>>

\* Or a mutation, until the result is not empty.
Mutate ==
    /\ pc \in {"mutate", "again"}
    /\ \E outcome \in Mutated(length[Original]) :
        /\ Clone(Mutant, Original, outcome.buffer.length)
        /\ overran' = (overran \/ ~InBounds(outcome))
        /\ pc' = IF outcome.buffer.length > 0 THEN "push" ELSE "retry"
    /\ UNCHANGED <<loop_vars, vector_vars, generations>>

DestroyEmpty ==
    /\ pc = "retry"
    /\ Destroy(Mutant)
    /\ pc' = "again"
    /\ UNCHANGED <<loop_vars, vector_vars, other_vars>>

\* cur_ind is gone before the result is pushed.
DestroySource ==
    /\ pc = "push" /\ Held(Source)
    /\ Destroy(Source)
    /\ UNCHANGED <<pc, loop_vars, vector_vars, other_vars>>

PushBack ==
    /\ pc = "push" /\ ~Held(Source)
    /\ length[holds[Mutant]] <= MaxLength
    /\ Copy(New(count + 1), holds[Mutant])
    /\ count' = count + 1
    /\ pc' = "pushed"
    /\ UNCHANGED <<loop_vars, live, size, chosen, into, other_vars>>

DestroyMutant ==
    /\ pc = "pushed"
    /\ Destroy(Mutant)
    /\ at' = IF loop = "drawn" THEN at + 1 ELSE at
    /\ pc' = IF Held(Child) THEN "release" ELSE "next"
    /\ UNCHANGED <<loop, perturbing, vector_vars, other_vars>>

DestroyChild ==
    /\ pc = "release"
    /\ Destroy(Child)
    /\ pc' = "next"
    /\ UNCHANGED <<loop_vars, vector_vars, other_vars>>

-----------------------------------------------------------------------------
\* get_best(): each of the best ones once.
DrawBest ==
    /\ pc = "next" /\ loop = "draw"
    /\ chosen < MaxDrawn
    /\ \E i \in Bests :
          /\ \A j \in 1..chosen : holds[Drawn(j)] # holds[BestInd(i)]
          /\ Copy(Drawn(chosen + 1), holds[BestInd(i)])
    /\ chosen' = chosen + 1
    /\ UNCHANGED <<pc, loop_vars, live, size, count, into, other_vars>>

\* For a perturbation the first of the seeds follow.
DrawSeed ==
    /\ pc = "next" /\ loop = "seeds" /\ at <= Seeds
    /\ chosen < MaxDrawn
    /\ Copy(Drawn(chosen + 1), holds[Seed(at)])
    /\ chosen' = chosen + 1
    /\ at' = at + 1
    /\ UNCHANGED <<pc, loop, perturbing, live, size, count, into, other_vars>>

\* One loop ends and the next begins. The adjustment is on the toss of a coin.
NextLoop ==
    /\ pc = "next"
    /\ \/ loop = "mates" /\ loop' = "reinject"
       \/ loop = "reinject" /\ count >= MinSize /\ loop' \in {"draw", "assign"}
       \/ loop = "draw" /\ loop' = IF perturbing THEN "seeds" ELSE "drawn"
       \/ loop = "seeds" /\ loop' = "drawn"
       \/ loop = "drawn" /\ at > chosen
          /\ loop' = IF perturbing THEN "cross" ELSE "remaining"
       \/ loop = "cross" /\ count >= size /\ loop' = "assign"
       \/ loop = "remaining" /\ loop' = "forget"
       \/ loop = "forget" /\ chosen = 0 /\ loop' = "assign"
    /\ at' = 1
    /\ UNCHANGED <<memory_vars, pc, perturbing, vector_vars, other_vars>>

\* n_bests goes out of scope.
ForgetDrawn ==
    /\ \/ pc = "next" /\ loop = "forget"
       \/ pc = "perturbed" /\ count = 0
    /\ chosen > 0
    /\ Destroy(Drawn(chosen))
    /\ chosen' = chosen - 1
    /\ UNCHANGED <<pc, loop_vars, live, size, count, into, other_vars>>

-----------------------------------------------------------------------------
\* individuals.assign(): within the storage of the vector, or, when it is too
\* small, in a new one.
AssignBegin ==
    /\ pc = "next" /\ loop = "assign"
    /\ \/ into' = live
       \/ count > size /\ into' = Other(live)
    /\ at' = 1
    /\ pc' = "assign"
    /\ UNCHANGED <<memory_vars, loop, perturbing, live, size, count, chosen, other_vars>>

\* operator= where there is an individual already, else the copy constructor.
AssignNext ==
    /\ pc = "assign" /\ at <= count
    /\ Copy(Stored(into, at), holds[New(at)])
    /\ at' = at + 1
    /\ UNCHANGED <<pc, loop, perturbing, vector_vars, other_vars>>

\* What is left of the old population: the surplus, or all of it.
Surplus == {i \in 1..size : into = live => i > count}

AssignDestroy ==
    /\ pc = "assign" /\ at > count
    /\ \E i \in Surplus :
          /\ Held(Ind(i))
          /\ \A j \in Surplus : j < i => ~Held(Ind(j))
          /\ Destroy(Ind(i))
    /\ UNCHANGED <<pc, loop_vars, vector_vars, other_vars>>

\* In global_perturbation() all locals go before evolve() cleans.
AssignEnd ==
    /\ pc = "assign" /\ at > count
    /\ \A i \in Surplus : ~Held(Ind(i))
    /\ live' = into
    /\ size' = count
    /\ pc' = IF perturbing THEN "perturbed" ELSE "clean"
    /\ UNCHANGED <<memory_vars, loop_vars, count, chosen, into, other_vars>>

ForgetNew ==
    /\ pc \in {"perturbed", "cleaned"} /\ count > 0
    /\ Destroy(New(count))
    /\ count' = count - 1
    /\ UNCHANGED <<pc, loop_vars, live, size, chosen, into, other_vars>>

Perturbed ==
    /\ pc = "perturbed" /\ count = 0 /\ chosen = 0
    /\ pc' = "clean"
    /\ UNCHANGED <<memory_vars, loop_vars, vector_vars, other_vars>>

\* MemoryManager::force_clean of all but the active slots.  Mutant: only in
\* the generations without a perturbation.
CleanedUnlessPerturbed(s) == ~perturbing /\ s \notin Active
Inactive(s) == s \notin Active

ForceClean ==
    /\ pc = "clean"
    /\ refs' = [s \in Slot |-> IF Inactive(s) THEN 0 ELSE refs[s]]
    /\ length' = LengthsOf(refs')
    /\ pc' = "cleaned"
    /\ UNCHANGED <<next_index, holds, loop_vars, vector_vars, other_vars>>

\* new_individuals goes out of scope when evolve() returns.
Return ==
    /\ pc = "cleaned" /\ count = 0
    /\ Goto("run", "none")
    /\ at' = 1
    /\ perturbing' = FALSE
    /\ UNCHANGED <<memory_vars, vector_vars, other_vars>>

Next ==
    \/ Evolve \/ Refuse \/ EraseWorst \/ InsertBest \/ Ranked
    \/ CrossOver \/ TakeIndividual \/ TakeDrawn
    \/ PlainClone \/ Mutate \/ DestroyEmpty
    \/ DestroySource \/ PushBack \/ DestroyMutant \/ DestroyChild
    \/ DrawBest \/ DrawSeed \/ NextLoop \/ ForgetDrawn
    \/ AssignBegin \/ AssignNext \/ AssignDestroy \/ AssignEnd
    \/ ForgetNew \/ Perturbed \/ ForceClean \/ Return

Spec == Init /\ [][Next]_vars

-----------------------------------------------------------------------------

TypeOK ==
    /\ refs \in [Slot -> Nat]
    /\ length \in [Slot -> Nat]
    /\ next_index \in 1..(MaxSlots + 1)
    /\ holds \in [Place -> Slot \union {UNINIT_INDEX}]
    /\ live \in Storage /\ into \in Storage
    /\ {size, count, at, chosen, generations} \subseteq Nat
    /\ pc \in {"run", "rank", "insert", "next", "mutate", "again", "retry", "push",
               "pushed", "release", "assign", "perturbed", "clean", "cleaned"}
    /\ loop \in {"none", "mates", "reinject", "draw", "seeds", "drawn", "cross", "remaining",
                 "forget", "assign"}
    /\ perturbing \in BOOLEAN
    /\ overran \in BOOLEAN

\* The count of a slot is never below the number of individuals that hold it,
\* though operator= does not release what it overwrites and clone() counts its
\* source once more: both err on the side of a leak.
RefsCover == \A s \in Slot : Cardinality(Holders(s)) <= refs[s]

\* No individual ever holds a slot that has been dismissed: force_clean frees
\* slots behind the back of the counts, and must find each one in use.
NoDangling == \A p \in Place : Held(p) => refs[holds[p]] > 0

\* While a generation runs, no buffer is kept but those of the seeds, of the
\* population and of the best individuals: what the counts leak, and what a
\* perturbation throws away, is gone with each generation.
NothingLeaked == pc = "run" => \A s \in Slot : refs[s] > 0 => s \in Active

\* What a mutation or a cross-over has written to is nobody else's buffer: a
\* parent, a seed or a best individual is not changed under its hash and score.
OwnBuffer ==
    /\ pc \in {"push", "retry"} => Holders(holds[Mutant]) = {Mutant}
    /\ Held(Child) => Holders(holds[Child]) = {Child}

\* No mutation and no cross-over, of individuals of any length, reads or writes
\* past the end of a buffer.
StaysInBuffer == ~overran

\* Where no seed is empty no individual ever is: the only constraint
\* get_and_mutate puts on a mutation, which it does not on a plain clone.
NeverEmptied ==
    (\A i \in 1..Seeds : length[holds[Seed(i)]] > 0)
        => \A s \in Slot : refs[s] > 0 => length[s] > 0
=============================================================================
