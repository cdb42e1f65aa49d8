----------------------------- MODULE Population -----------------------------
(***************************************************************************)
(* The evolver (Evolver::evolve and global_perturbation of evolution.cpp)  *)
(* and the population it works on: individuals are ranked into the best    *)
(* ones, mated, topped up by reinjection, or, when nothing improves, the   *)
(* population is perturbed.                                                *)
(*                                                                         *)
(* The evolver runs in the main thread, alone: one action is one of its    *)
(* loops, or one turn of the ranking loop. A mutation, like a random seed, *)
(* may have any content, and nothing depends on the content of an          *)
(* individual before it is ranked: populations are kept as the number of   *)
(* their individuals, and the content is chosen when it is ranked.         *)
(***************************************************************************)
EXTENDS BestIndividuals

CONSTANTS
    PopSize,         \* population-initial-size
    Deviation,       \* population-deviation-size
    MaxStale,        \* max-evolution-fixpoint
    SlowMating,      \* slow-mating-strategies
    MaxGenerations   \* bound: calls of evolve()

ASSUME PopulationAssumption ==
    /\ PopSize \in Nat \ {0}
    /\ Deviation \in 0..PopSize
    /\ MaxStale \in Nat
    /\ SlowMating \in BOOLEAN
    /\ MaxGenerations \in Nat

VARIABLES
    pc,             \* where evolve() is; "run": the testcases are executed
    seeds,          \* how many seeds there are
    individuals,    \* how many individuals the population has
    best,
    stale,          \* constant_score_iterations
    ranked,         \* how many individuals have been ranked
    improved,
    new_individuals,
    last_injected,  \* last_injected_performer
    generations,
    unimproved,     \* history: generations since the last improvement or
                    \* perturbation
    dropped         \* history: the weights of what was refused or removed

pop_vars == <<seeds, individuals>>
rank_vars == <<best, ranked, improved, dropped>>
count_vars == <<stale, generations, unimproved>>
new_vars == <<new_individuals, last_injected>>
vars == <<pc, pop_vars, rank_vars, count_vars, new_vars>>

\* population_range and double_deviation_population_size
MinPop == PopSize - Deviation
MaxPop == PopSize + Deviation
DoubleDeviation == MaxPop - MinPop

\* The random seeds fill up what the file has left, and up to a deviation more.
\* init_population() starts with all of them. The file has no more seeds than a
\* population: the number of random ones would wrap.
Init ==
    /\ pc = "run"
    /\ seeds \in {PopSize} \union PopSize..(MaxPop - 1)
    /\ individuals = seeds
    /\ best \in NewBest
    /\ stale = 0
    /\ ranked = 0
    /\ improved = FALSE
    /\ new_individuals = 0
    /\ last_injected = 0
    /\ generations = 0
    /\ unimproved = 0
    /\ dropped = {}

Evolve ==
    /\ pc = "run"
    /\ generations < MaxGenerations
    /\ pc' = "rank"
    /\ generations' = generations + 1
    /\ stale' = stale + 1
    /\ improved' = FALSE
    /\ ranked' = 0
    /\ new_individuals' = 0
    /\ last_injected' = 0
    /\ UNCHANGED <<pop_vars, best, unimproved, dropped>>

Weights(entries) == {Weight[e.measure] : e \in entries}

\* One individual, with whatever measure its run has got.
Rank ==
    /\ pc = "rank"
    /\ ranked < individuals
    /\ ranked' = ranked + 1
    /\ \E entry \in Entries :
        \/ /\ Refuses(best, entry)
           /\ dropped' = IF Known(best, entry) THEN dropped
                         ELSE dropped \union Weights({entry})
           /\ UNCHANGED <<best, improved>>
        \/ /\ ~Refuses(best, entry)
           /\ best' \in Inserted(best, entry)
           /\ improved' = (improved \/ Improves(best, entry))
           /\ dropped' = dropped \union Weights(best.container \ best'.container)
    /\ UNCHANGED <<pc, pop_vars, count_vars, new_vars>>

\* Mutant: a generation too late.
StagnatesLater == ~improved /\ stale > MaxStale + 1
Stagnates == ~improved /\ stale > MaxStale

\* All are ranked: go on to breed, or to perturb the population.
Ranked ==
    /\ pc = "rank"
    /\ ranked = individuals
    /\ unimproved' = IF improved THEN 0 ELSE unimproved + 1
    /\ \/ Stagnates /\ pc' = "perturb" /\ stale' = 0
       \/ ~Stagnates /\ pc' = "breed" /\ UNCHANGED stale
    /\ UNCHANGED <<pop_vars, rank_vars, generations, new_vars>>

\* How many pairs the mating strategies make of `size` individuals: elitism
\* pairs neighbours in the ranking, uniform mating draws indices and keeps one
\* pair for each first index, closeness pairs what is similar.
Pairs(size) ==
    {size \div 2}
    \union (IF size = 0 THEN {0} ELSE 1..((size + 1) \div 2))
    \union (IF SlowMating THEN 0..(size \div 2) ELSE {})

Breed ==
    /\ pc = "breed"
    /\ new_individuals' \in Pairs(individuals)
    /\ pc' = "reinject"
    /\ UNCHANGED <<pop_vars, rank_vars, count_vars, last_injected>>

\* Reading past the end of a vector is undefined: "out_of_range" is the end.
Within(in_range, next) == pc' = IF in_range THEN next ELSE "out_of_range"

\* Whether the children are fewer than a population has at least.  Mutant: that
\* is not asked.
AlwaysTooFew == TRUE
TooFew == new_individuals < MinPop

\* The index last reinjected.  Mutant: the next one.
NextIndex(injected) == injected
LastIndex(injected) == injected - 1

\* The first individuals, mutated, up to the least size of a population.
Reinject ==
    LET injected == MinPop - new_individuals
    IN  /\ pc = "reinject"
        /\ \/ ~TooFew /\ pc' = "adjust" /\ UNCHANGED new_vars
           \/ /\ TooFew
              /\ Within(injected <= individuals, "adjust")
              /\ new_individuals' = new_individuals + injected
              /\ last_injected' = LastIndex(injected)
        /\ UNCHANGED <<pop_vars, rank_vars, count_vars>>

\* next_number(limit) + 1: with no limit the number is 0.  Mutant: the limit
\* itself is drawn too.
AdjustmentsOneMore == 1..(DoubleDeviation + 1)
Adjustments == {1} \union 1..DoubleDeviation

\* On the toss of a coin, some of the best ones, mutated; where there are too
\* few, individuals of this population from the last reinjected one on.
Adjust ==
    /\ pc = "adjust"
    /\ \/ pc' = "assign" /\ UNCHANGED new_vars
       \/ /\ \E num \in Adjustments :
                LET remaining == Remaining(best, num)
                IN  /\ Within(remaining > 0 => last_injected + remaining <= individuals,
                              "assign")
                    /\ new_individuals' =
                            new_individuals + BestCount(best, num) + remaining
          /\ UNCHANGED last_injected
    /\ UNCHANGED <<pop_vars, rank_vars, count_vars>>

\* global_perturbation(): half of the population from the best ones, half from
\* the seeds, the rest crossed over from two different individuals that are
\* drawn among the first `bests`. With fewer than two of them to draw from the
\* loop does not end.
Perturb ==
    LET half == individuals \div 2
        bests == BestCount(best, half)
    IN  /\ pc = "perturb"
        /\ Within(half <= seeds,
                  IF bests + half < individuals /\ bests < 2 THEN "spin" ELSE "assign")
        /\ new_individuals' = IF bests + half > individuals THEN bests + half ELSE individuals
        /\ unimproved' = 0
        /\ UNCHANGED <<pop_vars, rank_vars, stale, generations, last_injected>>

Assign ==
    /\ pc = "assign"
    /\ individuals' = new_individuals
    /\ pc' = "run"
    /\ new_individuals' = 0
    /\ UNCHANGED <<seeds, rank_vars, count_vars, last_injected>>

Next ==
    \/ Evolve \/ Rank \/ Ranked
    \/ Breed \/ Reinject \/ Adjust
    \/ Perturb \/ Assign

Spec == Init /\ [][Next]_vars

-----------------------------------------------------------------------------

Places == {"run", "rank", "breed", "reinject", "adjust", "perturb", "assign",
           "spin", "out_of_range"}

TypeOK ==
    /\ pc \in Places
    /\ seeds \in Nat
    /\ individuals \in Nat
    /\ best \in Best
    /\ stale \in Nat
    /\ ranked \in Nat
    /\ improved \in BOOLEAN
    /\ new_individuals \in Nat
    /\ last_injected \in Nat
    /\ generations \in Nat
    /\ unimproved \in Nat
    /\ dropped \subseteq Nat

\* The hashes are exactly those of the contents that are kept, and no content
\* is kept twice: insert() and its removal keep the two in step.
BestDistinct ==
    /\ best.hashes = Contained(best.container)
    /\ \A e, f \in best.container : e.content = f.content => e = f

\* Nothing that was refused for its measure or removed from the best ones
\* weighs more than what is kept: min_key, which is wrong until the container
\* is full for the first time, never costs a better individual its place.
BestKept == \A e \in best.container, w \in dropped : Weight[e.measure] >= w

\* The container outgrows its size by one element at most: min_key names none
\* of its elements once, when it is full for the first time.
AtMostOneMore ==
    /\ Cardinality(best.container) <= BestSize + 1
    /\ Cardinality(best.container) > BestSize => Worst(best) # {}

\* What the properties below need of the options: a deviation of up to a third
\* of the population. With none at all, Adjust still adds an individual.
ModestDeviation == Deviation > 0 /\ 3 * Deviation <= PopSize

\* Between generations the population has a size of the range that the option
\* population-deviation-size announces.
SizeInRange == ModestDeviation /\ pc = "run" => individuals \in MinPop..MaxPop

\* Reinjection never reads past the end of the population, nor a perturbation
\* past the end of the seeds; as long as there are enough different individuals
\* among the best.
InRange == ModestDeviation /\ Cardinality(best.container) >= DoubleDeviation - 1
                => pc # "out_of_range"

\* The draw of two different indices in a perturbation ends, but for a
\* population of three and for a single best individual.
DrawEnds == pc = "spin" => individuals = 3 \/ Cardinality(best.container) < 2

\* No more than max-evolution-fixpoint generations in a row fail to improve
\* before the population is perturbed. (That it is perturbed only then does not
\* hold: the counter is raised by generations that improve, too.)
FixpointBound == pc = "run" => unimproved <= MaxStale
=============================================================================
