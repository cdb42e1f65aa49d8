-------------------------- MODULE BestIndividuals --------------------------
(***************************************************************************)
(* The best individuals found so far: Population::best_individuals_t of    *)
(* evolution.cpp with the order of measure.cpp, as a value and the         *)
(* operations on it. Population keeps one.                                 *)
(*                                                                         *)
(* A measure stands for a measure_t (scores and length), its weight for    *)
(* its place in the order of measure_t::operator<. Different measures may  *)
(* weigh the same. The hash of a content is the content itself.            *)
(***************************************************************************)
EXTENDS Integers, FiniteSets, Sequences

CONSTANTS
    Contents,     \* what a buffer can hold
    Measures,
    Weight,       \* [Measures -> Nat]
    UnsetKeys,    \* what a default-initialised measure_t may be: no score, and
                  \* a length that nobody has written
    BestSize      \* best_individuals_t::max_size, BEST_CANDIDATES_SIZE

ASSUME BestAssumption ==
    /\ Weight \in [Measures -> Nat]
    /\ UnsetKeys \subseteq Measures
    /\ BestSize \in Nat \ {0}

Entries == [content : Contents, measure : Measures]

Best == [container : SUBSET Entries, hashes : SUBSET Contents,
         min_key : Measures, max_key : Measures]

\* measure_t::operator< and operator>: the latter is "differs and not less",
\* so of two measures of the same weight each is greater than the other.
Less(a, b) == Weight[a] < Weight[b]
Greater(a, b) == a # b /\ ~Less(a, b)

NewBest ==
    [container : {{}}, hashes : {{}}, min_key : UnsetKeys, max_key : UnsetKeys]

Full(b) == Cardinality(b.container) >= BestSize

\* What container.find(min_key) may return: elements that weigh as much. The
\* key may be of no element, then nothing is removed.
Worst(b) == {e \in b.container : Weight[e.measure] = Weight[b.min_key]}
Removed(b) == IF Worst(b) = {} THEN {{}} ELSE {{e} : e \in Worst(b)}

\* consolidate_min_key(): a least key of the container.  Mutant: the comparison
\* is the other way round.
GreatestKey(entries) ==
    CHOOSE m \in {e.measure : e \in entries} :
        \A e \in entries : Weight[m] >= Weight[e.measure]
LeastKey(entries) ==
    CHOOSE m \in {e.measure : e \in entries} :
        \A e \in entries : Weight[m] <= Weight[e.measure]

Contained(entries) == {e.content : e \in entries}

\* min_key after an insertion into a full container.  Mutant: it is not
\* consolidated.
MinKeyKept(b, kept) == b.min_key
ConsolidatedMinKey(b, kept) == LeastKey(kept)

\* The hashes but those of what is removed.  Mutant: they are not erased.
HashesKept(b, removed) == b.hashes
HashesLeft(b, removed) == b.hashes \ Contained(removed)

\* The insertion into a full container, at the expense of `removed`.
Replace(b, removed, entry) ==
    LET kept == (b.container \ removed) \union {entry}
    IN  [container |-> kept,
         hashes |-> HashesLeft(b, removed) \union {entry.content},
         min_key |-> ConsolidatedMinKey(b, kept),
         max_key |-> IF Greater(entry.measure, b.max_key)
                     THEN entry.measure ELSE b.max_key]

\* The insertion into a container that has a place left: a new worst element
\* is not looked at as a best one.
Add(b, entry) ==
    [container |-> b.container \union {entry},
     hashes |-> b.hashes \union {entry.content},
     min_key |-> IF Less(entry.measure, b.min_key)
                 THEN entry.measure ELSE b.min_key,
     max_key |-> IF ~Less(entry.measure, b.min_key) /\ Greater(entry.measure, b.max_key)
                 THEN entry.measure ELSE b.max_key]

Known(b, entry) == entry.content \in b.hashes

\* The individual is not taken: a duplicate, or worse than all in a full
\* container.
Refuses(b, entry) == Known(b, entry) \/ (Full(b) /\ Less(entry.measure, b.min_key))

\* What insert() may leave behind, for an individual it takes.
Inserted(b, entry) ==
    IF Full(b) THEN {Replace(b, removed, entry) : removed \in Removed(b)}
               ELSE {Add(b, entry)}

\* The value insert() returns: max_key was set.
Improves(b, entry) ==
    /\ ~Refuses(b, entry)
    /\ Greater(entry.measure, b.max_key)
    /\ Full(b) \/ ~Less(entry.measure, b.min_key)

\* How many individuals get_best(num) returns: it returns one before it looks
\* at num. `remaining` is what is missing to num.  Mutant: it stops one early.
BestCountOneEarly(b, num) ==
    LET size == Cardinality(b.container)
    IN  IF size = 0 THEN 0 ELSE IF num < 2 \/ size < 2 THEN 1
        ELSE IF num > size THEN size - 1 ELSE num - 1
BestCount(b, num) ==
    LET size == Cardinality(b.container)
    IN  IF size = 0 THEN 0 ELSE IF num = 0 THEN 1
        ELSE IF num > size THEN size ELSE num
Remaining(b, num) ==
    IF num > Cardinality(b.container) THEN num - Cardinality(b.container) ELSE 0
=============================================================================
