------------------------------ MODULE Buffers ------------------------------
(***************************************************************************)
(* The buffers of memory-manager.cpp, and what the mutations and the       *)
(* cross-overs do to them (mutations.cpp, cross-overs.cpp).                *)
(*                                                                         *)
(* A buffer is its length and what is allocated for it; its bytes are left *)
(* out. An operator yields a set of outcomes: the buffer of the new        *)
(* individual, and the accesses through plain pointers on the way there.   *)
(* An access is how many bytes it needs, and how many the buffer had.      *)
(***************************************************************************)
EXTENDS Integers, FiniteSets

CONSTANTS
    Multiplier,   \* MAX_INPUT_SIZE_MULTIPLIER
    Duplicator,   \* MAX_INPUT_SIZE_DUPLICATOR
    Shuffled,     \* the most bytes that are shuffled
    Digits,       \* of the largest 64-bit integer
    Segment       \* MIN_SEGMENT_SIZE

ASSUME BuffersAssumption ==
    {Multiplier, Duplicator, Shuffled, Digits, Segment} \subseteq Nat \ {0}

Buffer == [length : Nat, capacity : Nat]
Access == [reach : Nat, capacity : Nat]
Outcome == [buffer : Buffer, accesses : SUBSET Access]

\* Rand::next_number(limit)
Draw(limit) == IF limit < 1 THEN {0} ELSE 0..(limit - 1)

\* MemoryManager::create: at least one byte.  Mutant: as many as asked for.
ExactCapacity(length) == length
CreatedCapacity(length) == IF length < 1 THEN 1 ELSE length
Created(length) == [length |-> length, capacity |-> CreatedCapacity(length)]

\* insert_bytes: whatever the place, the buffer is reallocated.
Inserted(buffer, number) ==
    [length |-> buffer.length + number, capacity |-> buffer.length + number]

\* remove_bytes: moved within what is allocated.
Removed(buffer, number) == [buffer EXCEPT !.length = @ - number]

Reaching(buffer, reach) == [reach |-> reach, capacity |-> buffer.capacity]
Only(buffer, reach) ==
    [buffer |-> buffer, accesses |-> {Reaching(buffer, reach)}]
Unchanged(buffer) == [buffer |-> buffer, accesses |-> {}]

-----------------------------------------------------------------------------
\* The mutations of a fresh clone of `length` bytes.

FlipBit(length) == {Only(Created(length), idx + 1) : idx \in Draw(length)}
ChangeByte(length) == {Only(Created(length), idx + 1) : idx \in Draw(length)}

InsertByte(length) ==
    {Only(Inserted(Created(length), 1), idx + 1) : idx \in Draw(length + 1)}

\* The last byte is read or zeroed.  Mutants: a single byte is removed too; or
\* one is removed from nothing.
SomeBytes(length) == length >= 1
AnyBytes(length) == TRUE
EnoughBytes(length) == length >= 2
EraseByte(length) ==
    IF EnoughBytes(length)
    THEN {[buffer |-> Removed(Created(length), 1),
           accesses |-> {Reaching(Created(length), length)}]}
    ELSE {Unchanged(Created(length))}

SwapByte(length) ==
    IF length < 2 THEN {Unchanged(Created(length))}
    ELSE {[buffer |-> Created(length),
           accesses |-> {Reaching(Created(length), pair[1] + 1),
                         Reaching(Created(length), pair[2] + 1)}] :
              pair \in {p \in Draw(length) \X Draw(length) : p[1] # p[2]}}

ShuffleBytes(length) ==
    IF length < 2 THEN {Unchanged(Created(length))}
    ELSE UNION {{Only(Created(length), start + amount) :
                    start \in Draw(length - amount)} :
                amount \in 1..(IF length < Shuffled THEN length ELSE Shuffled)}

\* The byte is read before the insertion.
DuplicateByte(length) ==
    UNION {{[buffer |-> Inserted(Created(length), mul),
             accesses |-> {Reaching(Created(length), idx + 1),
                           Reaching(Inserted(Created(length), mul), idx + mul)}] :
               idx \in Draw(length)} : mul \in 1..Multiplier}

\* The copies follow the range.
DuplicateBytes(length) ==
    UNION {IF range >= length THEN {Unchanged(Created(length))}
           ELSE {LET grown == Inserted(Created(length), mul * range)
                 IN  Only(grown, idx + range + mul * range) :
                     idx \in Draw(length - range), mul \in 1..Multiplier} :
           range \in 1..Duplicator}

\* A run of digits is overwritten by a value that may be longer or shorter.
WriteInteger(length, start, digits, written) ==
    LET grown == IF written > digits
                 THEN Inserted(Created(length), written - digits)
                 ELSE Created(length)
    IN  [buffer |-> grown,
         accesses |-> {Reaching(Created(length), start + digits),
                       Reaching(grown, start + written)}]
ChangeASCIIInteger(length) ==
    {Unchanged(Created(length))}
    \union {WriteInteger(length, run[1], run[2], run[3]) :
               run \in {r \in (0..length) \X (1..length) \X (1..Digits) :
                            r[1] + r[2] <= length}}

Mutated(length) ==
    FlipBit(length) \union ChangeByte(length) \union InsertByte(length)
    \union EraseByte(length) \union SwapByte(length) \union ShuffleBytes(length)
    \union DuplicateByte(length) \union DuplicateBytes(length)
    \union ChangeASCIIInteger(length)

-----------------------------------------------------------------------------
\* The cross-overs of two individuals of these lengths: the child is a clone of
\* one of them, and of its length. The byte at `at` is taken from the parent,
\* or drawn where the parent is too short.

TakenByte(child, parent, at) ==
    {Reaching(Created(child), at + 1)}
    \union IF at < parent THEN {Reaching(Created(parent), at + 1)} ELSE {}

\* SinglePointCrossOver and UniformCrossOver: each byte from either parent,
\* on one or the other side of a point or at random.
PointOrUniform(child, parents) ==
    {[buffer |-> Created(child),
      accesses |-> UNION {TakenByte(child, parents[taken[at]], at) : at \in 0..(child - 1)}] :
         taken \in [0..(child - 1) -> 1..2]}

\* NPointsCrossOver: the child is cut at ascending points below its length; what
\* follows the last one is left as cloned. A segment comes from a parent that is
\* long enough, or is drawn.
Cuts(child) == UNION {[points -> 1..2] : points \in SUBSET (0..(child - 1))}
CutAt(child, parents, taken) ==
    [buffer |-> Created(child),
     accesses |->
        UNION {{Reaching(Created(child), to)}
               \union IF to <= parents[taken[to]]
                      THEN {Reaching(Created(parents[taken[to]]), to)} ELSE {} :
               to \in {t \in DOMAIN taken : t > 0}}]
NPoints(child, parents) ==
    IF Segment > child THEN {Unchanged(Created(child))}
    ELSE {CutAt(child, parents, taken) : taken \in Cuts(child)}

Crossed(child, parents) == PointOrUniform(child, parents) \union NPoints(child, parents)

-----------------------------------------------------------------------------
\* Whether the accesses stay within what is allocated.
InBounds(outcome) == \A a \in outcome.accesses : a.reach <= a.capacity
=============================================================================
