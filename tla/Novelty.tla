------------------------------ MODULE Novelty ------------------------------
(***************************************************************************)
(* What the knowledge is for, with no graph, no vertices and no cache: the *)
(* campaign takes one trace after the other, each to its end, and credits  *)
(* a testcase with what an element of its trace brings that no element has *)
(* brought before.  Knowledge.tla is shown to implement this as long as no *)
(* evaluation shares the graph.                                            *)
(***************************************************************************)
EXTENDS Naturals, Sequences

CONSTANTS
    Things,     \* what can be reached
    Worths,     \* what the elements of traces may bring, a function each
    Traces

VARIABLES
    worth,      \* what each element brings: it does not change
    todo,       \* the rest of the trace in hand
    reached,    \* what was brought so far
    credited    \* how often it was credited

vars == <<worth, todo, reached, credited>>

Init ==
    /\ worth \in Worths
    /\ todo = <<>>
    /\ reached = {}
    /\ credited = [x \in Things |-> 0]

\* The next trace is taken, none before the last one is done.
Take ==
    /\ todo = <<>>
    /\ todo' \in Traces
    /\ UNCHANGED <<worth, reached, credited>>

\* An element of it: what is new in it is credited, all of it is reached from now on.
Reach ==
    LET xs == worth[Head(todo)] IN
    /\ todo # <<>>
    /\ todo' = Tail(todo)
    /\ reached' = reached \union xs
    /\ credited' = [x \in Things |-> credited[x] + (IF x \in xs \ reached THEN 1 ELSE 0)]
    /\ UNCHANGED worth

Next == Take \/ Reach

Spec == Init /\ [][Next]_vars
=============================================================================
