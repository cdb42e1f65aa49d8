------------------------- MODULE MCIndividualMemory -------------------------
(* Model values and bounds for IndividualMemory. *)
EXTENDS IndividualMemory

\* An empty seed, or one that both a mutation and a cut can be in the middle of.
MCSeedLengths == {0, 2}
=============================================================================
