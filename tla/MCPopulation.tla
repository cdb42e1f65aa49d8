---------------------------- MODULE MCPopulation ----------------------------
(* Instances of Population for TLC. *)
EXTENDS Population, TLC

\* Four measures: without a score, the longer and the shorter input; with one,
\* two that differ and weigh the same.
MCMeasures == 0..3
MCWeight == <<1, 2, 2>> @@ 0 :> 0
MCUnsetKeys == {0, 1}

ContentSymmetry == Permutations(Contents)
=============================================================================
