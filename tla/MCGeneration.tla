---------------------------- MODULE MCGeneration ----------------------------
(* Instances of Generation for TLC. *)
EXTENDS Generation, TLC

\* Pids are interchangeable: they are only compared for equality.
PidSymmetry == Permutations(Pids)
=============================================================================
