---------------------------- MODULE MCSutRuntime ----------------------------
(* Instances of SutRuntime for TLC. *)
EXTENDS SutRuntime, TLC

\* Processes, and the threads of all of them, are interchangeable.
RuntimeSymmetry == Permutations(Procs) \union Permutations(Threads)
=============================================================================
