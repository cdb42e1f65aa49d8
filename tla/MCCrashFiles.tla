---------------------------- MODULE MCCrashFiles ----------------------------
(* Model values and bounds for CrashFiles. *)
EXTENDS CrashFiles

CONSTANT segv  \* a kind of crash

MCKinds == {segv, Unknown}

\* An earlier session left a dump of its first testcase, which may become a
\* directory before or after this session has one.
MCLeftovers ==
    {[Nothing EXCEPT !.dump[1] = "complete", !.crash_of = [t \in Testcases |-> Unknown]]}
=============================================================================
