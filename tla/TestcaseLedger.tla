--------------------------- MODULE TestcaseLedger ---------------------------
(***************************************************************************)
(* What the fuzzer promises about one generation of testcases, with none   *)
(* of its threads, queues and processes: a generation is opened, testcases *)
(* are launched into it, each one is accounted for exactly once, and the   *)
(* generation is closed only when every launched testcase is accounted     *)
(* for.  Generation.tla is shown to implement this.                        *)
(***************************************************************************)
EXTENDS Naturals

VARIABLES
    open,       \* a generation is being evaluated
    launched,   \* ids of the testcases this generation has started
    accounted,  \* those whose outcome has been taken into account
    last_id     \* the greatest testcase id handed out so far

vars == <<open, launched, accounted, last_id>>

TypeOK ==
    /\ open \in BOOLEAN
    /\ launched \subseteq 1..last_id
    /\ accounted \subseteq launched
    /\ last_id \in Nat

Init ==
    /\ open = FALSE
    /\ launched = {}
    /\ accounted = {}
    /\ last_id = 0

\* A new generation starts empty.
Open ==
    /\ ~open
    /\ open' = TRUE
    /\ launched' = {}
    /\ accounted' = {}
    /\ UNCHANGED last_id

\* The next id is started; ids are never used twice.
Launch ==
    /\ open
    /\ last_id' = last_id + 1
    /\ launched' = launched \union {last_id'}
    /\ UNCHANGED <<open, accounted>>

\* The next id is consumed by a call that could not be made.
Skip ==
    /\ open
    /\ last_id' = last_id + 1
    /\ UNCHANGED <<open, launched, accounted>>

\* The outcome of one launched testcase is taken into account, once.
Account ==
    /\ open
    /\ \E t \in launched \ accounted : accounted' = accounted \union {t}
    /\ UNCHANGED <<open, launched, last_id>>

\* The generation ends: nothing that was launched is left out.
Close ==
    /\ open
    /\ accounted = launched
    /\ open' = FALSE
    /\ UNCHANGED <<launched, accounted, last_id>>

Next == Open \/ Launch \/ Skip \/ Account \/ Close

Spec == Init /\ [][Next]_vars
=============================================================================
