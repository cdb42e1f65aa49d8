------------------------------ MODULE CrashFiles ------------------------------
(***************************************************************************)
(* A crash on its way through the file system: a child that crashes writes *)
(* a dump, the analyzer polls for dumps and sorts them by kind of crash    *)
(* (crash-analyzer.cpp), the UI's crash reader polls the directories of    *)
(* the kinds (UICrashReader of ui.cpp). They share nothing but files, and  *)
(* look at them while they are written.                                    *)
(*                                                                         *)
(* A dump says which testcase it is of near its end, in decimal digits. The*)
(* directory of testcase 0 stands for "it did not say"; a dump that is cut *)
(* within the digits says less than it should.                             *)
(*                                                                         *)
(* Children write their dumps to .fuzz-idir/dumps, the analyzer polls the  *)
(* dumps of the intermediate directory of the session (--idir): not always *)
(* the same. Where it was not cleared (--clear-idir), it may hold dumps and*)
(* directories of an earlier session.                                      *)
(***************************************************************************)
EXTENDS Naturals, FiniteSets

CONSTANTS
    MaxTestcases,      \* bound: testcases of a session
    Base,              \* of the digits of an id, 10
    Kinds,             \* crash ids: hashes of a reason and of a call stack
    Unknown,           \* the kind of a dump that cannot be decoded
    None,              \* "no kind"
    Leftovers,         \* what an earlier session may have left
    MaxPerKind,        \* MAX_NUMBER_CRASH_PER_KIND
    MaxOutputFailures  \* bound: testcases for which an output fails

ASSUME CrashFilesAssumption ==
    /\ MaxTestcases \in Nat /\ MaxOutputFailures \in Nat
    /\ MaxPerKind \in Nat \ {0} /\ Base \in Nat \ {0, 1}
    /\ Unknown \in Kinds /\ None \notin Kinds
    /\ \A left \in Leftovers :
           /\ left.dirs \subseteq Kinds \X (1..MaxTestcases) /\ left.infos \subseteq left.dirs
           /\ left.dump \in [1..MaxTestcases -> {"none", "partial", "complete"}]
           /\ left.crash_of \in [1..MaxTestcases -> Kinds]

VARIABLES
    clear_idir,               \* the idir was empty when the session began
    default_idir,             \* it is the one children write to
    child, testcase,          \* of each testcase; on its way to the data store
    dump,                     \* the dumps of both sessions
    crash_of,                 \* history: the kind of crash they are of
    step, handled, testcase_id, crash_id,    \* handle_dump_file
    crashers,                 \* the analyzer's Bloom filter
    current_number_outputs,   \* of each kind
    dirs, infos,              \* the directories <<kind, id>>, those with an info.json
    failed_outputs,           \* history: the ids for which an output failed
    pending, in_kind,         \* read_crash_dir
    bimap, crashes_mapping, locked_crash_ids

session == <<clear_idir, default_idir>>
child_vars == <<child, dump, crash_of>>
dump_vars == <<handled, testcase_id, crash_id>>
file_vars == <<dirs, infos, failed_outputs>>
reader_vars == <<pending, in_kind, bimap, crashes_mapping, locked_crash_ids>>
analyzer_vars == <<step, dump_vars, crashers, current_number_outputs, file_vars>>
vars == <<session, child_vars, testcase, analyzer_vars, reader_vars>>

Testcases == 1..MaxTestcases
Ids == 0..MaxTestcases
Files == {"this", "earlier"} \X Testcases
NoFile == <<"this", 0>>

TypeOK ==
    /\ clear_idir \in BOOLEAN /\ default_idir \in BOOLEAN
    /\ child \in [Testcases -> {"none", "running", "dumping", "ended"}]
    /\ testcase \in [Testcases -> {"none", "queued", "lost", "stored"}]
    /\ dump \in [Files -> {"none", "partial", "complete", "removed"}]
    /\ crash_of \in [Files -> Kinds \union {None}]
    /\ step \in {"poll", "decode", "directory", "info", "write", "remove"}
    /\ handled \in Files \union {NoFile}
    /\ testcase_id \in Ids /\ pending \in Ids
    /\ crash_id \in Kinds /\ in_kind \in Kinds \union {None}
    /\ crashers \subseteq Ids /\ failed_outputs \subseteq Ids
    /\ current_number_outputs \in [Kinds -> 0..2 * MaxTestcases]
    /\ dirs \subseteq Kinds \X Ids /\ infos \subseteq dirs
    /\ bimap \in [Testcases -> Kinds \union {None}]
    /\ crashes_mapping \subseteq Kinds \X Testcases
    /\ locked_crash_ids \subseteq Kinds

\* There is nothing in an idir that was cleared.
Nothing == [dirs |-> {}, infos |-> {}, dump |-> [t \in Testcases |-> "none"],
            crash_of |-> [t \in Testcases |-> None]]

Init ==
    /\ clear_idir \in BOOLEAN /\ default_idir \in BOOLEAN
    /\ child = [t \in Testcases |-> "none"]
    /\ testcase = [t \in Testcases |-> "none"]
    /\ \E left \in IF clear_idir THEN {Nothing} ELSE Leftovers :
           /\ dirs = left.dirs /\ infos = left.infos
           /\ dump = [f \in Files |-> IF f[1] = "earlier" THEN left.dump[f[2]] ELSE "none"]
           /\ crash_of = [f \in Files |-> IF f[1] = "earlier" THEN left.crash_of[f[2]] ELSE None]
    /\ step = "poll" /\ handled = NoFile /\ testcase_id = 0 /\ crash_id = Unknown
    /\ crashers = {} /\ current_number_outputs = [k \in Kinds |-> 0]
    /\ failed_outputs = {}
    /\ pending = 0 /\ in_kind = None /\ bimap = [t \in Testcases |-> None]
    /\ crashes_mapping = {} /\ locked_crash_ids = {}

-----------------------------------------------------------------------------
\* The children, which the main loop starts in the order of their testcases.

\* FuzzerUI::push_testcase comes first. A testcase whose push is refused, one of
\* an isolated evaluation, and one the database never gets is lost to the UI.
ChildStart(t) ==
    /\ child[t] = "none" /\ \A u \in 1..(t - 1) : child[u] # "none"
    /\ child' = [child EXCEPT ![t] = "running"]
    /\ \E fate \in {"queued", "lost"} : testcase' = [testcase EXCEPT ![t] = fate]
    /\ UNCHANGED <<session, dump, crash_of, analyzer_vars, reader_vars>>

ChildExit(t) ==
    /\ child[t] = "running"
    /\ child' = [child EXCEPT ![t] = "ended"]
    /\ UNCHANGED <<session, testcase, dump, crash_of, analyzer_vars, reader_vars>>

\* A dump file is there at once, and takes time to write.
ChildCrashes(t, k) ==
    /\ child[t] = "running"
    /\ child' = [child EXCEPT ![t] = "dumping"]
    /\ dump' = [dump EXCEPT ![<<"this", t>>] = "partial"]
    /\ crash_of' = [crash_of EXCEPT ![<<"this", t>>] = k]
    /\ UNCHANGED <<session, testcase, analyzer_vars, reader_vars>>

\* What is written to a file that was removed is gone with it; a child that is
\* killed leaves the file as it is.
ChildDumped(t) ==
    /\ child[t] = "dumping"
    /\ child' = [child EXCEPT ![t] = "ended"]
    /\ \/ dump[<<"this", t>>] = "partial" /\ dump' = [dump EXCEPT ![<<"this", t>>] = "complete"]
       \/ UNCHANGED dump
    /\ UNCHANGED <<session, testcase, crash_of, analyzer_vars, reader_vars>>

\* The UI's queue reader (see UiQueues).
StoreTestcase(t) ==
    /\ testcase[t] = "queued"
    /\ testcase' = [testcase EXCEPT ![t] = "stored"]
    /\ UNCHANGED <<session, child_vars, analyzer_vars, reader_vars>>

-----------------------------------------------------------------------------
\* The analyzer: CrashAnalyzer::run and handle_dump_file.

\* dumps_dir: what the analyzer finds there.
Polled(f) == f[1] = "earlier" \/ default_idir

\* get_testcase_id(): the ids that are read where the digits of t are cut, and
\* where there are none.  Mutant: a dump that has none is one of the last testcase.
ReadsAs(t) == {u \in 1..t : \E digits \in 0..t : u = t \div Base^digits}
IdOfLast == Cardinality({t \in Testcases : child[t] # "none"})
IdOfNone == 0

ReadId(f) ==
    /\ step = "poll" /\ dump[f] \in {"partial", "complete"} /\ Polled(f)
    /\ handled' = f
    /\ testcase_id' \in {f[2]} \union
           (IF dump[f] = "partial" THEN {IdOfNone} \union ReadsAs(f[2]) ELSE {})
    /\ step' = "decode"
    /\ UNCHANGED <<session, testcase, child_vars, crash_id, crashers, current_number_outputs,
                   file_vars, reader_vars>>

\* Whether there may be one more output of a kind.  Mutants: of which there are
\* enough; one too few.
TightOutputs(k) == current_number_outputs[k] + 1 < MaxPerKind
LooseOutputs(k) == current_number_outputs[k] <= MaxPerKind
OutputsLeft(k) == current_number_outputs[k] < MaxPerKind

\* The kind of the crash, set_is_crashing(), and the count.
Decode ==
    /\ step = "decode"
    /\ crash_id' \in {crash_of[handled]} \union
           (IF dump[handled] = "partial" THEN {Unknown} ELSE {})
    /\ crashers' = crashers \union {testcase_id}
    /\ current_number_outputs' = [current_number_outputs EXCEPT ![crash_id'] = @ + 1]
    /\ step' = IF OutputsLeft(crash_id') THEN "directory" ELSE "remove"
    /\ UNCHANGED <<session, testcase, child_vars, handled, testcase_id, file_vars, reader_vars>>

Output == <<crash_id, testcase_id>>

\* What the steps of an output leave alone.
OutputRest == <<session, testcase, child_vars, dump_vars, crashers, current_number_outputs,
                reader_vars>>

MakeDirectory ==
    /\ step = "directory"
    /\ dirs' = dirs \union {Output}
    /\ step' = "info"
    /\ UNCHANGED <<infos, failed_outputs, OutputRest>>

\* An info.json is empty when it is opened.
OpenInfo ==
    /\ step = "info"
    /\ infos' = infos \ {Output}
    /\ step' = "write"
    /\ UNCHANGED <<dirs, failed_outputs, OutputRest>>

WriteInfo ==
    /\ step = "write"
    /\ infos' = infos \union {Output}
    /\ step' = "remove"
    /\ UNCHANGED <<dirs, failed_outputs, OutputRest>>

\* The dump cannot be copied, or its info.json not written: this is logged at
\* most, the output has been counted, and the dump is removed like any other.
OutputFails ==
    /\ step \in {"directory", "info", "write"}
    /\ failed_outputs' = failed_outputs \union {testcase_id}
    /\ Cardinality(failed_outputs') <= MaxOutputFailures
    /\ dirs' \in {dirs, dirs \union {Output}}
    /\ step' = "remove"
    /\ UNCHANGED <<infos, OutputRest>>

\* Mutant: the dump is not removed, and handled again.
DumpKept(f) == dump[f]
DumpHandled(f) == "removed"
RemoveDump ==
    /\ step = "remove"
    /\ dump' = [dump EXCEPT ![handled] = DumpHandled(handled)]
    /\ step' = "poll"
    /\ handled' = NoFile /\ testcase_id' = 0 /\ crash_id' = Unknown
    /\ UNCHANGED <<session, testcase, child, crash_of, crashers, current_number_outputs,
                   file_vars, reader_vars>>

-----------------------------------------------------------------------------
\* The crash reader: UICrashReader::run and read_crash_dir.

\* associated_bimap(): the kind a testcase is found under first is its kind.
\* Mutant: it is not looked up.
AnyKind(t) == TRUE
NotAssociated(t) == bimap[t] = None

\* A kind that is locked is not entered; one that is locked while it is read is
\* read on (in_kind).
Associate(k, t) ==
    /\ pending = 0 /\ <<k, t>> \in dirs
    /\ k \notin locked_crash_ids \/ k = in_kind
    /\ NotAssociated(t)
    /\ in_kind' = k
    /\ bimap' = [bimap EXCEPT ![t] = k]
    /\ pending' = t
    /\ UNCHANGED <<session, testcase, child_vars, analyzer_vars, crashes_mapping, locked_crash_ids>>

Mapped(k, mapping) == {t \in Testcases : <<k, t>> \in mapping}
KindFull(k, mapping) == Cardinality(Mapped(k, mapping)) >= MaxPerKind

InsertMapping ==
    /\ pending # 0
    /\ crashes_mapping' = crashes_mapping \union {<<in_kind, pending>>}
    /\ pending' = 0
    /\ IF KindFull(in_kind, crashes_mapping')
       THEN /\ locked_crash_ids' = locked_crash_ids \union {in_kind}
            /\ in_kind' \in {in_kind, None}
       ELSE /\ in_kind' = None
            /\ UNCHANGED locked_crash_ids
    /\ UNCHANGED <<session, testcase, child_vars, analyzer_vars, bimap>>

-----------------------------------------------------------------------------
Child(t) ==
    \/ ChildStart(t) \/ ChildExit(t) \/ ChildDumped(t)
    \/ \E k \in Kinds : ChildCrashes(t, k)

Analyzer ==
    \/ \E f \in Files : ReadId(f)
    \/ Decode \/ MakeDirectory \/ OpenInfo \/ WriteInfo \/ OutputFails \/ RemoveDump

CrashReader == InsertMapping \/ \E k \in Kinds, t \in Testcases : Associate(k, t)

Next ==
    \/ \E t \in Testcases : Child(t) \/ StoreTestcase(t)
    \/ Analyzer \/ CrashReader

Spec == Init /\ [][Next]_vars

\* The pollers are scheduled: the analyzer as long as there are dumps, the crash
\* reader as long as there are directories it has not read, and the queue reader
\* (which stores what is not lost: UiQueues, StoredInTheEnd). Nothing is assumed
\* of the children.
FairSpec ==
    /\ Spec /\ WF_vars(Analyzer) /\ WF_vars(CrashReader)
    /\ \A t \in Testcases : WF_vars(StoreTestcase(t))

(***************************************************************************)
(* Properties                                                              *)
(***************************************************************************)

\* The two maps of the crash reader, each under a mutex of its own and filled
\* one after the other (ui.cpp:152-156), agree but for the testcase in hand: a
\* testcase has one kind, even where directories of two kinds are found.
KindsAgree ==
    \A t \in Testcases, k \in Kinds :
        /\ <<k, t>> \in crashes_mapping => bimap[t] = k
        /\ bimap[t] = k => <<k, t>> \in crashes_mapping \/ (pending = t /\ in_kind = k)

\* In an idir that was cleared, a kind is locked, and never looked at again
\* (ui.cpp:132, 157), only once all that the analyzer will ever put there has been
\* read: both count to the same limit, the one its outputs
\* (crash-analyzer.cpp:368-377), the other testcases.
LockedComplete ==
    clear_idir =>
        \A k \in locked_crash_ids, t \in Testcases :
            <<k, t>> \in dirs => <<k, t>> \in crashes_mapping

\* UICrashReader::get(): there is an info.json that can be parsed, and the data
\* store has the testcase.
Shown(t) == bimap[t] # None /\ <<bimap[t], t>> \in infos /\ testcase[t] = "stored"

\* In an idir that was cleared, what the UI shows for a testcase is a crash of its
\* own, or of one whose id begins with the digits of its own (and may have been read
\* up to there), of the kind of that crash or of none, whichever dumps were read
\* while they were written, and in whichever order the directories were found
\* (crash-analyzer.cpp:117-146, ui.cpp:197-256).
ShownIsOwn ==
    clear_idir =>
        \A t \in Testcases : Shown(t) =>
            \E u \in Testcases : /\ u = t \/ t \in ReadsAs(u)
                                 /\ crash_of[<<"this", u>>] # None
                                 /\ bimap[t] \in {crash_of[<<"this", u>>], Unknown}

\* With the default idir, cleared, a dump that is complete before the analyzer
\* comes to it is shown in the end, unless there are enough of its kind, an output
\* for its testcase failed, or its testcase never reaches the data store
\* (crash-analyzer.cpp:88-111, ui.cpp:115-163, 197-233).
CrashShown ==
    \A t \in Testcases :
        (dump[<<"this", t>>] = "complete" /\ handled # <<"this", t>>) ~>
            \/ Shown(t)
            \/ ~clear_idir \/ ~default_idir
            \/ t \in failed_outputs \/ testcase[t] = "lost"
            \/ \E k \in Kinds : /\ k = crash_of[<<"this", t>>]
                              /\ current_number_outputs[k] > MaxPerKind
=============================================================================
