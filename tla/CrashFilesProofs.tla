-------------------------- MODULE CrashFilesProofs --------------------------
(***************************************************************************)
(* Proofs about CrashFiles, for every number of testcases and of kinds,    *)
(* every limit and every output that fails: what the crash reader shows is *)
(* right, and a kind it locks is complete.                                 *)
(***************************************************************************)
EXTENDS CrashFiles, FiniteSetTheorems, TLAPS

(***************************************************************************)
(* The inductive invariant                                                 *)
(***************************************************************************)

\* A testcase has a dump once its child has crashed, and an idir that was cleared
\* has those of this session only.
DumpOfCrash ==
    /\ \A t \in Testcases : child[t] \in {"none", "running"} => dump[<<"this", t>>] = "none"
    /\ \A f \in Files : dump[f] # "none" => crash_of[f] \in Kinds
    /\ clear_idir => \A f \in Files : dump[f] # "none" => f[1] = "this"

\* The id a dump may be taken for, and the kind.
IsTakenFor(f, t) == t = f[2] \/ t \in ReadsAs(f[2])
IsOfKind(f, k) == k \in {crash_of[f], Unknown}

\* The dump in hand is there until it is removed, and is taken for one it may be
\* taken for, or of none.
InHand ==
    /\ step # "poll" =>
           /\ handled \in Files /\ dump[handled] \in {"partial", "complete"}
           /\ testcase_id = 0 \/ IsTakenFor(handled, testcase_id)
    /\ step \in {"directory", "info", "write"} => IsOfKind(handled, crash_id)
    /\ step \in {"info", "write"} => Output \in dirs

\* The dumps that have been counted.
Decoded ==
    {f \in Files : \/ dump[f] = "removed"
                   \/ f = handled /\ step \in {"directory", "info", "write", "remove"}}
CountedOnce == \A k \in Kinds : current_number_outputs[k] <= Cardinality(Decoded)

\* Every directory is one of the outputs of its kind that were counted, of which
\* there are not too many; one that was begun is still to come.
DirsOf(k) == {t \in Ids : <<k, t>> \in dirs}
Begun(k) == IF step = "directory" /\ crash_id = k THEN 1 ELSE 0
DirsCounted ==
    clear_idir =>
        \A k \in Kinds : /\ Cardinality(DirsOf(k)) + Begun(k) <= current_number_outputs[k]
                         /\ Cardinality(DirsOf(k)) + Begun(k) <= MaxPerKind

\* Every directory was made for a dump that may be taken for its testcase.
MadeFor(k, t) ==
    \E f \in Files : dump[f] # "none" /\ IsTakenFor(f, t) /\ IsOfKind(f, k)
DirsOwn ==
    clear_idir =>
        \A k \in Kinds, t \in Testcases : <<k, t>> \in dirs => MadeFor(k, t)

AnalyzerInv == DumpOfCrash /\ InHand /\ CountedOnce /\ DirsCounted /\ DirsOwn

\* The crash reader reads directories that are there, and locks a kind when it has
\* as many of its testcases as there may be outputs.
ReadDirs ==
    /\ crashes_mapping \subseteq dirs
    /\ pending # 0 => in_kind \in Kinds /\ <<in_kind, pending>> \in dirs
Locked == \A k \in locked_crash_ids : KindFull(k, crashes_mapping)

\* The two maps agree, and the testcase in hand has the kind that is read.
PendingKind == pending # 0 => bimap[pending] = in_kind

ReaderInv == ReadDirs /\ Locked /\ KindsAgree /\ PendingKind

IInv == TypeOK /\ AnalyzerInv /\ ReaderInv

(***************************************************************************)
(* Finite sets                                                             *)
(***************************************************************************)

LEMMA FiniteIds ==
    /\ MaxTestcases \in Nat /\ Testcases \subseteq Ids /\ 0 \in Ids /\ 0 \notin Testcases
    /\ IsFiniteSet(Testcases) /\ Cardinality(Testcases) = MaxTestcases
    /\ IsFiniteSet(Ids)
    /\ IsFiniteSet(Files) /\ Cardinality(Files) = 2 * MaxTestcases
<1>1. MaxTestcases \in Nat
    BY CrashFilesAssumption
<1>2. IsFiniteSet(1..MaxTestcases) /\ Cardinality(1..MaxTestcases) = MaxTestcases
    BY <1>1, FS_Interval
<1>3. IsFiniteSet(0..MaxTestcases)
    BY <1>1, FS_Interval
<1>4. IsFiniteSet({"this", "earlier"}) /\ Cardinality({"this", "earlier"}) = 2
    <2>1. IsFiniteSet({"this"}) /\ Cardinality({"this"}) = 1
        BY FS_Singleton
    <2>2. {"this", "earlier"} = {"this"} \union {"earlier"} /\ "earlier" \notin {"this"}
        OBVIOUS
    <2>. QED
        BY <2>1, <2>2, FS_AddElement
<1>5. IsFiniteSet(Files) /\ Cardinality(Files) = 2 * MaxTestcases
    BY <1>1, <1>2, <1>4, FS_Product, ZenonT(60) DEF Files, Testcases
<1>. QED
    BY <1>1, <1>2, <1>3, <1>5 DEF Testcases, Ids

\* What the files are, and what their ids may be read as.
LEMMA FileFacts ==
    /\ \A t \in Testcases : <<"this", t>> \in Files
    /\ \A f \in Files : /\ f = <<f[1], f[2]>> /\ f[2] \in Testcases
                        /\ f[1] \in {"this", "earlier"}
                        /\ ReadsAs(f[2]) \subseteq Testcases
    /\ NoFile \notin Files
BY FiniteIds DEF Files, NoFile, ReadsAs, Testcases

LEMMA DirsFinite ==
    \A k : IsFiniteSet(DirsOf(k)) /\ Cardinality(DirsOf(k)) \in Nat
BY FiniteIds, FS_Subset, FS_CardinalityType DEF DirsOf

LEMMA DecodedFinite ==
    IsFiniteSet(Decoded) /\ Cardinality(Decoded) \in 0..2 * MaxTestcases
<1>1. Decoded \subseteq Files
    BY DEF Decoded
<1>2. IsFiniteSet(Decoded) /\ Cardinality(Decoded) <= 2 * MaxTestcases
    BY <1>1, FiniteIds, FS_Subset
<1>. QED
    BY <1>2, FiniteIds, FS_CardinalityType

(***************************************************************************)
(* Initial states                                                          *)
(***************************************************************************)

LEMMA InitHolds == Init => IInv
<1>. SUFFICES ASSUME Init PROVE IInv
    OBVIOUS
<1>1. MaxPerKind \in Nat
    BY CrashFilesAssumption
<1>2. PICK left \in IF clear_idir THEN {Nothing} ELSE Leftovers :
          /\ dirs = left.dirs /\ infos = left.infos
          /\ dump = [f \in Files |-> IF f[1] = "earlier" THEN left.dump[f[2]] ELSE "none"]
          /\ crash_of = [f \in Files |-> IF f[1] = "earlier" THEN left.crash_of[f[2]] ELSE None]
    BY DEF Init
<1>3. /\ left.dirs \subseteq Kinds \X Testcases /\ left.infos \subseteq left.dirs
      /\ left.dump \in [Testcases -> {"none", "partial", "complete"}]
      /\ left.crash_of \in [Testcases -> Kinds \union {None}]
      /\ clear_idir => left.dump = [t \in Testcases |-> "none"] /\ left.dirs = {}
      /\ ~clear_idir => left.crash_of \in [Testcases -> Kinds]
    <2>1. CASE clear_idir
        <3>1. left = Nothing
            BY <1>2, <2>1
        <3>. QED
            BY <2>1, <3>1 DEF Nothing
    <2>2. CASE ~clear_idir
        BY <1>2, <2>2, CrashFilesAssumption DEF Testcases
    <2>. QED
        BY <2>1, <2>2
<1>4. \A f \in Files :
          /\ f[2] \in Testcases
          /\ dump[f] = (IF f[1] = "earlier" THEN left.dump[f[2]] ELSE "none")
          /\ crash_of[f] = (IF f[1] = "earlier" THEN left.crash_of[f[2]] ELSE None)
          /\ dump[f] \in {"none", "partial", "complete"}
          /\ crash_of[f] \in Kinds \union {None}
    BY <1>2, <1>3, FileFacts
<1>5. TypeOK
    <2>1. /\ dump \in [Files -> {"none", "partial", "complete", "removed"}]
          /\ crash_of \in [Files -> Kinds \union {None}]
        BY <1>2, <1>4
    <2>2. dirs \subseteq Kinds \X Ids /\ infos \subseteq dirs
        BY <1>2, <1>3, FiniteIds
    <2>3. current_number_outputs \in [Kinds -> 0..2 * MaxTestcases]
        BY FiniteIds DEF Init
    <2>. QED
        BY <2>1, <2>2, <2>3, FiniteIds, CrashFilesAssumption DEF Init, TypeOK
<1>6. DumpOfCrash
    <2>1. \A t \in Testcases : dump[<<"this", t>>] = "none"
        BY <1>4, FileFacts
    <2>2. ASSUME NEW f \in Files, dump[f] # "none" PROVE crash_of[f] \in Kinds /\ ~clear_idir
        BY <1>3, <1>4, <2>2
    <2>. QED
        BY <2>1, <2>2 DEF DumpOfCrash
<1>7. InHand /\ CountedOnce
    BY DecodedFinite, FiniteIds DEF Init, InHand, CountedOnce
<1>8. DirsCounted /\ DirsOwn
    <2>1. clear_idir => dirs = {}
        BY <1>2, <1>3
    <2>2. ASSUME clear_idir, NEW k \in Kinds PROVE Cardinality(DirsOf(k)) + Begun(k) = 0
        <3>1. DirsOf(k) = {}
            BY <2>1, <2>2 DEF DirsOf
        <3>. QED
            BY <3>1, FS_EmptySet DEF Begun, Init
    <2>. QED
        BY <1>1, <2>1, <2>2 DEF DirsCounted, DirsOwn, Init
<1>9. ReadDirs /\ Locked /\ KindsAgree /\ PendingKind
    BY CrashFilesAssumption DEF Init, ReadDirs, Locked, KindsAgree, PendingKind
<1>. QED
    BY <1>5, <1>6, <1>7, <1>8, <1>9 DEF IInv, AnalyzerInv, ReaderInv

(***************************************************************************)
(* Types                                                                   *)
(***************************************************************************)

LEMMA TypeKept ==
    ASSUME IInv, [Next]_vars
    PROVE  TypeOK'
<1>. USE FiniteIds, CrashFilesAssumption DEF TypeOK
<1>. TypeOK
    BY DEF IInv
<1>1. ASSUME NEW t \in Testcases, Child(t) \/ StoreTestcase(t) PROVE TypeOK'
    <2>1. UNCHANGED <<session, analyzer_vars, reader_vars>>
        BY <1>1 DEF Child, ChildStart, ChildExit, ChildCrashes, ChildDumped, StoreTestcase
    <2>2. child' \in [Testcases -> {"none", "running", "dumping", "ended"}]
        BY <1>1 DEF Child, ChildStart, ChildExit, ChildCrashes, ChildDumped, StoreTestcase, child_vars
    <2>3. testcase' \in [Testcases -> {"none", "queued", "lost", "stored"}]
        BY <1>1 DEF Child, ChildStart, ChildExit, ChildCrashes, ChildDumped, StoreTestcase
    <2>4. dump' \in [Files -> {"none", "partial", "complete", "removed"}]
        BY <1>1 DEF Child, ChildStart, ChildExit, ChildCrashes, ChildDumped, StoreTestcase, child_vars
    <2>5. crash_of' \in [Files -> Kinds \union {None}]
        <3>1. \/ crash_of' = crash_of
              \/ \E k \in Kinds : crash_of' = [crash_of EXCEPT ![<<"this", t>>] = k]
            BY <1>1 DEF Child, ChildStart, ChildExit, ChildCrashes, ChildDumped, StoreTestcase,
                        child_vars
        <3>. QED
            BY <3>1
    <2>. QED
        BY <2>1, <2>2, <2>3, <2>4, <2>5 DEF session, analyzer_vars, dump_vars, file_vars, reader_vars
<1>2. ASSUME NEW f \in Files, ReadId(f) PROVE TypeOK'
    <2>1. testcase_id' \in Ids
        BY <1>2, FileFacts DEF ReadId, IdOfNone
    <2>. QED
        BY <1>2, <2>1 DEF ReadId, session, child_vars, file_vars, reader_vars
<1>3. CASE Decode
    <2>1. handled \in Files /\ dump[handled] \in {"partial", "complete"}
        BY <1>3 DEF Decode, IInv, AnalyzerInv, InHand
    <2>2. crash_id' \in Kinds
        BY <1>3, <2>1 DEF Decode, IInv, AnalyzerInv, DumpOfCrash
    <2>3. current_number_outputs[crash_id'] + 1 \in 0..2 * MaxTestcases
        <3>1. handled \notin Decoded
            BY <1>3, <2>1 DEF Decode, Decoded
        <3>2. Decoded \union {handled} \subseteq Files
            BY <2>1 DEF Decoded
        <3>3. Cardinality(Decoded \union {handled}) = Cardinality(Decoded) + 1
            BY <3>1, DecodedFinite, FS_AddElement
        <3>4. Cardinality(Decoded \union {handled}) <= 2 * MaxTestcases
            BY <3>2, FS_Subset
        <3>. QED
            BY <2>2, <3>3, <3>4, DecodedFinite DEF IInv, AnalyzerInv, CountedOnce
    <2>. QED
        BY <1>3, <2>2, <2>3 DEF Decode, session, child_vars, file_vars, reader_vars
<1>4. CASE MakeDirectory
    BY <1>4 DEF MakeDirectory, Output, OutputRest, session, child_vars, dump_vars, reader_vars
<1>5. CASE OpenInfo
    BY <1>5 DEF OpenInfo, OutputRest, session, child_vars, dump_vars, reader_vars
<1>6. CASE WriteInfo
    <2>1. Output \in dirs
        BY <1>6 DEF WriteInfo, IInv, AnalyzerInv, InHand
    <2>. QED
        BY <1>6, <2>1 DEF WriteInfo, OutputRest, session, child_vars, dump_vars, reader_vars
<1>7. CASE OutputFails
    BY <1>7 DEF OutputFails, Output, OutputRest, session, child_vars, dump_vars, reader_vars
<1>8. CASE RemoveDump
    BY <1>8 DEF RemoveDump, DumpHandled, session, file_vars, reader_vars
<1>9. ASSUME NEW k \in Kinds, NEW t \in Testcases, Associate(k, t) PROVE TypeOK'
    BY <1>9 DEF Associate, session, child_vars, analyzer_vars, dump_vars, file_vars
<1>10. CASE InsertMapping
    <2>1. pending \in Testcases /\ in_kind \in Kinds
        BY <1>10 DEF InsertMapping, IInv, ReaderInv, ReadDirs, Ids, Testcases
    <2>. QED
        BY <1>10, <2>1 DEF InsertMapping, session, child_vars, analyzer_vars, dump_vars, file_vars
<1>11. CASE UNCHANGED vars
    BY <1>11 DEF vars, session, child_vars, analyzer_vars, dump_vars, file_vars, reader_vars
<1>. QED
    BY <1>1, <1>2, <1>3, <1>4, <1>5, <1>6, <1>7, <1>8, <1>9, <1>10, <1>11
    DEF Next, Analyzer, CrashReader

(***************************************************************************)
(* The analyzer                                                            *)
(***************************************************************************)

\* Where a step leaves the analyzer alone, and the dumps that were begun.
LEMMA AnalyzerElsewhere ==
    ASSUME AnalyzerInv, UNCHANGED <<session, child_vars, analyzer_vars>>
    PROVE  AnalyzerInv'
<1>. USE DEF session, child_vars, analyzer_vars, dump_vars, file_vars
<1>1. Decoded' = Decoded
    BY DEF Decoded
<1>2. \A k : DirsOf(k)' = DirsOf(k) /\ Begun(k)' = Begun(k)
    BY DEF DirsOf, Begun
<1>3. DumpOfCrash' /\ CountedOnce'
    BY <1>1 DEF AnalyzerInv, DumpOfCrash, CountedOnce
<1>4. InHand'
    BY DEF AnalyzerInv, InHand, IsTakenFor, IsOfKind, Output
<1>5. DirsOwn'
    BY DEF AnalyzerInv, DirsOwn, MadeFor, IsTakenFor, IsOfKind
<1>6. DirsCounted'
    BY <1>2 DEF AnalyzerInv, DirsCounted
<1>. QED
    BY <1>3, <1>4, <1>5, <1>6 DEF AnalyzerInv

\* A dump that was begun stays one, of the kind it is of, whichever step is taken:
\* what directories were made for stays what they were made for.
LEMMA MadeForStays ==
    ASSUME NEW k, NEW t, MadeFor(k, t),
           \A f \in Files : dump[f] # "none" => dump'[f] # "none" /\ crash_of'[f] = crash_of[f]
    PROVE  MadeFor(k, t)'
BY DEF MadeFor, IsTakenFor, IsOfKind

\* A child's steps, of which only a crash and the end of a dump are the analyzer's
\* business.
LEMMA ChildKeeps ==
    ASSUME TypeOK, AnalyzerInv, NEW t \in Testcases, Child(t)
    PROVE  AnalyzerInv'
<1>. DEFINE own == <<"this", t>>
<1>. own \in Files /\ own[1] = "this"
    BY FileFacts
<1>. HIDE DEF own
<1>1. UNCHANGED <<session, step, dump_vars, current_number_outputs, file_vars>>
    BY DEF Child, ChildStart, ChildExit, ChildCrashes, ChildDumped, analyzer_vars
<1>2. /\ \A u \in Testcases : u # t => child'[u] = child[u]
      /\ \A f \in Files : f # own => dump'[f] = dump[f] /\ crash_of'[f] = crash_of[f]
    BY DEF Child, ChildStart, ChildExit, ChildCrashes, ChildDumped, TypeOK, own
<1>3. \/ dump'[own] = dump[own] /\ crash_of'[own] = crash_of[own]
      \/ dump[own] = "partial" /\ dump'[own] = "complete" /\ crash_of'[own] = crash_of[own]
      \/ dump[own] = "none" /\ dump'[own] = "partial" /\ crash_of'[own] \in Kinds
    <2>1. child[t] = "running" => dump[own] = "none"
        BY DEF AnalyzerInv, DumpOfCrash, own
    <2>. QED
        BY <2>1 DEF Child, ChildStart, ChildExit, ChildCrashes, ChildDumped, TypeOK, own
<1>4. child'[t] \in {"none", "running"} =>
          child[t] \in {"none", "running"} /\ dump'[own] = dump[own]
    BY DEF Child, ChildStart, ChildExit, ChildCrashes, ChildDumped, TypeOK
<1>5. DumpOfCrash'
    <2>1. ASSUME NEW u \in Testcases, child'[u] \in {"none", "running"}
          PROVE  dump'[<<"this", u>>] = "none"
        <3>1. CASE u = t
            BY <1>4, <2>1, <3>1 DEF AnalyzerInv, DumpOfCrash, own
        <3>2. CASE u # t
            BY <1>2, <2>1, <3>2, FileFacts DEF AnalyzerInv, DumpOfCrash, own
        <3>. QED
            BY <3>1, <3>2
    <2>2. ASSUME NEW f \in Files, dump'[f] # "none"
          PROVE  crash_of'[f] \in Kinds /\ (clear_idir => f[1] = "this")
        <3>1. CASE f = own
            BY <1>3, <2>2, <3>1 DEF AnalyzerInv, DumpOfCrash
        <3>2. CASE f # own
            BY <1>2, <2>2, <3>2 DEF AnalyzerInv, DumpOfCrash
        <3>. QED
            BY <3>1, <3>2
    <2>. QED
        BY <1>1, <2>1, <2>2 DEF DumpOfCrash, session
<1>6. InHand'
    <2>1. step # "poll" => /\ dump'[handled] \in {"partial", "complete"}
                           /\ crash_of'[handled] = crash_of[handled]
        BY <1>2, <1>3 DEF AnalyzerInv, InHand
    <2>. QED
        BY <1>1, <2>1 DEF AnalyzerInv, InHand, IsTakenFor, IsOfKind, Output, dump_vars, file_vars
<1>7. CountedOnce'
    <2>1. Decoded' = Decoded
        <3>1. \A f \in Files : dump'[f] = "removed" <=> dump[f] = "removed"
            BY <1>2, <1>3
        <3>. QED
            BY <1>1, <3>1 DEF Decoded, dump_vars
    <2>. QED
        BY <1>1, <2>1 DEF AnalyzerInv, CountedOnce
<1>8. DirsCounted'
    <2>1. \A k : DirsOf(k)' = DirsOf(k) /\ Begun(k)' = Begun(k)
        BY <1>1 DEF DirsOf, Begun, dump_vars, file_vars
    <2>. QED
        BY <1>1, <2>1 DEF AnalyzerInv, DirsCounted, session
<1>9. DirsOwn'
    <2>1. \A f \in Files : dump[f] # "none" => dump'[f] # "none" /\ crash_of'[f] = crash_of[f]
        BY <1>2, <1>3
    <2>2. \A k \in Kinds, u \in Testcases : MadeFor(k, u) => MadeFor(k, u)'
        BY <2>1, MadeForStays
    <2>. QED
        BY <1>1, <2>2 DEF AnalyzerInv, DirsOwn, session, file_vars
<1>. QED
    BY <1>5, <1>6, <1>7, <1>8, <1>9 DEF AnalyzerInv

LEMMA ReadIdKeeps ==
    ASSUME TypeOK, AnalyzerInv, NEW f \in Files, ReadId(f)
    PROVE  AnalyzerInv'
<1>1. /\ step = "poll" /\ step' = "decode" /\ handled' = f /\ dump[f] \in {"partial", "complete"}
      /\ testcase_id' = 0 \/ IsTakenFor(f, testcase_id')
      /\ UNCHANGED <<session, child_vars, crash_id, current_number_outputs, file_vars>>
    BY DEF ReadId, IdOfNone, IsTakenFor
<1>2. Decoded' = Decoded
    BY <1>1 DEF Decoded, child_vars
<1>3. \A k : DirsOf(k)' = DirsOf(k) /\ Begun(k)' = Begun(k)
    BY <1>1 DEF DirsOf, Begun, file_vars
<1>4. DumpOfCrash' /\ CountedOnce'
    BY <1>1, <1>2 DEF AnalyzerInv, DumpOfCrash, CountedOnce, child_vars, session
<1>5. InHand'
    BY <1>1 DEF InHand, IsTakenFor, child_vars
<1>6. DirsOwn'
    BY <1>1 DEF AnalyzerInv, DirsOwn, MadeFor, IsTakenFor, IsOfKind, child_vars, file_vars, session
<1>7. DirsCounted'
    BY <1>1, <1>3 DEF AnalyzerInv, DirsCounted, session
<1>. QED
    BY <1>4, <1>5, <1>6, <1>7 DEF AnalyzerInv

LEMMA DecodeKeeps ==
    ASSUME TypeOK, AnalyzerInv, Decode
    PROVE  AnalyzerInv'
<1>1. /\ step = "decode" /\ step' \in {"directory", "remove"}
      /\ UNCHANGED <<session, child_vars, handled, testcase_id, file_vars>>
    BY DEF Decode
<1>2. /\ handled \in Files /\ dump[handled] \in {"partial", "complete"}
      /\ testcase_id = 0 \/ IsTakenFor(handled, testcase_id)
    BY <1>1 DEF AnalyzerInv, InHand
<1>3. crash_id' \in {crash_of[handled], Unknown} /\ crash_id' \in Kinds
    BY <1>2, CrashFilesAssumption DEF Decode, AnalyzerInv, DumpOfCrash
<1>4. /\ current_number_outputs'[crash_id'] = current_number_outputs[crash_id'] + 1
      /\ \A k \in Kinds : k # crash_id' => current_number_outputs'[k] = current_number_outputs[k]
      /\ \A k \in Kinds : current_number_outputs[k] \in Nat
    BY <1>3, FiniteIds DEF Decode, TypeOK
<1>5. DumpOfCrash'
    BY <1>1 DEF AnalyzerInv, DumpOfCrash, child_vars, session
<1>6. InHand'
    BY <1>1, <1>2, <1>3 DEF InHand, IsTakenFor, IsOfKind, child_vars
<1>7. DirsOwn'
    BY <1>1 DEF AnalyzerInv, DirsOwn, MadeFor, IsTakenFor, IsOfKind, child_vars, file_vars, session
<1>8. CountedOnce'
    <2>1. Decoded' = Decoded \union {handled} /\ handled \notin Decoded
        BY <1>1, <1>2 DEF Decoded, child_vars
    <2>2. Cardinality(Decoded') = Cardinality(Decoded) + 1
        BY <2>1, DecodedFinite, FS_AddElement
    <2>. QED
        BY <1>3, <1>4, <2>2, DecodedFinite, FiniteIds DEF AnalyzerInv, CountedOnce
<1>9. DirsCounted'
    <2>. SUFFICES ASSUME clear_idir, NEW k \in Kinds
                  PROVE  /\ Cardinality(DirsOf(k)') + Begun(k)' <= current_number_outputs'[k]
                         /\ Cardinality(DirsOf(k)') + Begun(k)' <= MaxPerKind
        BY <1>1 DEF DirsCounted, session
    <2>1. DirsOf(k)' = DirsOf(k) /\ Begun(k) = 0
        BY <1>1 DEF DirsOf, Begun, file_vars
    <2>2. /\ Cardinality(DirsOf(k)) \in Nat /\ Cardinality(DirsOf(k)) <= current_number_outputs[k]
          /\ Cardinality(DirsOf(k)) <= MaxPerKind
        BY <2>1, DirsFinite DEF AnalyzerInv, DirsCounted
    <2>3. CASE Begun(k)' = 0
        BY <1>4, <2>1, <2>2, <2>3
    <2>4. CASE Begun(k)' # 0
        <3>1. step' = "directory" /\ k = crash_id' /\ Begun(k)' = 1
            BY <2>4 DEF Begun
        <3>2. current_number_outputs[k] < MaxPerKind
            BY <3>1 DEF Decode, OutputsLeft
        <3>. QED
            BY <1>4, <2>1, <2>2, <3>1, <3>2, CrashFilesAssumption
    <2>. QED
        BY <2>3, <2>4
<1>. QED
    BY <1>5, <1>6, <1>7, <1>8, <1>9 DEF AnalyzerInv

\* The steps of an output: the directory, if it is made, takes the place of the one
\* that was begun.
LEMMA OutputKeeps ==
    ASSUME TypeOK, AnalyzerInv, MakeDirectory \/ OpenInfo \/ WriteInfo \/ OutputFails
    PROVE  AnalyzerInv'
<1>1. /\ step \in {"directory", "info", "write"} /\ step' \in {"info", "write", "remove"}
      /\ dirs' \in {dirs, dirs \union {Output}}
      /\ step \in {"info", "write"} => Output \in dirs
      /\ step' \in {"info", "write"} => Output \in dirs'
      /\ UNCHANGED <<session, child_vars, dump_vars, current_number_outputs>>
    BY DEF MakeDirectory, OpenInfo, WriteInfo, OutputFails, OutputRest, AnalyzerInv, InHand
<1>2. /\ handled \in Files /\ dump[handled] \in {"partial", "complete"}
      /\ testcase_id = 0 \/ IsTakenFor(handled, testcase_id)
      /\ IsOfKind(handled, crash_id) /\ crash_id \in Kinds /\ testcase_id \in Ids
    BY <1>1 DEF AnalyzerInv, InHand, TypeOK
<1>3. DumpOfCrash'
    BY <1>1 DEF AnalyzerInv, DumpOfCrash, child_vars, session
<1>4. InHand'
    BY <1>1, <1>2 DEF InHand, IsTakenFor, IsOfKind, Output, child_vars, dump_vars
<1>5. CountedOnce'
    <2>1. Decoded' = Decoded
        BY <1>1 DEF Decoded, child_vars, dump_vars
    <2>. QED
        BY <1>1, <2>1 DEF AnalyzerInv, CountedOnce
<1>6. DirsCounted'
    <2>. SUFFICES ASSUME clear_idir, NEW k \in Kinds
                  PROVE  /\ Cardinality(DirsOf(k)') + Begun(k)' <= current_number_outputs[k]
                         /\ Cardinality(DirsOf(k)') + Begun(k)' <= MaxPerKind
        BY <1>1 DEF DirsCounted, session
    <2>1. /\ Cardinality(DirsOf(k)) \in Nat /\ current_number_outputs[k] \in Nat
          /\ Cardinality(DirsOf(k)) + Begun(k) <= current_number_outputs[k]
          /\ Cardinality(DirsOf(k)) + Begun(k) <= MaxPerKind
        BY DirsFinite, FiniteIds DEF AnalyzerInv, DirsCounted, TypeOK
    <2>2. Begun(k)' = 0 /\ Begun(k) \in {0, 1}
        BY <1>1 DEF Begun
    <2>3. CASE DirsOf(k)' = DirsOf(k)
        BY <2>1, <2>2, <2>3, CrashFilesAssumption
    <2>4. CASE DirsOf(k)' # DirsOf(k)
        <3>1. DirsOf(k)' = DirsOf(k) \union {testcase_id} /\ k = crash_id /\ Output \notin dirs
            BY <1>1, <1>2, <2>4 DEF DirsOf, Output
        <3>2. Begun(k) = 1
            BY <1>1, <3>1 DEF Begun
        <3>3. Cardinality(DirsOf(k)') \in {Cardinality(DirsOf(k)), Cardinality(DirsOf(k)) + 1}
            BY <3>1, DirsFinite, FS_AddElement
        <3>. QED
            BY <2>1, <2>2, <3>2, <3>3, CrashFilesAssumption
    <2>. QED
        BY <2>3, <2>4
<1>7. DirsOwn'
    <2>. SUFFICES ASSUME clear_idir, NEW k \in Kinds, NEW t \in Testcases, <<k, t>> \in dirs'
                  PROVE  MadeFor(k, t)'
        BY <1>1 DEF DirsOwn, session
    <2>1. MadeFor(k, t)
        <3>1. CASE <<k, t>> \in dirs
            BY <3>1 DEF AnalyzerInv, DirsOwn
        <3>2. CASE <<k, t>> = Output
            <4>1. k = crash_id /\ t = testcase_id /\ t # 0
                BY <3>2, FiniteIds DEF Output
            <4>. QED
                BY <1>2, <4>1 DEF MadeFor
        <3>. QED
            BY <1>1, <3>1, <3>2
    <2>. QED
        BY <1>1, <2>1, MadeForStays DEF child_vars
<1>. QED
    BY <1>3, <1>4, <1>5, <1>6, <1>7 DEF AnalyzerInv

LEMMA RemoveDumpKeeps ==
    ASSUME TypeOK, AnalyzerInv, RemoveDump
    PROVE  AnalyzerInv'
<1>1. /\ step = "remove" /\ step' = "poll" /\ dump' = [dump EXCEPT ![handled] = "removed"]
      /\ UNCHANGED <<session, child, crash_of, current_number_outputs, file_vars>>
    BY DEF RemoveDump, DumpHandled
<1>2. handled \in Files /\ dump[handled] \in {"partial", "complete"}
    BY <1>1 DEF AnalyzerInv, InHand
<1>3. dump'[handled] = "removed" /\ \A f \in Files : f # handled => dump'[f] = dump[f]
    BY <1>1, <1>2 DEF TypeOK
<1>4. DumpOfCrash'
    <2>1. ASSUME NEW t \in Testcases, child[t] \in {"none", "running"}
          PROVE  dump'[<<"this", t>>] = "none"
        BY <1>2, <1>3, <2>1, FileFacts DEF AnalyzerInv, DumpOfCrash
    <2>2. \A f \in Files : dump'[f] # "none" => dump[f] # "none"
        BY <1>2, <1>3
    <2>. QED
        BY <1>1, <2>1, <2>2 DEF AnalyzerInv, DumpOfCrash, session
<1>5. InHand'
    BY <1>1 DEF InHand
<1>6. CountedOnce'
    <2>1. Decoded' = Decoded
        BY <1>1, <1>2, <1>3 DEF Decoded
    <2>. QED
        BY <1>1, <2>1 DEF AnalyzerInv, CountedOnce
<1>7. DirsCounted'
    <2>1. \A k : DirsOf(k)' = DirsOf(k) /\ Begun(k)' = 0 /\ Begun(k) = 0
        BY <1>1 DEF DirsOf, Begun, file_vars
    <2>. QED
        BY <1>1, <2>1 DEF AnalyzerInv, DirsCounted, session
<1>8. DirsOwn'
    <2>1. \A f \in Files : dump[f] # "none" => dump'[f] # "none" /\ crash_of'[f] = crash_of[f]
        BY <1>1, <1>3
    <2>2. \A k \in Kinds, t \in Testcases : MadeFor(k, t) => MadeFor(k, t)'
        BY <2>1, MadeForStays
    <2>. QED
        BY <1>1, <2>2 DEF AnalyzerInv, DirsOwn, session, file_vars
<1>. QED
    BY <1>4, <1>5, <1>6, <1>7, <1>8 DEF AnalyzerInv

LEMMA AnalyzerKept ==
    ASSUME TypeOK, AnalyzerInv, [Next]_vars
    PROVE  AnalyzerInv'
<1>1. CASE \E t \in Testcases : Child(t)
    BY <1>1, ChildKeeps
<1>2. CASE Analyzer
    BY <1>2, ReadIdKeeps, DecodeKeeps, OutputKeeps, RemoveDumpKeeps DEF Analyzer
<1>3. CASE CrashReader \/ (\E t \in Testcases : StoreTestcase(t)) \/ UNCHANGED vars
    BY <1>3, AnalyzerElsewhere DEF CrashReader, InsertMapping, Associate, StoreTestcase, vars
<1>. QED
    BY <1>1, <1>2, <1>3 DEF Next

(***************************************************************************)
(* The crash reader                                                        *)
(***************************************************************************)

LEMMA ReaderKept ==
    ASSUME TypeOK, ReaderInv, [Next]_vars
    PROVE  ReaderInv'
<1>1. ASSUME UNCHANGED reader_vars, dirs \subseteq dirs' PROVE ReaderInv'
    BY <1>1 DEF ReaderInv, ReadDirs, Locked, KindFull, Mapped, KindsAgree, PendingKind, reader_vars
<1>2. ASSUME NEW k \in Kinds, NEW t \in Testcases, Associate(k, t) PROVE ReaderInv'
    <2>1. /\ pending = 0 /\ <<k, t>> \in dirs /\ in_kind' = k /\ pending' = t /\ bimap[t] = None
          /\ UNCHANGED <<dirs, crashes_mapping, locked_crash_ids>>
        BY <1>2 DEF Associate, NotAssociated, analyzer_vars, file_vars
    <2>2. bimap'[t] = k /\ \A u \in Testcases : u # t => bimap'[u] = bimap[u]
        BY <1>2 DEF Associate, TypeOK
    <2>3. ReadDirs' /\ Locked' /\ PendingKind'
        BY <2>1, <2>2 DEF ReaderInv, ReadDirs, Locked, KindFull, Mapped, PendingKind
    <2>4. KindsAgree'
        BY <2>1, <2>2, FiniteIds, CrashFilesAssumption DEF ReaderInv, KindsAgree
    <2>. QED
        BY <2>3, <2>4 DEF ReaderInv
<1>3. CASE InsertMapping
    <2>1. /\ pending # 0 /\ pending' = 0 /\ UNCHANGED <<dirs, bimap>>
          /\ crashes_mapping' = crashes_mapping \union {<<in_kind, pending>>}
        BY <1>3 DEF InsertMapping, analyzer_vars, file_vars
    <2>2. pending \in Testcases /\ in_kind \in Kinds
        BY <2>1 DEF ReaderInv, ReadDirs, TypeOK, Ids, Testcases
    <2>3. ReadDirs' /\ PendingKind'
        BY <2>1 DEF ReaderInv, ReadDirs, PendingKind
    <2>4. KindsAgree'
        BY <2>1, <2>2 DEF ReaderInv, KindsAgree, PendingKind
    <2>5. Locked'
        <3>. SUFFICES ASSUME NEW k \in locked_crash_ids' PROVE KindFull(k, crashes_mapping')
            BY DEF Locked
        <3>1. KindFull(k, crashes_mapping) \/ KindFull(k, crashes_mapping')
            BY <1>3 DEF InsertMapping, ReaderInv, Locked
        <3>2. Mapped(k, crashes_mapping) \subseteq Mapped(k, crashes_mapping')
            BY <2>1 DEF Mapped
        <3>3. IsFiniteSet(Mapped(k, crashes_mapping'))
            BY FiniteIds, FS_Subset DEF Mapped
        <3>4. /\ Cardinality(Mapped(k, crashes_mapping)) <= Cardinality(Mapped(k, crashes_mapping'))
              /\ Cardinality(Mapped(k, crashes_mapping')) \in Nat
              /\ Cardinality(Mapped(k, crashes_mapping)) \in Nat
            BY <3>2, <3>3, FS_Subset, FS_CardinalityType
        <3>. QED
            BY <3>1, <3>4, CrashFilesAssumption DEF KindFull
    <2>. QED
        BY <2>3, <2>4, <2>5 DEF ReaderInv
<1>4. \/ UNCHANGED reader_vars /\ dirs \subseteq dirs'
      \/ InsertMapping \/ \E k \in Kinds, t \in Testcases : Associate(k, t)
    <2>1. ASSUME NEW t \in Testcases, Child(t) \/ StoreTestcase(t)
          PROVE  UNCHANGED <<reader_vars, dirs>>
        BY <2>1 DEF Child, ChildStart, ChildExit, ChildCrashes, ChildDumped, StoreTestcase,
                    analyzer_vars, file_vars
    <2>2. CASE Analyzer
        BY <2>2 DEF Analyzer, ReadId, Decode, MakeDirectory, OpenInfo, WriteInfo, OutputFails,
                    RemoveDump, OutputRest, file_vars
    <2>3. CASE UNCHANGED vars
        BY <2>3 DEF vars, analyzer_vars, file_vars
    <2>. QED
        BY <2>1, <2>2, <2>3 DEF Next, CrashReader
<1>. QED
    BY <1>1, <1>2, <1>3, <1>4

LEMMA Invariance == Spec => []IInv
<1>1. IInv /\ [Next]_vars => IInv'
    BY TypeKept, AnalyzerKept, ReaderKept DEF IInv
<1>. QED
    BY <1>1, InitHolds, PTL DEF Spec

(***************************************************************************)
(* Theorems                                                                *)
(***************************************************************************)

\* The variables keep their types: no count of outputs is above the number of
\* dumps, as every dump is counted once, and no info.json is written where
\* there is no directory (crash-analyzer.cpp:94-111, 117-146).
THEOREM CrashTypeCorrect == Spec => []TypeOK
<1>1. IInv => TypeOK
    BY DEF IInv
<1>. QED
    BY <1>1, Invariance, PTL

\* The two maps of the crash reader agree but for the testcase in hand
\* (ui.cpp:145-161).
THEOREM MapsAgree == Spec => []KindsAgree
<1>1. IInv => KindsAgree
    BY DEF IInv, ReaderInv
<1>. QED
    BY <1>1, Invariance, PTL

\* In an idir that was cleared, a kind that the crash reader locks is complete, and
\* stays so
\* (ui.cpp:132, 157, crash-analyzer.cpp:368-377).
THEOREM LockedIsComplete == Spec => []LockedComplete
<1>1. IInv => LockedComplete
    <2>. SUFFICES ASSUME IInv, clear_idir, NEW k \in locked_crash_ids
                  PROVE  \A t \in Testcases : <<k, t>> \in dirs => <<k, t>> \in crashes_mapping
        BY DEF LockedComplete
    <2>. DEFINE mapped == Mapped(k, crashes_mapping)
    <2>1. k \in Kinds
        BY DEF IInv, TypeOK
    <2>2. mapped \subseteq DirsOf(k)
        BY FiniteIds DEF IInv, ReaderInv, ReadDirs, Mapped, DirsOf
    <2>3. Cardinality(DirsOf(k)) <= MaxPerKind
        BY <2>1, DirsFinite, CrashFilesAssumption DEF IInv, AnalyzerInv, DirsCounted, Begun
    <2>4. Cardinality(mapped) >= MaxPerKind
        BY DEF IInv, ReaderInv, Locked, KindFull
    <2>5. /\ IsFiniteSet(DirsOf(k)) /\ Cardinality(mapped) <= Cardinality(DirsOf(k))
          /\ Cardinality(mapped) \in Nat /\ Cardinality(DirsOf(k)) \in Nat
        BY <2>2, DirsFinite, FS_Subset, FS_CardinalityType
    <2>6. Cardinality(mapped) = Cardinality(DirsOf(k))
        BY <2>3, <2>4, <2>5, CrashFilesAssumption
    <2>7. mapped = DirsOf(k)
        BY <2>2, <2>5, <2>6, FS_Subset
    <2>. QED
        BY <2>7, FiniteIds DEF Mapped, DirsOf
<1>. QED
    BY <1>1, Invariance, PTL

\* In an idir that was cleared, what the UI shows for a testcase is a crash of its
\* own, or of one whose id begins with the digits of its own
\* (crash-analyzer.cpp:117-146, ui.cpp:197-256).
THEOREM ShownCrashIsOwn == Spec => []ShownIsOwn
<1>1. IInv => ShownIsOwn
    <2>. SUFFICES ASSUME IInv, clear_idir, NEW t \in Testcases, Shown(t)
                  PROVE  \E u \in Testcases : /\ u = t \/ t \in ReadsAs(u)
                                              /\ crash_of[<<"this", u>>] # None
                                              /\ bimap[t] \in {crash_of[<<"this", u>>], Unknown}
        BY DEF ShownIsOwn
    <2>1. bimap[t] \in Kinds /\ <<bimap[t], t>> \in dirs
        BY DEF Shown, IInv, TypeOK
    <2>2. PICK f \in Files : dump[f] # "none" /\ IsTakenFor(f, t) /\ IsOfKind(f, bimap[t])
        BY <2>1 DEF IInv, AnalyzerInv, DirsOwn, MadeFor
    <2>3. f[1] = "this" /\ crash_of[f] \in Kinds
        BY <2>2 DEF IInv, AnalyzerInv, DumpOfCrash
    <2>4. f = <<"this", f[2]>> /\ f[2] \in Testcases
        BY <2>3, FileFacts
    <2>5. crash_of[<<"this", f[2]>>] = crash_of[f]
        BY <2>4
    <2>6. crash_of[<<"this", f[2]>>] # None /\ bimap[t] \in {crash_of[<<"this", f[2]>>], Unknown}
        BY <2>2, <2>3, <2>5, CrashFilesAssumption DEF IsOfKind
    <2>7. f[2] = t \/ t \in ReadsAs(f[2])
        BY <2>2 DEF IsTakenFor
    <2>. QED
        BY <2>4, <2>6, <2>7
<1>. QED
    BY <1>1, Invariance, PTL

=============================================================================
