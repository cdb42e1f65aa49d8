# A verification project for the feedback-directed fuzzer

TLA+ models of the program under `src/fuzzer`, checked by TLC on small
instances and, where a property is worth having for every instance, proved with
TLAPS. All paths below are relative to `src/fuzzer/`.

## 1. The system

The fuzzer runs an instrumented target (the SUT) once per testcase, reads back
the trace of program points the run reached, scores it, and breeds the next
generation of testcases from the scores.

| component | state | operations |
| --- | --- | --- |
| generation loop (`fuzzer/handler.cpp`) | counters, two flags, two queues, the set of launched ids | main loop, process monitor, trace retriever: three threads |
| commander (`fuzzer/commander.cpp`) | pid -> testcase id; the process table: a pid set under a mutex and two concurrent maps | exec, call, insert, update, remove, get_terminated_processes, processed_pid, clear; the timeout watcher thread |
| runtime (`runtime/runtime.cpp`), linked into the SUT | trace buffer under `trace_mutex`, handlers for exit, crash, SIGUSR2 | hooks, add, flush |
| shared-data (`shared-data/`) | a shared memory segment, one trace list per testcase, one named mutex | add, get_trace, remove_trace, create, grow |
| program knowledge (`fuzzer/knowledge.cpp`, `lrucache.h`) | coverage graph, scores by testcase, covered goals, two caches | add_trace, evaluate_trace, reset_scores |
| evolver, population (`fuzzer/evolution.cpp`) | population, seeds, the best N individuals | evolve, global_perturbation |
| genetic operators (`mutations.cpp`, `cross-overs.cpp`, `mating-strategy.cpp`) | none | pure functions of buffers and a random source |
| memory manager (`memory-manager.cpp`) | slots: buffer, length, reference count | create, copy, dismiss, increase, decrease, force_clean |
| crash analyzer (`crash-analyzer.cpp`) | dump directory, crashing ids | a polling thread |
| UI server (`ui.cpp`) | three bounded queues, a store, connections | a server thread and a queue reader |
| the rest | see `PROJECT.json` | command line, seeds, store, mocker, trace service, clang plugin, front-end |

How they interact. The main thread of `single_threaded_loop` forks children
through the commander. The *timeout watcher* polls `waitpid` for every pid of
the table and writes its status; it sends SIGUSR2 to a child whose time is up.
The *monitor* takes the pids that are not running any more out of the table and
pushes their testcases to one of two queues. The *retriever* pops them, looks
the trace up in shared memory, adds it to the knowledge and raises
`processed_testcases`, the counter the main thread waits on before it reports
and evolves. The children write their traces through the runtime.

What is hard: four threads and the children share the table, two flags, two
queues and a counter with hardly any lock; the kernel recycles pids; children
die, stop, or hang; the runtime's handlers interrupt code that holds mutexes;
the container's mutex is shared with processes that may be killed; the segment
fills up.

What makes it correct: no testcase is counted twice or in a generation it does
not belong to; the evolver reads the scores while nobody writes them; every
generation ends; the limit on processes bounds the processes; a trace that is
read is complete; an element that is recorded reaches the container, in order;
a child that is told to end ends and leaves the container usable; the best
individuals are never lost to worse ones; the population keeps its size and the
evolver stays within it; a stagnating population is perturbed, and that ends; a
slot is freed when nobody holds it and not before, and what an operator writes to
is nobody else's buffer; a program point is one vertex of the graph and its
novelty is credited once; a crash that was dumped is shown, as its own; a
testcase that was launched is found in the UI's store.

The UI side is two more threads and a server: the main loop pushes every testcase
it launches into a bounded single-producer queue, the *queue reader* stores it and
summarises the crashes that the *crash analyzer* marks in a Bloom filter; the
*crash reader* polls the directories the analyzer fills. The server thread
evaluates an input the user has typed on the campaign's own knowledge.

## 2. The modules

### TestcaseLedger.tla: the abstract specification

What the loop promises about one generation, without its threads: `Open`,
`Launch` (a fresh id), `Skip` (an id whose call failed), `Account` (once per
launched testcase), `Close` (only when all are accounted for).

### Generation.tla: the loop, the commander and the children

Four threads (main, watcher, monitor, retriever) and the children. One action
is one access to shared state. The variables carry the source's names:
`testcase_pids`, `all_pids`, `pid_statuses` and `pid_timers` are the commander's
and the process table's structures,
`received` and `sent` the two `all_testscases_*` flags of the monitor,
`processed` the retriever's counter. `proc`, `proc_testcase` and `traces` are
the kernel's processes and the container's lists. `accounted` and `scored` say
which testcases stand behind `processed` and the score maps.

- main (`handler.cpp:350-485`): `Evolve`, `ClearTable`, `ClearSent`,
  `ClearReceived`, `ClearRetriever`, `Launch`/`LaunchFails`, `RecordTestcase`,
  `PublishStatus`, `PublishTimer`, `PublishPid`, `AllReceived`, `SeeSent`,
  `SeeCount`, `Report`. The actions are in the order of the statements: `clear()`
  of the monitor is two stores, so two actions; `insert()` of the table fills three
  structures under three locks, so three; the pid is recorded before the table
  learns of it.
- watcher (`commander.cpp:106-143`): `WatcherCopy`, `WatcherWait`,
  `WatcherInTime`, `TimeoutKill`, `WatcherUpdate`. What `waitpid` said is kept
  in a local and written later.
- monitor (`handler.cpp:215-251`, `commander.cpp:217-241`):
  `MonitorSeesEmpty`, `MonitorFlags`, `MonitorCopy`, `MonitorScan`,
  `MonitorRemoveStatus`, `MonitorRemoveTimer`, `MonitorRemovePid` (`remove()`, one
  for each structure), `MonitorPush`, `MonitorPassOver`, `MonitorForget`,
  `MonitorDone`. The scan looks at one pid of its copy after the other, and only
  then are those it has found removed.
- retriever (`handler.cpp:259-321`): `RetrieverPop`, `RetrieverSeesEmpty`,
  `GetTrace`, `AddTrace`, `AddTraceFails` (an exception is logged and the testcase
  not counted: the fault `"throws"`), `CountTimedOut`, `RetrieverLoops`.
- children: `ChildFlush`, `ChildExit`, `ChildStop`. They flush a trace and exit,
  die without one (`"silent"`), or are stopped (`"stops"`).

Left out: the content of traces and of individuals (a trace is there or not),
the two `all_processed` sets that are only logged, and the second gate,
`--max-num-testcases`, within a generation: `handler.cpp:27-29` checks it once
per generation, so a campaign may run more testcases than the option says by up
to a population. The monitor's flags start with any value: they are
default-constructed atomics that the monitor may read before the first clear.

### GenerationProofs.tla, GenerationTraceProofs.tla

The theorems about Generation, see section 4. The second module adds an invariant
of its own about statuses and pids, which holds only without early recycling.

### SutRuntime.tla: the runtime in the target and the container

Processes with several threads. A thread is in the target's own code, waits at
one of the two places that lock `trace_mutex` (`add`, `flush`), is inside one
of them (`push`, `append`), is inside `Container::add` under the named mutex
(`publish`), or is about to return (`back`). `activity` is the hook it runs:
a program point, the exit hook, the crash callback or the SIGUSR2 handler.
`Signal` interrupts a thread anywhere and leaves the mutexes it holds locked:
the handler never returns to the interrupted code but calls `exit`.
`PublishThrows` is a full segment: nobody catches the exception, so the stack is
not unwound and the abort runs the crash handler on a thread that holds both
mutexes. `Kill` ends a process anywhere. `FuzzerLocks`/`FuzzerFinds` are the
fuzzer's `get_trace`. The two modules meet at the container: `ChildFlush` and
`ChildExit` of Generation stand for a whole life of a SutRuntime process.

Left out: threads that call `exit` twice, which is undefined for the target
itself, and the first `enter_func` is one step (`Start`): a SIGUSR2 during it
kills the process as one before it does.

### SutRuntimeProofs.tla

The theorems about SutRuntime, see section 4.

### BestIndividuals.tla: the best N individuals

`best_individuals_t` (`evolution.cpp:222-328`) as a record (container, hashes,
`min_key`, `max_key`) and its operations: `Refuses` and `Inserted` are the paths
of `insert()`, `Replace` the one at the expense of an element whose key is
`min_key` (`Removed`; of none, when there is no such element), `Add` the one
while there is room, `Improves` its result; `BestCount` and `Remaining` are
`get_best()`. `Less` and `Greater` are the operators of `measure.cpp`: a measure
is abstract, its `Weight` is its place in the order, and of two measures that
weigh the same each is `Greater`. `UnsetKeys` is what a default-initialised
`measure_t` may be: its length is not initialised, so any of several.

### Population.tla: the evolver

It runs in the main thread while the testcases of a generation are not: `pc` is
`"run"` between two calls of `evolve()`, whose parts are the actions, in its
order: `Evolve` (counters), `Rank` (one turn of the loop that inserts into the
best), `Ranked`, `Breed` (mating), `Reinject`, `Adjust`, `Assign`; or, instead of
breeding, `Perturb`. A mutated individual may have any content and nothing reads
the content before the next ranking, so a population is the number of its
individuals and `Rank` picks the content and the measure. `seeds` starts as
`init_seeds` makes it. `unimproved` and `dropped` are history variables:
generations since the last improvement or perturbation, and the weights of what
`insert()` refused or removed. Reading past the end of a vector, which is
undefined, is the place `"out_of_range"`; the draw of two different indices that
cannot succeed is the place `"spin"`. The model stops there.

Left out: the slots (IndividualMemory has them), the copies for the UI, and that a
perturbation which announces to cross over "2 elements in the best_individuals"
takes those with the drawn indices in the population (`evolution.cpp:708-716`):
contents are free anyway.

### PopulationProofs.tla

The theorems about both, see section 4.

### Buffers.tla: the operators on bytes

Lengths and offsets of the mutations and cross-overs (`mutations.cpp`,
`cross-overs.cpp`), and what of it leaves a buffer. `Mutated(length)` and
`Crossed(child, parents)` are the possible outcomes for buffers of these lengths:
the resulting buffer, and the accesses, each with how far it reaches into what was
allocated. The drawn offsets are free within what the code's distributions
allow; the content of bytes is left out.

### IndividualMemory.tla: the memory manager under the evolver

Who holds which slot. A place is a C++ object of type Individual: of the seeds'
values, the population's seeds, its vector (two storages, since `assign()` may
reallocate), the best, the new ones of `evolve()`, and its locals. `Copy`, `Clone`
and `Destroy` are the copy constructor (also `operator=`, which releases nothing),
`Individual::clone` (which counts its source once too often) and the destructor;
each action of the evolver is one of them on one place, in the order of the
code, up to `ForceClean`. It splits the actions of Population, which says how many
and which; here the numbers are free within bounds.

### IndividualMemoryProofs.tla

The theorems about both, see section 4.

### CrashFiles.tla: crashes on their way through the file system

The child that crashes (`ChildCrashes`, `ChildDumped`), the analyzer
(`crash-analyzer.cpp:88-146, 308-400`: `ReadId`, `Decode`, `MakeDirectory`,
`OpenInfo`, `WriteInfo`, `OutputFails`, `RemoveDump`), which may find the dump while it
is written, and the UI's crash reader (`ui.cpp:100-256`: `Associate`,
`InsertMapping`), which may find a directory without its `info.json`, or with an empty
one. They share nothing but files. A file is one of this session or of an earlier one.
`ReadsAs` is what `get_testcase_id` makes of an id whose digits were cut: in the base
`Base`, the id less some of its last digits; `IdOfNone` (0) where there is none.

Two options decide what is there: `clear_idir` (`--clear-idir`, else `Leftovers` holds
the directories and dumps of an earlier session) and `default_idir`: the runtime has
`.fuzz-idir/dumps/` compiled in (`runtime.cpp:197`), and with another `--idir` the
analyzer polls a directory nobody writes to (`Polled`). `testcase` is each
testcase's way to the data store, which UiQueues has in detail (`StoreTestcase`, or
`"lost"` from the start): a crash is `Shown` only when its `info.json` can be parsed and
the store has its testcase, as `UICrashReader::get` asks.

### CrashFilesProofs.tla

The theorems about CrashFiles, see section 4.

### UiQueues.tla: what the main loop tells the UI

The main loop's pushes, a queue of `Capacity` whose push is two steps (the index
is loaded, the slot is written and the index stored), and the queue reader: it
pops, inserts in the database, pushes back what the database refuses, and
summarises the crashes. The push of the main loop and the one of the queue reader
may overlap: the queue is for one producer. It meets Generation only in the order
of launches and CrashFiles only in `crashers`, which the analyzer may set at any
moment here; their product is out of reach (more than 30 million states for one
testcase each), and neither waits for the other. `errored` is a server that did not
start or a UI that is disabled: the main loop pushes all the same and nobody pops.

### UiQueuesProofs.tla

The theorems about UiQueues, see section 4.

### Novelty.tla: the abstract specification of the knowledge

A set of what was reached, and no graph: `Take` takes the next trace, `Reach` the
next element of it, and credits what it brings that no element has brought before.

### Knowledge.tla: the graph that traces are added to

`Coverage` of `knowledge.cpp` and the LRU cache of `lrucache.h`, used by the
campaign's thread and by the server thread's evaluation without a common lock:
`exists()` and `copy_get()` are two steps, and so are the new vertex and its
name. An evaluation looks for its trace in the segment that was open when the
handler was made (`handler.h:96`), which `initialize()` has since unlinked. Nobody writes
to it any more, so mostly it waits for ever and meets nothing. But
`create_shm()` opens the segment where there is one: after a session that was
interrupted it holds that session's traces, ids start anew, and the evaluation may find
a trace under its id (`StaleTraceFound`, the variable `left_over`) and walk the
campaign's graph.

`blind` is a campaign without models: the goals of a block are then drawn at its first
visit (`mocked_scores`) and credited at each one, so that no promise of the scores is
about them. `--fake-target-call` is left out: its main loop uses a commander that was
not made (`handler.cpp:70-78`, `358`) before it adds a trace.

The cache is a sequence of at most `CacheSize` entries, the last used first:
`Others` takes the entry of a block out, `First` puts it in front, `Put` drops the
last when there is one too many. `copy_get()` moves to the front only. `Oracle` is
Novelty with the trace left, the reached functions, the blocks that edges join and
the covered goals for its state; the goals of a step, which are scored after its
edge, count with it. `NoveltySpec` asks for its steps until an evaluation shares the
graph (`Disturbed`: one has been started, and an earlier session left its segment).

### KnowledgeProofs.tla

The theorems about Knowledge, see section 4.

### MC modules

`MCGeneration` and `MCSutRuntime` add the symmetry sets and nothing else;
`MCPopulation` adds four measures, two of which weigh the same, `MCIndividualMemory`
the lengths of the seeds, `MCCrashFiles` the kinds and a dump that an earlier session
left, `MCKnowledge` three blocks, a handful of traces, a goal and a score drawn for one
block.

## 3. What TLC checks

| run | instance | shows |
| --- | --- | --- |
| `generation` | 2 pids recycled early, limit 1, generations of 1 and 2, all faults | `IndInv`, with `TypeOK` in it; `KnowledgeExclusive`: the evolver reads the scores alone; `EachOnce`, and the refinement `LedgerSpec` |
| `generation_live` | 2 pids, limit 2, a generation of 2, failing forks | `GenerationCompletes` under fairness; `TraceComplete`: no child appends to a trace that is read |
| `sut_runtime` | 1 process, 2 threads, 2 program points, 2 signals, all faults | `TypeOK`, `FlushedInOrder`, `OutcomeTold`, `LeftLockedByOther` |
| `sut_runtime_live` | 2 processes of 1 thread, all faults, and the fuzzer | `EndsUnlessInterrupted` under fairness |
| `population` | 5 contents, 4 measures, the best 3, a population of 6 +- 2, 3 generations | `TypeOK`; `BestDistinct`, `BestKept`, `AtMostOneMore` of the best; `SizeInRange`, `InRange`, `DrawEnds`, `FixpointBound` of the evolver |
| `individual_memory` | 2 seeds of 0 to 2 bytes, a population of up to 2, one best, 6 slots, 2 generations | `TypeOK`; `RefsCover`, `NoDangling`, `NothingLeaked` of the counts and of `force_clean`; `OwnBuffer`, `StaysInBuffer`, `NeverEmptied` of the operators |
| `crash_files` | 2 testcases, 2 kinds, one crash shown per kind, ids in base 2, a failing output, a dump left by an earlier session | `TypeOK`, `KindsAgree`, `LockedComplete`, `ShownIsOwn`; `CrashShown` under fairness |
| `ui_queues` | 3 testcases in generations of 2, a queue of 2, 2 failing insertions, a UI that may not start | `TypeOK`, `NoneLost`, `SummarisedOnce`; `StoredInTheEnd` under fairness |
| `knowledge` | 2 traces of 3 blocks and an evaluation, a cache of 2, with and without a left-over segment, with and without models | `TypeOK`, `FewCopies`, `NoveltyOnce`, `FailsOnlyIfEvicted`, and the refinement `NoveltySpec` |

Each of these properties fails for the mutants of the model in `PROJECT.json`,
one for each, written next to the definition they change.

Disagreements with what the repository says of itself, each a run that ends
with a counterexample:

- `lost_trace`: a child that dies without a trace is never counted, and the
  main loop waits for ever ("Wait for the completion of the trace_retriever",
  `handler.cpp:433`). Shown by `GenerationCompletes` with the fault `silent`. A trace
  whose `add_trace` throws (`handler.cpp:313-315`) ends in the same way.
- `process_limit`: more children run than `--max-num-processes`
  (`coverage-fuzz.cpp:109`): a child that was told of its timeout leaves the
  table at once, and may still run.
- `ends_when_told`: SIGUSR2 inside `add` or `flush` makes the handler wait for
  the thread it interrupted (`commander.cpp:51-52` says the child "will then
  flush the trace and then commit suicide").

Seen on the way and not given a run:

- The flush "once every N trace elements" (`runtime.h:51-52`) never happens:
  nothing increments `eventsSinceLastFlush`.
- The population leaves the range that `--population-deviation-size` announces
  (`coverage-fuzz.cpp:102`): the adjustment never looks at its upper end.
  `SizeInRange` is what is left of it.
- The best individuals are one more than the "cannot have more than N elements"
  of `evolution.h:235-237` (`AtMostOneMore` is the bound that holds); `insert()`
  takes a tie for a new best; the counter behind `--max-evolution-fixpoint` also
  counts generations that improve, so that the population is perturbed earlier
  than the option says (`FixpointBound` is the half that holds); the read-only
  copy of the best for the UI is never emptied, and
  `get_shared_individuals_from_individuals` sizes its vector and then appends
  (`evolution.cpp:123-125`), so that the first half of it is empty.
- `isolated_evaluation` does not return: it waits for a trace in a segment that was
  unlinked, and if it finds one that an interrupted session left there, the destructor
  of its Commander joins a thread that never ends (`commander.cpp:155`). So there is one
  evaluation at most in a session; in the second case it has walked the campaign's graph
  for a trace that is not its own. It raises the id counter between two statements of
  the main loop (`handler.cpp:537`).
- With an `--idir` of one's own no crash is ever seen: the runtime writes its dumps to
  `.fuzz-idir/dumps/` (`runtime.cpp:197`), the analyzer polls `dumps` of the idir
  (`crash-analyzer.cpp:55`).
- `ChangeASCIIInteger` counts the first digit twice and misses the last
  (`mutations.cpp:198-203`); a plain clone keeps an empty buffer, which
  `get_and_mutate` says it does not (`evolution.cpp:621`); `AlignmentCrossOver`
  would write to its parents' buffers (`cross-overs.cpp:194`), but it is not
  registered (`evolution.cpp:159`).
- A dump that is handled before it says its testcase is filed under testcase 0 and
  removed, and one that is cut in the digits under another testcase; a dump handled
  after the poll of its generation is never reported to the UI's summary
  (`handler.cpp:467`); a crash whose testcase did not reach the store is found and
  not shown (`ui.cpp:227-233`); crashes whose testcase is not stored yet are retried
  only when the next set arrives (`ui.cpp:595`). Nobody looks at the result of a
  push to the UI's queues.

Bounds and why they are enough. Two pids give two children at once, a child that is
recycled while the other lives, and a limit that is reached: with a limit of one the
second is launched between the monitor's scan and its push, so two may run all the
same. Two testcases in one generation give one that is queued while the other is
counted; `MaxTestcases` only says when the campaign stops, and the last generation
runs to its end. With sizes {1, 2} a small generation follows a large one, so that a
counter or flag that is not reset is seen. `generation_live` has the limit of two,
and failing forks only: with `silent`, `stops` or `throws` the property does not
hold (`lost_trace`). That `insert()` for a recycled pid meets the `remove()` of its
predecessor takes a limit of two and early recycling together, which is out of TLC's
reach with everything else: the theorems, which hold for every limit, cover it. Two
threads of a process are needed for a push between two steps of a flush, for a
thread that ends the process while the other is in the container; two signals reach
a thread in a handler and one that is exiting; two program points give a buffer of
several elements to cut where the segment is full. Two processes are needed for a
mutex left locked in the container. `FLUSH_EVENT_RATE` is 2 in place of 100: it is
only compared. Six individuals with a deviation of two are the largest deviation of
a third, where breeding and reinjection just meet; the population has four to eight
of them, two generations without an improvement reach a perturbation at `MaxStale`
1, and the third starts from what it left. A best of three with five contents is
filled, outgrows its size, refuses and replaces; four measures give a tie, and an
unset key that is, or is not, one of an element. In IndividualMemory two individuals
of a population reallocate the vector when one was there before, one best individual
outgrows its size and is replaced, and six slots let a generation clone after
another has leaked. In CrashFiles one testcase of a kind is shown and the second is
one too many; in base 2 the id of the second, cut, is that of the first, which may
also have a dump of an earlier session (directories that were left, and cut dumps
that were, are in the theorems only); in UiQueues three testcases fill a queue of
two, and a refused insertion goes back behind a push of the main loop; in Knowledge
a cache of two evicts one of three blocks between `exists()` and `copy_get()`, where
a left-over segment lets the evaluation in. No run checks for deadlock: the
campaign, a target's process and the poll for a last crash really end, and the
evolver stops after the last generation and at `"spin"` and `"out_of_range"`.

Fairness. The four threads of the fuzzer are scheduled (weak fairness of each one's
next step). Strong fairness of `TimeoutKill` for every pid: the timer counts the
fuzzer's own CPU time, the monitor polls a table that is not empty without sleeping,
so a child that stays running is found over time again and again until it is told.
Nothing is assumed of the children in Generation: they may hang for ever. In
SutRuntime a thread that is in the runtime is scheduled, and so is the fuzzer; the
target's own code, signals and faults owe nothing. `GenerationCompletes` and
`TraceComplete` are checked without early recycling of pids, which the kernel does
after tens of thousands of others: a child whose pid is reused inside `remove()` may
leave the pid set and is then never looked at again, and one whose predecessor's
status is written late counts as terminated while it runs. In CrashFiles the
analyzer, the crash reader and, for what is not lost, the queue reader, in UiQueues
the main loop and the queue reader are scheduled; children that crash, the database
and the moment the analyzer marks a testcase owe nothing.

## 4. What is proved

`GenerationProofs` proves, for every finite set of pids, every limit, every
number of testcases, all population sizes, all faults and early recycling or
not:

- `Invariance`: `Spec => []IndInv`.
- `TypeCorrect`, `CountedOnce`, `ReadsAlone`: `TypeOK`, `EachOnce`,
  `KnowledgeExclusive` always hold.
- `ImplementsLedger`: `Spec => LedgerSpec`, the refinement of TestcaseLedger.

`GenerationTraceProofs` proves `TracesAreComplete`, that `TraceComplete` always
holds, under the assumption that `EarlyReuse` is false. It does not hold without:
a child that is told of its timeout is taken out of the table while it runs, a
watcher that still has its pid in its copy of the table may reap it, and if the pid
is given to a new child before the watcher updates the table, the new child counts
as terminated.

`PopulationProofs` proves, for every set of contents and measures, every order,
every size of the best, every population size, deviation and fixpoint:
`PopulationTypeCorrect`, `HashesOfTheKept`, `BestAreKept`, `BestOutgrowByOne`,
`PopulationStaysInRange`, `ReadsInRange`, `PerturbationDraws` and
`PerturbedInTime`, one for each property of the run `population`.

`IndividualMemoryProofs` proves, for every number of seeds, slots, individuals and
generations and every length of a buffer:

- `MutationsSafe` and `CrossOversSafe`: no operator leaves a buffer, and none makes
  an empty one of parents that are not, for parents of every length.
- `TypeCorrect`, `CountsCoverIndividuals`, `NobodyDangles`, `LeaksEndWithGeneration`,
  `WritesOwnBuffer`, `NeverOverrun`, `NobodyEmptied`, one for each property of the
  run `individual_memory`.

`SutRuntimeProofs` proves, for every set of processes and of threads, every flush
rate, every number of calls and signals and all faults: `RuntimeTypeCorrect`,
`TraceInOrder`, `OutcomeIsTold` and `LeftLockedBySecondThread`, one for each
invariant of the run `sut_runtime`.

`UiQueuesProofs` proves, for every number of testcases, size of a generation,
capacity and number of failed insertions: `UiTypeCorrect`, `NoTestcaseLost` and
`CrashSummarisedOnce`, one for each invariant of the run `ui_queues`.

`CrashFilesProofs` proves, for every number of testcases, every set of kinds, every base
of the ids, every limit of outputs, with the default idir or another one and whatever
dumps and directories an earlier session left: `CrashTypeCorrect`,
`MapsAgree`, `LockedIsComplete` and `ShownCrashIsOwn`, one for each invariant of
the run `crash_files`.

`KnowledgeProofs` proves, for every set of functions, blocks, goals and traces,
every size of the cache and every number of traces, with and without models, and
with and without a left-over segment that brings an evaluation to the same graph:
`KnowledgeTypeCorrect`, `BlocksHaveFewVertices`, `NewIsCreditedOnce` and
`GetThrowsOnlyIfEvicted`, one for each invariant of the run `knowledge`, and
`ImplementsNovelty`: `Spec => NoveltySpec`, the refinement of Novelty.

The only assumptions are `GenerationAssumption`, `BestAssumption`,
`PopulationAssumption`, `BuffersAssumption`, `IndividualMemoryAssumption`,
`RuntimeAssumption`, `UiQueuesAssumption`, `CrashFilesAssumption` and
`KnowledgeAssumption`: the types of the constants, with a deviation of at most the
population's size, and at least one best individual, one output of each kind of
crash, one place in a queue and one in the cache; that an id of a goal is not an
element of a trace; and `~EarlyReuse` where it is said.

The argument. `EachOnce` is not inductive: it says nothing of the testcases
that are still in the commander's map. `IndInv` adds where each testcase of the
generation is: launched and not yet recorded (`MainPlaces`), or standing for
exactly one pid in `testcase_pids` (`OutstandingOnce`), or in flight, or
counted; and that a process which exists runs a testcase of the campaign
(`ChildrenNumbered`), that the scores are of this generation (`ScoresCurrent`),
and that `to_process` is what was launched and what is left to launch. The
invariant never mentions the status of a process or the two flags: what keeps
the generations apart is the count alone, and the flags are not needed for it.
So the races at the flags and in the table, those between the three structures of
`insert()` and `remove()` among them, cannot lose or double a testcase: who stands
for it is `testcase_pids`, and a scan reports a pid once. They can only hold it up, which
is the business of `generation_live`. When the main thread
sees the count, `accounted` is a subset of `Launched` with as many
elements, so it is all of it, nothing is in flight, and the monitor has no pid
left to push. The proof of each conjunct has one step per action, the four ways
a testcase moves are lemmas of their own (`PushedTestcase`, `PoppedTestcase`,
`TimedOutTestcase`, `TracedTestcase`).

The argument for the best individuals. `BestKept` compares what is kept with
what was dropped; the invariant `BestInv` puts `min_key` between them: no element
weighs less, nothing dropped weighs more, and nothing is dropped before the
container is full. While there is room `min_key` may be of no element (a
default-initialised key that is below all of them), which is harmless: it is
below. When the container is full for the first time the removal then finds
nothing and the container outgrows its size by one; the insertion consolidates
the key, which from then on is the key of an element (`LeastKeyFound`, from the
well-foundedness of the naturals), so that every later insertion removes one. The
sizes (`SizeInv`) follow from arithmetic: two parents make a child, so at most
`(MaxPop + 1) \div 2` are bred, which is at most `MinPop` for a deviation of up
to a third, and `Adjust` adds at most `2 * Deviation` to exactly `MinPop`.

The argument for the slots. Counts err upwards only: a copy counts, a destruction
uncounts what was counted, and what `operator=` and `clone()` do wrong leaves a
count too high. So `RefsCover` (a slot's holders are at most its count) is kept by
each operation, and with it nobody dangles, except for `force_clean`, which does
not look at counts: there the invariant says who holds a slot at all at that
moment: the seeds, the population, the best, and copies of them in the evolver's
locals and in `new_individuals`, whose slots were just assigned to the population.
What it frees is then held by nobody, and what is left is held by somebody, hence
`NothingLeaked`. `OwnBuffer` follows from `next_index`, above every slot that was
ever held. `NeverOverrun` rests on the arithmetic of the operators, which is stated
once for all lengths in `MutationsSafe` and `CrossOversSafe`.

The argument for complete traces (`TraceInv`). A testcase is pushed to the queue for
the status of a pid, so the invariant follows the status: `waitpid` says that a
process has ended or was stopped, and this stays true in the watcher's hands, in the
table and in the monitor's result (`StatusTrue`), because in each of these the pid
has a recorded testcase (`TableRecorded`, `NotedForgotten`, `NewPid`) and is not
given to another child. The table's three structures disagree while a pid is
inserted or removed; `TableRecorded` says by which pid only, and `ToRemove` that
what is being removed has been found terminated and has lost its status first, so
that no late status of the watcher gets in again. A recorded testcase is run by no
process but that of its pid (`OwnTestcase`), so who reads it reads alone
(`ReadsEnded`).

The argument for the runtime. Who is past the lock of `trace_mutex` is its owner
(`MutexHeld`), so one thread of a process at most appends to the buffer or moves it,
which is `FlushedInOrder`. A hook that ends the process has its element in the trace
from its push on and in the container when it returns, even if another thread has
done its flush (`HookTold`); a process that has ended by itself was ended by such a
hook (`EndedByHook`). Where the segment is full the exception ends in the handler
for SIGABRT, which waits for the `trace_mutex` its own thread has locked: nobody
gets at the trace any more (`FailedStops`), so that what is in the container stays a
prefix of what was pushed, and who had told before has told. The container is locked
by a thread that holds `trace_mutex`, and is either inside `Container::add` or waits
for itself in the handler that interrupted it (`ContainerHeld`); it is not about to
return, so it is not the thread that ended the process.

The argument for the queues. The two indices are in order as long as no two pushes
overlap, and what is between them is what was pushed and not popped; a push under
way keeps its testcase in the main loop's or the queue reader's hands. A testcase on
its way to the summary is in one place: gathered in the main loop, reported, queued,
delayed or summarised (`OnePlace`).

The argument for the crash files. The analyzer counts an output before it makes the
directory, and stops at the limit, so the directories of a kind are no more than its
limit (`DirsCounted`, which counts the one that is still to come: no more than there
were dumps, each counted once, `CountedOnce`); those the reader
has mapped are some of them (`ReadDirs`), and a kind is locked when these are as many
as the limit (`Locked`): then they are the same set. This needs that nothing was left
by an earlier session. A directory was made for a dump whose id may be read as its
testcase and whose kind is its own or unknown (`DirsOwn`, `IsTakenFor`).

The argument for the knowledge (`KnowledgeProofs!IndInv`). Where a thread is says
what it has in its hands (`InPlace`). As long as two threads have not met in
`bgl::add_vertex()`, the only vertex without a content is the last, and a thread is
about to name it (`OneUnnamed`); so what the cache, the threads' ends and the edges
hold are vertices of the right block (`RightVertices`), and the vertices of a block
and the threads about to add one are together at most one, or two where an
evaluation shares the graph (`CopiesAndAdding`): a thread joins them only after it
has found no vertex of the block. `FewCopies` alone is not inductive, since both
threads may have looked before either has added. A thread between `exists()` and
`copy_get()` finds the block in the cache unless it was evicted since, which needs
the other thread and more known blocks than the cache holds (`GetsCached`). Credits are
counted against what is reached: a function or goal is credited at most once, and
exactly once if the evaluation has not marked it first (`Credits`); an edge between
blocks is credited as often as there are edges between vertices of these blocks
(`EdgeCredits`), so at most once for each pair of copies. For the refinement, two more
facts (`Calm`): the campaign has no trace in hand between two, and threads collide
only where an evaluation shares the graph. Undisturbed then a block has one vertex
(`OneVertex`), so an edge between vertices is there if and only if the step between
their blocks was reached (`EdgeIsStep`); what the maps and the graph find new is what
the set finds new, and a miss in the cache that would cut a trace cannot happen.

Every invariant that a run checks is proved. Only model-checked are the liveness
properties, since fairness and leads-to are out of the proof system's reach:
`GenerationCompletes`, `EndsUnlessInterrupted`, `CrashShown` and `StoredInTheEnd`.

## 5. What is not modelled

Of the components that are modelled in part, `PROJECT.json` says for each what is
missing. What no module has, and why:

- undefined behaviour of the read-only copies for the UI: a vector that is
  reallocated while the server reads it has no finite set of outcomes to choose
  from, and a run of the fuzzer that meets it has no properties left;
- the content of bytes, of traces but for their blocks, and of measures: the
  properties do not tell them apart;
- the seeds' and the store's files, loaded once before any thread starts; the
  mocker, which makes traces up and is represented by the set it may make;
- the clang plugin, a rewriting of source text by a compiler's data; the command
  line, logging, JSON and HTTP formatting, and the browser front-end: they keep no
  state that a property could be about;
- `multi_threaded_loop`, `AlignmentCrossOver` and growing the segment, which nothing
  calls, and `--fake-target-call`, which dereferences a null pointer first;
- the vendored code under `include/` and elsewhere (logging, websockets,
  serialisation, JSON), which is nine tenths of the C++ here and none of this
  program's: where the fuzzer uses it (the queue of one producer, the graph, the
  shared memory's mutex) it is modelled from that use.

Worth adding next: refinements of the same kind for the runtime (an append-only trace
of each process) and for the UI's store (every launched testcase once), which are
now stated as invariants; and the read-only copies for the UI, once they have a
defined behaviour.
