# Gremlins in TLA+

Gremlins is a mutation testing tool for Go: it finds tokens it can mutate,
writes one mutation at a time into a copy of the module, runs `go test` on the
copy and judges the tests by how many mutants they kill. This directory holds
TLA+ models of its core, the TLC configurations that check them and TLAPS proofs
of every safety property that the passing runs check. All definitions are translated from the Go code;
`PROJECT.json` gives the lines for each.

## The system

| Part | State it keeps | Operations | What makes it correct |
|---|---|---|---|
| Worker pool (`internal/engine/workerpool`) | a queue of one place, the workers, a `stopCh` each | Initialize, Start, AppendExecutor, Stop | Stop drains the queue, returns, and everything appended has run exactly once |
| Engine (`internal/engine/engine.go`) | the mutant stream, `outCh`, a WaitGroup, the report | Run, executeTests, cancellation | nothing accepted is lost or reported twice, no send on a closed channel, Run returns |
| Mutant executor (`executor.go`, `process_unix.go`) | the mutant's status, one process group per test run, a deadline | Start, runTests, run | a verdict is what the tests said, never what our own kill caused; no process survives |
| Mutant discovery (`engine.go`, `node.go`, `mappings.go`) | two tables kept by hand | runOnFile, findMutations | exactly the enabled and possible mutants are found |
| Token mutator (`tokenmutator.go`) | one AST per file shared by all workers, a lock per file in a map | Apply, Rollback | each test sees exactly its own mutation |
| Workdir dealer (`internal/engine/workdir`) | a cache of directories, one per worker | Get, Clean | each worker has a complete copy of its own |
| Unleash command and main (`cmd`) | contexts, the `cancelled` flag, the temporary directory, the exit code | run, cancel, report, clean up, exit | an uninterrupted run is judged in full, nothing is left behind, the process ends |
| Report and exit codes (`internal/report`, `internal/execution`) | counters, filters, the output file | newReport, fileReport, assess, Do, MutantLogger | percentages are defined, the gate is monotone, the outputs agree with the results |
| Coverage (`internal/coverage`) | blocks per file | parse, IsCovered | covered means inside an executed block |
| Diff (`internal/diff`) | ranges of changed lines per file | newDiff, IsChanged | exactly the changed lines count |
| Configuration (`internal/configuration`, `cmd/internal/flags`) | viper's registry | Init, Get | a gate fails only for a number somebody asked for, and for each that is missed |
| Exclusion rules (`internal/exclusion`) | regular expressions | New, IsFileExcluded | a file is left out when any rule matches |
| Go module (`internal/gomodule`) | name, root, calling directory | Init | the walk goes where gremlins was called |
| Log (`internal/log`) | two writers | print | see "Not modelled" |

How they interact: `main` turns a signal into a cancelled context and calls
`unleash`, whose `run` gathers diff, exclusions and coverage and calls
`Engine.Run`. A walker goroutine sends mutants on an unbuffered stream, a feeder
hands one executor per mutant to the worker pool, each executor asks the dealer
for its worker's directory, applies the mutation, tests, rolls back and sends
the mutant on `outCh`; a closer closes `outCh` when the WaitGroup is at zero, and
the collector, the caller of Run, builds the report. `Do` judges it.

Hard behaviour: closing `outCh` while executors still have to send; cancelling at
any moment; early returns that must still count down; a shared AST; locks made on
demand; the deadline racing the end of the tests, in three places; panics on
worker goroutines; signals during the shutdown; timeouts that overflow; four ways
to name a file (from the repository, the module, the calling directory, with the
module's name in front) and a process that changes its directory in between;
settings that are dropped in silence. The `hazards` of `PROJECT.json`
list these at their lines, with the properties that watch them.

## Modules

| Module | Models | Composes |
|---|---|---|
| `WorkerPool` | the pool, and its most general client | |
| `Engine` | walker, feeder, closer, collector and executors | `WorkerPool`, `MutantStatus` |
| `EngineInvariant` | the inductive invariant of `Engine` | `Engine` |
| `MutationRun` | the abstract specification of `Engine.Run` | |
| `MutantStatus` | the statuses and how they come about | |
| `Mappings`, `FindMutations` | the two tables; the walk over a file | `Mappings` |
| `TokenMutator` | Apply and Rollback by concurrent workers | `Mappings` |
| `TestRun` | runTests, run, the process group, the two timeouts | `MutantStatus` |
| `WorkdirDealer`, `Unleash` | the dealer; the whole process | `MutationRun`, `Report`, `WorkdirDealer` |
| `Configuration` | where a setting comes from, and Get | |
| `Report`, `ReportDo` | percentages, thresholds, exit codes; a run as its user sees it, from the sources of the settings to the exit code, the console and the output file | `Configuration`, `MutantStatus`; `Report` |
| `Paths` | the module root, pkgName, names in the profile | |
| `Coverage`, `Diff` | parse and IsCovered; newDiff and IsChanged | `Paths` |
| `Selection` | from the command line to the mutants: module, diff, rules, coverage, walk | `Coverage`, `Diff`, `MutantStatus` |
| `WorkerPoolProofs`, `EngineProofs`, `TokenMutatorProofs`, `TestRunProofs`, `UnleashProofs`, `FindMutationsProofs`, `ReportDoProofs`, `SelectionProofs` | the theorems, each about the module of that name | |
| `MC*` | the instances for TLC | |

How state and actions correspond to the code:

- **WorkerPool**: `queue` is the buffered channel (capacity 1), `worker[w]` the
  program counter of a worker goroutine. A send to the unbuffered `stopCh` and
  its receipt by Stop's waiter are one step, `Acknowledge`. `size` is the code's
  function: zero means one per CPU, integration mode halves it and keeps one.
- **Engine**: one action per blocking operation of each goroutine. `step[m]`
  says where a mutant is, from the walker to the report. `FeederReceive` is
  the rendezvous of walker and feeder on the unbuffered stream, `Send` that of an
  executor and the collector on `outCh`. A failing Get panics: the deferred `wg.Done()` runs
  first, other goroutines run on, then the process dies (`crashed`).
- **MutationRun**: accept, report or give up each accepted mutant once, return
  when nothing is open. `Engine` implements it with `accepted`, `reported`,
  `given_up` computed from `step` and `results`, and `stopped` from the closed
  queue. `Unleash` then uses the abstract run in the engine's place.
- **TokenMutator**: a file is the tokens of its nodes; `tok` is the shared AST and
  `disk[w]` worker w's tree. `fileLock` is its read-locked look-up, the look under
  the write lock and, separately, the look-up of the deferred Unlock. Reading,
  opening, writing and rolling back can each fail.
- **TestRun**: `go test` leads a process group and may leave a test binary in it;
  the deadline, os/exec's own kill, the waiting goroutine and the select run
  independently. The kernel may give a pid out again as soon as it is free.
  `testExecutionTime` and `testTimeout` are the deadline and the `-timeout` of
  `go test`, on integers that wrap at `Limit`; the alarm of the test binary
  comes after the deadline exactly when `-timeout` is the longer of the two.
- **Unleash**: main, runner, watcher and notifier goroutines and the workers.
  `cancelled` is read and written without synchronization, so main sees the old
  or the new value. A signal on the closed channel is a panic.
- **Configuration, ReportDo**: a value keeps the type its source gives it, and
  `GetAs(T, v)` is zero for any other type. Viper is external. Taken from how the
  code uses it: a flag that was given comes first, then the environment, then one
  file, then the default; the environment gives strings (as `configuration_test.go`
  expects), YAML's `60` is an int. That a float64 flag is handed out as a string
  is how viper v1.21.0 (`go.mod`) is known to work; nothing in the repository
  tests it. A file in one of the locations has values or is broken. `Collect` is the collector's loop
  with the logger, `ReportAndAssess` is `Do`.
- **Paths, Selection**: a path is a sequence of elements; the module's name is one
  element. `EndsWith` has the pairs of names of which one ends with the other, for
  `strings.HasSuffix` and `ReplaceAll`. A *world* is what gremlins meets: the files
  and modules on disk, the working directory, the argument, the flags. git and `go
  test` produce any diff (`Fragment`, `Line`) and any profile (`Block`) of that world;
  NewDiff, CoverageRun, ParseProfile and RunOnFile are the code. A token may stand at
  any position.
- **FindMutations, Mappings** and the operators of **Coverage, Diff, Report** are pure
  algorithms: a state machine produces the inputs and an invariant compares the
  result with a reference definition that is written without regard to the code.

Definitions marked "Faulty variant" are not part of any specification. Each is a
plausible mistake in the definition that follows it, and shows that a property
notices: see `mutants` in `PROJECT.json`.

## Runs

| Run | Instance | Shows |
|---|---|---|
| `pool` | 6 configured workers in integration mode (3), 4 executors | `PoolInv`; `StopDrains`; Stop returns (`StopReturns`) and all is picked up (`AllPickedUp`) |
| `engine` | 3 mutants, 2 workers, cancel at any time, Get and Apply may fail | `EngineInv` (with the types); `NobodyStuck`; `NoSendOnClosedChannel`; `NothingLost`; `ReportedOnceAndFinal`; `StatusMovesForward`; `RunReturns`; `ImplementsMutationRun` |
| `find` | all files of up to 2 nodes, 3 sets of enabled types | `SentExactly`: the tables agree; `MutantsAreMutations` |
| `mutator` | 2 workers, 2 files, 4 mutants, all I/O may fail | `MutatorInv`; `TestsOnlyOwnMutation`, `AstIntactWhenUnlocked`, `WorkdirPristineWhenIdle`: a failure stays in its file; `LocksExclude`; `EveryMutantIsDealtWith` |
| `testrun` | 2 workers, 2 pids, exit codes 0 to 3, 6 settings of the timeouts | `TestRunInv`; `NoOrphans`; `VerdictsAreSound`; `TimeoutsAreOurs`; `TestsEnd` |
| `unleash` | 2 workers, 2 mutants, 2 signals, all faults | `UnleashInv`; `OwnCompleteCopies`; `JudgedWhenSettled`; `UninterruptedIsJudgedInFull`; `ExitsClean`; `ProcessEnds` |
| `report` | up to 3 mutants of 2 files, 95 combinations of sources | `PercentagesAreDefined`; `KillingMoreNeverFails`; `OnlyCountedMutantsDecide`; `GateIsTheConfiguredOne`; `OutputsTellTheRun` |
| `selection` | 13 worlds, 3 lines by 2 columns, up to 4 lines of diff or 2 blocks | `StatusIsDeserved`; `OnlyCoveredAreTested`; `WalksWhereItWasCalled`; `ConventionalPackagesAreTested` |
| `mutator_writefault`, `unleash_secondsignal`, `diff_scattered`, `report_flag` | as above; the last with one flag and no other source | violated, see Findings |

Why the bounds are enough to be interesting. `pool`: with more executors than
workers plus queue places every channel is full at some time. `engine`: three
mutants on two workers let one be tested, one queued and one in the feeder's
hands when the context is cancelled or a worker panics; any number is covered by
the proofs. `find`: findMutations treats a node without regard to the others, so
two show that nothing carries over. `mutator`: the mutants cover same node, same
file and other file. `testrun`: a stray kill needs two test runs and one pid.
`unleash`: a third signal has nothing left to do, since the first cancels and the
second panics. `testrun`: with integers of 8 bits (`Limit = 128`) the settings have a base below a second, the
default, a negative coefficient, a `-timeout` that overflows and a deadline that does
not, both overflowing, and a deadline that is positive again. `report`: three
mutants give 0, 50, 100 percent and values between, two in one file and one in
another, around thresholds off, below, at and above them; the sources have each
kind alone and each pair that can be at odds. `selection`: three lines have an
inside, two edges and an outside, two columns a start that is after an end; four
lines of diff hold leading context, two separated runs of additions or a deletion
between them; two blocks, of one file or two, can overlap, touch or be unexecuted.
The worlds are the top of a repository, a subdirectory, nested modules, relative
paths inside, above and below the module, modules named like a directory, a go.mod with a
comment, rules and tests, and a command.
Dry runs are not in the `engine` instance (`DryRun = FALSE`); the theorems hold
for both values, and `report` covers the dry report.

Deadlock is checked in all runs; each specification has a `Terminated` step for
the states in which the program has ended. In `engine` that check says little, since
somebody may always cancel; `NobodyStuck` says that without it some goroutine of Run
can go on.

**Fairness.** Weak fairness per goroutine: the Go scheduler does not starve a
goroutine that can run. It is on the goroutine as a whole, not on its single
branches, so a failure or a choice of `select` is never forced. `TokenMutator` has
strong fairness on `Lock`: `sync.Mutex` hands over in FIFO order once a waiter has
waited for a millisecond. In `TestRun` the timers and os/exec are fair, the tests
are not: they may run for ever, and `TestsEnd` holds because of the deadline. That
is what `Engine` and `TokenMutator` assume when they let tests end. Signals and
cancellation need never come; no fairness is on them, nor on the pool's client.
Rendezvous steps are enabled only when both sides are ready.

## Proofs

Each theorem is about every value of the constants that the assumptions of its
module admit, where the runs are about one. The assumptions say what the program
can be started with or what its environment is:

- `PoolAssumption`: the configured workers are a natural number, there is a CPU,
  `None` is no executor. A negative number of workers, which the flag does not
  refuse, is excluded. `EngineAssumption`, `UnleashAssumption`: finitely many mutants.
- `TokenMutatorAssumption`, `TestRunAssumption`: the types of the constants, and
  integers that hold at least two seconds.
- `FindAssumption`: the configurations are sets of mutant types.
- `ReportAssumption`: the types viper gives a value of each source, with a threshold
  flag as a string; only a module has a file in its root.
- `SelectionAssumption`, `EndsWithAssumption`: paths are clean, no file is above the
  directory gremlins was called for, no file is named like the model's stand-ins
  `..` and `glued`; a name does not properly end with itself.

All invariance proofs have the same shape: the initial states, then one step per
action, under it one per part of the invariant that the action can disturb. The
inductive invariants are what is worth reading; those of pool, engine, token
mutator, test run and process are also checked by TLC, in their runs.

- **WorkerPoolProofs.** `StopDrains` alone is not inductive. `PoolInv` adds that a
  worker leaves only a queue that is closed and empty, that only Stop closes it, and
  that what is still in it has never run. All of it is about the pool under its most
  general client; `EngineUsesThePool` (below) shows the engine to be one. `SizeIsPositive`
  is about `size`.
- **EngineProofs.** The heart of `EngineInv` is `CountInv`: the WaitGroup equals the
  number of mutants between their `wg.Add(1)` and their `wg.Done()`, plus one for the
  feeder while it runs. `WalkerInv`, `FeederInv`, `QueueInv` and `WorkerInv` tie each
  goroutine's variable to the position of exactly one mutant, `PhaseInv` orders the
  goroutines' phases, `ReportInv` and `StatusInv` carry what is in the report. The
  closer that finds zero knows that nobody is left who could send. From it:
  `EngineTypeCorrect`, `NeverSendsOnClosedChannel`, `EngineLosesNothing`,
  `EngineReportsOnce`, the action property `EngineStatusMovesForward`, and
  `EngineImplementsMutationRun`: each step is a step of `MutationRun` or a stutter.
  `PoolUseInv` says how the phases of feeder and pool go together and that an executor
  is at one of its steps exactly while it is in a worker's hands. With it the
  specification of the pool is implemented too (`EngineUsesThePool`), so what
  `WorkerPoolProofs` shows holds in the engine, and `EngineNeverStuck` follows: if the
  feeder waits for a place in the queue or for the workers to end, a worker is at a
  step, and if the closer waits, somebody who counts in the WaitGroup is. The guards of
  the steps are written out in `FeederReady`, `CloserReady`, `CollectorReady` and
  `WorkerReady`, as ENABLED is out of the prover's reach.
- **TokenMutatorProofs.** `MutatorInv`: workers have mutants of their own
  (`OwnersInv`); the lock a worker waits for or has is the one in the map, although
  it is looked up three times (`LockInv`); hence the AST of a file that was always
  written differs from the source in the one node its one worker is at (`AstInv`),
  and a file that was always rolled back is the source, or the source with that
  worker's mutation (`DiskInv`). From it `ApplyExcludes`, `AstIntact`,
  `TestsSeeOwnMutation`, `WorkdirPristine`. `ApplyLeaksNoLock` is the reverse of
  exclusion: a lock that is locked has a worker that will unlock it, on every error path. `ExactlyOneMutation` is the comment of
  `tokenmutator.go:33` under the condition it needs: no write, open or rollback fails.
- **TestRunProofs.** `TestRunInv`: groups that live have pids of their own, and where
  run is tells what its processes are (`ProcessInv`, `RunInv`); nothing of ours ends
  the leader before the deadline (`DeadlineInv`). That an alarm comes after the
  deadline, wrap-around included, is `AlarmFollowsDeadline`: two seconds more
  either stay positive and are later, or go negative and set no alarm. From these
  `NothingOutlivesRunTests`, `SoundVerdicts`, `OwnTimeouts`.
- **UnleashProofs.** `UnleashInv` has a part for each goroutine: main waits for the
  runner (`CommandInv`), only a cancelled context cuts a run short (`InterruptInv`),
  the exit code is a report's or there is a reason for having none (`JudgeInv`), when
  the engine has returned nothing is open (`WorkInv`), and directories are complete
  and one worker's (`WorkersInv`, `CopiesInv`). From it `CopiesAreOwn`,
  `ReportsAreSettled`, `JudgedInFull`, `LeavesClean`; `UnleashIsAMutationRun` is the
  refinement of `MutationRun`.
- **FindMutationsProofs.** The tables are compared class by class, then `FindInv`: what
  has been sent is what the two loops have passed, each once. From it
  `EveryMutationOnce` and `MutantsMutate`, for files of any length.
- **ReportDoProofs.** `ReportInv` ties the exit code to the results. `BetterTestsPass`
  and `GatesLookAtTheirOwn` rest on lemmas about the counters (one mutant changes its
  status; one is left out) and on the arithmetic of fractions. `ConfiguredGateDecides`
  goes from the sources to the exit code: viper reads the first location with a file,
  the one with the least index (`ReadsConfigFile`); so a threshold that is not zero is
  one that was asked for, and is the number in the file when there is one file, no flag
  and no variable (`ThresholdIsAsked`); and assess compares it with the share that the
  documentation defines (`JudgedByCounters`). The property does not repeat that order:
  it knows sets of files and of numbers only.
  `OutputsAgree` is about newReport's loop, a recursive function, and so needs
  induction over the results. The library's induction theorems have a predicate as a
  parameter; `LeastNumber`, that a set of naturals has a least element, does not, and
  follows from the well-foundedness of `<`. On it rest that the loop is well defined
  (`RoundsExist`) and that after n rounds the list has the first n mutants, each at
  its place, and as many of each status (`ListsFirst`, kept by `RoundListsOneMore`).
- **SelectionProofs.** `SelectionInv`: module and directory (`ModuleInv`), the diff and
  the profile as functions of what git and `go test` said (`DiffInv`, `ProfileInv`),
  each mutant as RunOnFile made it (`WalkInv`). On top, a little theory of paths:
  Rel and Join undo each other, the root found is above the path given
  (`RootIsAbove`), os.DirFS still resolves to the directory asked for
  (`DirFSIsAsked`), so `WalksWhereAsked` and `ConventionalPackages`. A name in the
  profile is the name of one walked file only (`ProfileNamesOneFile`) and a position
  is covered when it is in text order between the ends of a block
  (`CoveredIsBetween`), so `OnlyCovered`. The range that newChanges computes is
  exactly the added lines of a fragment with one run of them (`ChangeIsExact`, by
  counting), so `DeservedStatuses`.

What the proofs changed. Proving found two properties that held in the instances
only. `OnlyCoveredAreTested` and `StatusIsDeserved` are false for the relative path of
a module that is not the current one, when the walk, which resolves the root a second
time, finds a file of the same name there; both now say `RootStands`, and the instance
has that world. `GateIsTheConfiguredOne` had a boolean in a file count as a number.

Named conditions. A property holds where its antecedent does, and each condition that
shuts out a case the code gets wrong, or that the documents leave open, has a name:
`RootStands` (the root is absolute or the working directory), `CalledAtTheTop`,
`ModuleNameIsUnique`, `NameIsFirst` (go.mod begins with the module's name),
`DiffIsNotEmpty` (`--diff` found changes), `OneRun` (additions without context between
them), `OneFile` (at most one configuration file, and a home directory). What happens
outside of them is under "Findings" and "Observed".

Only model-checked: liveness (`StopReturns`, `AllPickedUp`, `RunReturns`,
`EveryMutantIsDealtWith`, `TestsEnd`, `ProcessEnds`), which like ENABLED is out of the
prover's reach.

## Findings

1. `mutator_writefault`: when writing the mutated file fails, Apply returns before
   it puts the token back (`tokenmutator.go:127`). The AST is shared, so later
   mutants of the file are tested with two mutations. `TestsOnlyOwnMutation` shows
   that other files are not affected.
2. `unleash_secondsignal`: `ctxDoneOnSignal` closes the channel that
   `signal.Notify` still sends to (`main.go:63`); a second signal panics and the
   temporary directories stay. A failing Get does the same through its panic
   (`executor.go:173`).
3. `diff_scattered`: `newChanges` takes a fragment's additions for one block after
   the leading context (`diff.go:42`). `StatusIsDeserved` states when it is right.
4. `report_flag`: a threshold given by its flag sets no gate, and hides the one of a
   configuration file. The flags are float64 (`unleash.go:218`), viper hands such a
   flag out as a string, and `Get[float64]` and `Get[int]` (`configuration.go:187`)
   read a string as zero; `index.md:393` promises exit code 10. The tests of the
   report set the number in viper itself, with its type. This rests on viper v1.21.0,
   which is not in the repository; `GateIsTheConfiguredOne` states what holds without
   a flag.

Observed in the models, without a run of their own: `%=` is mutated to `%=`
(`mappings.go:94`; the documentation has `*=`), and a subtraction gets an
INVERT_NEGATIVES mutant, the same program as its ARITHMETIC_BASE mutant; a test
command that cannot be started, or exits with 3, is LIVED (`executor.go:226`); the
deferred kill comes after the leader was reaped and may hit a group that has the
pid by then (`executor.go:263`); meeting a threshold exactly fails it
(`report.go:238`; the case at `report_test.go:208` expects no error without asserting
it), so 100 cannot be met; mutant coverage is over KILLED, LIVED and NOT COVERED, as
`index.md:410` says, and not over "the total mutants" of the command's help
(`unleash.go:99`); `mutants_total` is KILLED, LIVED and NOT VIABLE (`report.go:179`),
where the example at `index.md:318` adds up to KILLED, LIVED and NOT COVERED; the file
locations are searched with `/etc` first (`configuration.go:123`), where
`configuration.md:20` has the current directory first, and a broken file there hides
the others; a threshold in the environment turns its gate off and hides the file's, and
a dry run cannot be asked for there (`configuration.go:187`; `configuration.md:6`);
below the top of the repository `--diff` compares names that do not match
(`diff.go:60`), and a `--diff` without any change counts as none, so that all mutants
are tested (`diff.go:56`; `index.md:87` has none); the mutants of a `main` in `cmd/x`
are tested with the package of a directory above that happens to match, or of the
module's root (`engine.go:165`, as `engine_test.go:681` expects), where `index.md:221`
has the package they are found in; with the relative path of a module elsewhere the
root is resolved twice (`coverage.go:99`): the walk finds nothing and the run succeeds,
or it finds files further down and gives them the coverage of others; a directory that is named
like the module loses its coverage (`coverage.go:203`); in integration mode `-cpu` is
always 1 (`executor.go:91`). The properties exclude these cases by the conditions named
above or leave them open, and the sources and worlds that show them are in the instances.

## Not modelled

The layout of log lines and reports, `generateDiff` and the snippets kept for it;
the syntax of regular expressions (a rule is what it matches), of go.mod, of diffs
and of cover profiles; what viper, git, `go test` and the file system do inside;
cobra's flag declarations but for types and defaults; build tags, `-cpu` and
`-coverpkg`, which are passed on; `Set` and `Reset` of the configuration, used by
tests; files that cannot be opened or parsed, whose errors `runOnFile` ignores
(`engine.go:124-127`: a failed Open panics on the walker's goroutine); Windows process handling, the other build of two functions of `TestRun`;
float64 rounding of percentages (exact fractions instead); file descriptors; the
single files of a directory copy (it succeeds or fails as a whole); a negative
number of workers, which `PoolAssumption` excludes and the flag does not. Paths with
`..`, symbolic links and a go.mod in the root of the file system are left out of
`Paths`.

## Plan

Modelled: the concurrent core (pool, engine and its abstract specification, token
mutator, test run, process), the way from the command line to the mutants and the
way from the results to the exit code. Proved: every safety and action property of
the passing runs, and the refinements: `Engine` and `Unleash` of `MutationRun`, and
`Engine` of `WorkerPool`. What is left: that `TokenMutator` and `TestRun` are what
`Engine` takes an executor's steps for, as refinements of a common abstract executor.
