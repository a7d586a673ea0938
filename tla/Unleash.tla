------------------------------- MODULE Unleash -------------------------------
(***************************************************************************)
(* The `gremlins unleash` process (cmd/unleash.go, cmd/gremlins/main.go):  *)
(*                                                                         *)
(*   main      makes the temporary directory, waits for the runner,        *)
(*             reports, removes the directory, exits                       *)
(*   runner    (runWithCancel, run) gathers diff, exclusions and coverage, *)
(*             runs the engine, cleans the dealer                          *)
(*   watcher   (runWithCancel) notes that the run was cancelled            *)
(*   notifier  (ctxDoneOnSignal) turns the first signal into a cancelled   *)
(*             context                                                     *)
(*   workers   get their directories from the WorkdirDealer                *)
(*                                                                         *)
(* The engine is what Engine.tla implements: the abstract MutationRun.     *)
(* Do and the exit codes are Report.tla's.                                 *)
(***************************************************************************)
EXTENDS WorkdirDealer, Report

CONSTANTS
    Mutants,     \* what the walk finds
    Outcomes,    \* the statuses the mutants may end up with
    DryRun, ET, CT, \* the configuration
    MaxSignals,  \* bound: how many signals arrive
    Faults       \* other calls that may fail: "init", "prepare", "apply"

ASSUME UnleashAssumption ==
    /\ MaxSignals \in Nat
    /\ Outcomes \subseteq Status
    /\ Faults \subseteq {"init", "prepare", "apply"}
    /\ None \notin Mutants /\ IsFiniteSet(Mutants)

VARIABLES
    main,      \* "init", "waiting", "checking", "reporting", "cleaning", "exiting"
    runner,    \* "none", "starting", "preparing", "engine", "clean", "done", "ended"
    watcher,   \* "none", "waiting", "told", "ended"
    notifier,  \* "waiting", "cancelling", "closing", "ended"
    signalled, \* a signal is in the buffer of the channel `done`
    doneClosed,\* close(done) has happened
    signals,   \* how many signals have arrived
    ctxDone,   \* ctx.Done() is closed
    cancelled, \* the flag shared by main and the watcher, without a lock
    err,       \* run returned an error
    workDir,   \* the temporary directory: "none", "made", "stuck" (could not be removed)
    judged,    \* history: Do has been called
    exitCode,
    process,   \* "running", "exited", "crashed" (a panic)
    mutant,    \* the mutant each worker is on
    results,   \* the statuses in the report
    accepted, reported, given_up, stopped, phase  \* the engine, see MutationRun

runVars     == <<accepted, reported, given_up, stopped, phase>>
workVars    == <<mutant, results>>
engineVars  == <<dealerVars, runVars, workVars>>
signalVars  == <<notifier, signalled, doneClosed, signals, ctxDone>>
mainVars    == <<main, workDir, judged, exitCode>>
runnerVars  == <<runner, err>>
watcherVars == <<watcher, cancelled>>
commandVars == <<mainVars, runnerVars, watcherVars>>
vars == <<engineVars, signalVars, commandVars, process>>

Run == INSTANCE MutationRun

TypeOK ==
    /\ DealerTypeOK /\ Run!TypeOK
    /\ main \in {"init", "waiting", "checking", "reporting", "cleaning", "exiting"}
    /\ runner \in {"none", "starting", "preparing", "engine", "clean", "done", "ended"}
    /\ watcher \in {"none", "waiting", "told", "ended"}
    /\ notifier \in {"waiting", "cancelling", "closing", "ended"}
    /\ signalled \in BOOLEAN /\ doneClosed \in BOOLEAN /\ ctxDone \in BOOLEAN
    /\ signals \in 0 .. MaxSignals
    /\ cancelled \in BOOLEAN /\ err \in BOOLEAN /\ judged \in BOOLEAN
    /\ workDir \in {"none", "made", "stuck"}
    /\ exitCode \in {ExitOK, ExitFailure, ExitEfficacyThreshold, ExitMutantCoverageThreshold}
    /\ process \in {"running", "exited", "crashed"}
    /\ mutant \in [Idfs -> Mutants \cup {None}]
    /\ results \in Seq(Outcomes)

Init ==
    /\ DealerInit /\ Run!Init
    /\ main = "init" /\ runner = "none" /\ watcher = "none"
    /\ notifier = "waiting" /\ signalled = FALSE /\ doneClosed = FALSE
    /\ signals = 0 /\ ctxDone = FALSE
    /\ cancelled = FALSE /\ err = FALSE /\ workDir = "none" /\ judged = FALSE
    /\ exitCode = ExitOK
    /\ process = "running"
    /\ mutant = [i \in Idfs |-> None]
    /\ results = <<>>

-----------------------------------------------------------------------------
(* Signals *)

(* signal.Notify sends without blocking: a full buffer drops the signal.   *)
(* The channel stays registered after its close, and a send on a closed    *)
(* channel panics.                                                         *)
Signal ==
    /\ signals < MaxSignals
    /\ signals' = signals + 1
    /\ IF doneClosed
       THEN process' = "crashed" /\ signalled' = signalled
       ELSE signalled' = TRUE /\ process' = process
    /\ UNCHANGED <<engineVars, commandVars, notifier, doneClosed, ctxDone>>

(* <-done                                                                  *)
NotifierReceive ==
    /\ notifier = "waiting" /\ signalled
    /\ notifier' = "cancelling" /\ signalled' = FALSE
    /\ UNCHANGED <<engineVars, commandVars, doneClosed, signals, ctxDone, process>>

(* cancel(): the contexts derived from ctx are cancelled with it.          *)
NotifierCancel ==
    /\ notifier = "cancelling"
    /\ notifier' = "closing" /\ ctxDone' = TRUE
    /\ UNCHANGED <<engineVars, commandVars, signalled, doneClosed, signals, process>>

(* close(done)                                                             *)
NotifierClose ==
    /\ notifier = "closing"
    /\ notifier' = "ended" /\ doneClosed' = TRUE
    /\ UNCHANGED <<engineVars, commandVars, signalled, signals, ctxDone, process>>

-----------------------------------------------------------------------------
(* runUnleash *)

(* No Go module here, or no temporary directory.                           *)
InitFails ==
    /\ "init" \in Faults
    /\ main = "init"
    /\ main' = "exiting" /\ exitCode' = ExitFailure
    /\ UNCHANGED <<engineVars, signalVars, runnerVars, watcherVars, workDir, judged, process>>

(* The temporary directory is made and the runner started.                 *)
MakeWorkDir ==
    /\ main = "init"
    /\ main' = "waiting" /\ workDir' = "made" /\ runner' = "starting"
    /\ UNCHANGED <<engineVars, signalVars, watcherVars, judged, exitCode, err, process>>

(* wg.Wait() returns.                                                      *)
Waited ==
    /\ main = "waiting" /\ runner = "ended"
    /\ main' = "checking"
    /\ UNCHANGED <<engineVars, signalVars, runnerVars, watcherVars, workDir, judged, exitCode, process>>

(* Faulty variant: an error is not looked at.                              *)
CheckIgnoringErr ==
    /\ main = "checking"
    /\ main' = IF cancelled THEN "cleaning" ELSE "reporting"
    /\ UNCHANGED <<engineVars, signalVars, runnerVars, watcherVars, workDir, judged, exitCode, process>>

(* err and cancelled decide whether there is a report.  The watcher writes *)
(* cancelled without synchronization: main reads the old or the new value. *)
Check ==
    /\ main = "checking"
    /\ main' = IF err \/ cancelled THEN "cleaning" ELSE "reporting"
    /\ exitCode' = IF err THEN ExitFailure ELSE exitCode
    /\ UNCHANGED <<engineVars, signalVars, runnerVars, watcherVars, workDir, judged, process>>

(* report.Do(results)                                                      *)
DoReport ==
    /\ main = "reporting"
    /\ main' = "cleaning" /\ judged' = TRUE
    /\ exitCode' = Do(results, DryRun, ET, CT)
    /\ UNCHANGED <<engineVars, signalVars, runnerVars, watcherVars, workDir, process>>

(* Faulty variant: only the dealer cleans up.                              *)
CleanUpNot ==
    /\ main = "cleaning"
    /\ main' = "exiting"
    /\ UNCHANGED <<engineVars, signalVars, runnerVars, watcherVars, workDir, judged, exitCode, process>>

(* The deferred cleanUp(workDir) removes the dealer's directories with it. *)
CleanUp ==
    /\ main = "cleaning"
    /\ main' = "exiting"
    /\ \/ workDir' = "none" /\ disk' = [d \in Dirs |-> "absent"]
       \/ "remove" \in DealerFaults /\ workDir' = "stuck" /\ disk' = disk
    /\ UNCHANGED <<runVars, workVars, signalVars, runnerVars, watcherVars, cache, getter, dstDir, judged, exitCode, process>>

(* main returns to its deferred os.Exit(exitCode).                         *)
Exit ==
    /\ main = "exiting"
    /\ process' = "exited"
    /\ UNCHANGED <<engineVars, commandVars, signalVars>>

-----------------------------------------------------------------------------
(* runWithCancel and run *)

StartWatcher ==
    /\ runner = "starting"
    /\ runner' = "preparing" /\ watcher' = "waiting"
    /\ UNCHANGED <<engineVars, signalVars, mainVars, err, cancelled, process>>

(* <-ctx.Done()                                                            *)
WatcherTold ==
    /\ watcher = "waiting" /\ ctxDone
    /\ watcher' = "told"
    /\ UNCHANGED <<engineVars, signalVars, mainVars, runnerVars, cancelled, process>>

(* onCancel()                                                              *)
WatcherCancels ==
    /\ watcher = "told"
    /\ watcher' = "ended" /\ cancelled' = TRUE
    /\ UNCHANGED <<engineVars, signalVars, mainVars, runnerVars, process>>

(* diff.New, exclusion.New or the coverage fails; none of them looks at    *)
(* the context.                                                            *)
PrepareFails ==
    /\ "prepare" \in Faults
    /\ runner = "preparing"
    /\ runner' = "done" /\ err' = TRUE
    /\ UNCHANGED <<engineVars, signalVars, mainVars, watcherVars, process>>

Prepare ==
    /\ runner = "preparing"
    /\ runner' = "engine"
    /\ UNCHANGED <<engineVars, signalVars, mainVars, watcherVars, err, process>>

(* Faulty variant: the engine does not wait for its workers.               *)
EngineReturnsEarly ==
    /\ runner = "engine"
    /\ stopped \/ accepted = Mutants
    /\ phase' = "returned"
    /\ runner' = "clean"
    /\ UNCHANGED <<dealerVars, workVars, signalVars, mainVars, watcherVars, accepted, reported, given_up, stopped, err, process>>

(* The engine returns: nothing it accepted is open, and either it was      *)
(* stopped or there was nothing more to accept.                            *)
EngineReturns ==
    /\ runner = "engine"
    /\ stopped \/ accepted = Mutants
    /\ Run!Return
    /\ runner' = "clean"
    /\ UNCHANGED <<dealerVars, workVars, signalVars, mainVars, watcherVars, err, process>>

(* The deferred wdDealer.Clean().                                          *)
DealerClean ==
    /\ runner = "clean"
    /\ runner' = "done"
    /\ Clean
    /\ UNCHANGED <<runVars, workVars, signalVars, mainVars, watcherVars, err, process>>

(* Faulty variant: wg.Done() is skipped when run fails.                    *)
RunnerEndsOnSuccess ==
    /\ runner = "done" /\ ~err
    /\ runner' = "ended"
    /\ UNCHANGED <<engineVars, signalVars, mainVars, watcherVars, err, process>>

(* wg.Done()                                                               *)
RunnerEnds ==
    /\ runner = "done"
    /\ runner' = "ended"
    /\ UNCHANGED <<engineVars, signalVars, mainVars, watcherVars, err, process>>

-----------------------------------------------------------------------------
(* The engine at work *)

(* The feeder takes a mutant, unless the context is done.                  *)
Accept(m) ==
    /\ runner = "engine"
    /\ ~ctxDone
    /\ Run!Accept(m)
    /\ UNCHANGED <<commandVars, dealerVars, workVars, signalVars, process>>

(* It finds the context done, with a mutant in its hands.                  *)
StopAccepting ==
    /\ runner = "engine"
    /\ ctxDone /\ accepted # Mutants
    /\ Run!StopAccepting
    /\ UNCHANGED <<commandVars, dealerVars, workVars, signalVars, process>>

(* mutantExecutor.Start on worker i asks the dealer for its directory.     *)
Begin(i, m) ==
    /\ mutant[i] = None
    /\ m \in Run!Open /\ \A j \in Idfs : mutant[j] # m
    /\ GetCached(i) \/ GetUncached(i)
    /\ mutant' = [mutant EXCEPT ![i] = m]
    /\ UNCHANGED <<commandVars, runVars, signalVars, results, process>>

(* The rest of Get.                                                        *)
Continue(i) ==
    /\ MkdirTemp(i) \/ MkdirFails(i) \/ Copy(i) \/ CopyFails(i) \/ SetCache(i)
    /\ UNCHANGED <<commandVars, runVars, workVars, signalVars, process>>

(* The mutant is tested, or not, and sent to the collector.                *)
ReportMutant(i, s) ==
    /\ getter[i] = "returned"
    /\ Run!Report(mutant[i])
    /\ Release(i)
    /\ results' = Append(results, s)
    /\ mutant' = [mutant EXCEPT ![i] = None]
    /\ UNCHANGED <<commandVars, signalVars, cache, process>>

(* Apply fails, and the mutant is forgotten.                               *)
ApplyFails(i) ==
    /\ "apply" \in Faults
    /\ getter[i] = "returned"
    /\ Run!GiveUp(mutant[i])
    /\ Release(i)
    /\ mutant' = [mutant EXCEPT ![i] = None]
    /\ UNCHANGED <<commandVars, signalVars, results, process>>

(* Get failed: the worker panics, its deferred wg.Done() first, and the    *)
(* process dies without running main's deferred calls.                     *)
PanicDone(i) ==
    /\ getter[i] = "failed"
    /\ Run!GiveUp(mutant[i])
    /\ UNCHANGED <<commandVars, dealerVars, workVars, signalVars, process>>

Panic(i) ==
    /\ getter[i] = "failed" /\ mutant[i] \in given_up
    /\ Run!Crash
    /\ process' = "crashed"
    /\ UNCHANGED <<commandVars, dealerVars, workVars, signalVars>>

-----------------------------------------------------------------------------
Notifier == NotifierReceive \/ NotifierCancel \/ NotifierClose
Main     == InitFails \/ MakeWorkDir \/ Waited \/ Check \/ DoReport \/ CleanUp \/ Exit
Watcher  == WatcherTold \/ WatcherCancels
Runner   == StartWatcher \/ Prepare \/ PrepareFails \/ EngineReturns \/ DealerClean \/ RunnerEnds
Feeder   == (\E m \in Mutants : Accept(m)) \/ StopAccepting
Worker(i) ==
    \/ \E m \in Mutants : Begin(i, m)
    \/ Continue(i)
    \/ \E s \in Outcomes : ReportMutant(i, s)
    \/ ApplyFails(i)
    \/ PanicDone(i)
    \/ Panic(i)

Goroutines ==
    \/ Notifier \/ Main \/ Watcher \/ Runner \/ Feeder
    \/ \E i \in Idfs : Worker(i)

Terminated == process # "running" /\ UNCHANGED vars

Next ==
    \/ process = "running" /\ (Signal \/ Goroutines)
    \/ Terminated

(***************************************************************************)
(* The scheduler is fair to every goroutine; signals need never come.      *)
(***************************************************************************)
Fairness ==
    /\ WF_vars(process = "running" /\ Notifier)
    /\ WF_vars(process = "running" /\ Main)
    /\ WF_vars(process = "running" /\ Watcher)
    /\ WF_vars(process = "running" /\ Runner)
    /\ WF_vars(process = "running" /\ Feeder)
    /\ \A i \in Idfs : WF_vars(process = "running" /\ Worker(i))

Spec == Init /\ [][Next]_vars /\ Fairness

-----------------------------------------------------------------------------
(* Properties *)

(* A worker that was given a directory has a complete copy of the sources  *)
(* that no other worker has: the dealer's cache is filled after the copy,  *)
(* and Clean, which takes no lock, never runs while a worker is at work.   *)
OwnCompleteCopies ==
    \A i \in Idfs : getter[i] = "returned" =>
        /\ disk[dstDir[i]] = "full"
        /\ \A j \in Idfs \ {i} : dstDir[j] # dstDir[i]

(* A run that nobody interrupts is judged, and on everything: unless it    *)
(* ended with an error, every mutant was accepted and is in the report or  *)
(* was given up, and the exit code is the gate's.  An error is exit code 1.*)
UninterruptedIsJudgedInFull ==
    process = "exited" /\ ~ctxDone =>
        IF exitCode = ExitFailure THEN ~judged
        ELSE /\ judged /\ accepted = Mutants
             /\ Len(results) = Cardinality(Mutants \ given_up)
             /\ exitCode = Do(results, DryRun, ET, CT)

(* Whatever a report is made of is settled: when main looks at the results,*)
(* cancelled or not, no worker is at a mutant that could still be added.   *)
JudgedWhenSettled ==
    main \in {"reporting", "cleaning"} => \A i \in Idfs : mutant[i] \notin Run!Open

(* A process that gets as far as os.Exit, interrupted or not, with errors  *)
(* or not, has removed all its temporary directories, unless the operating *)
(* system refused.                                                         *)
ExitsClean ==
    process = "exited" =>
        /\ workDir # "made"
        /\ workDir = "none" => \A d \in Dirs : disk[d] = "absent"

(* "Clean that must be called to remove all the created folders"           *)
(* (workdir.go:37), and cleanUp is deferred: when the process is gone its  *)
(* temporary directory is gone.  True unless the process panics: on a      *)
(* second signal (the channel that signal.Notify sends to is closed), or   *)
(* when Get fails.                                                         *)
NothingLeftBehind ==
    process # "running" => workDir = "none" /\ \A d \in Dirs : disk[d] = "absent"

(* Main waits for the runner, and the directory is there until it cleans.  *)
CommandInv ==
    /\ main = "init" => runner = "none" /\ workDir = "none"
    /\ main \in {"checking", "reporting", "cleaning"} => runner = "ended"
    /\ main = "exiting" => runner \in {"none", "ended"} /\ workDir # "made"
    /\ main = "exiting" /\ workDir = "none" => \A d \in Dirs : disk[d] = "absent"
    /\ process = "exited" => main = "exiting"

(* Only a cancelled context cuts a run short.                              *)
InterruptInv == cancelled \/ stopped \/ watcher \in {"told", "ended"} => ctxDone

(* The exit code is that of a report without error, or there is a reason   *)
(* for having none.                                                        *)
JudgeInv ==
    /\ main \notin {"cleaning", "exiting"} => ~judged /\ exitCode = ExitOK
    /\ main = "reporting" => ~err
    /\ main \in {"cleaning", "exiting"} =>
          \/ judged /\ ~err /\ runner = "ended" /\ exitCode = Do(results, DryRun, ET, CT)
          \/ ~judged /\ (exitCode = ExitFailure \/ ctxDone)

(* The engine works between Prepare and its return; when it has returned   *)
(* nothing is open, and the report has what was not given up.              *)
WorkInv ==
    /\ err => runner \in {"done", "ended"}
    /\ err \/ runner \in {"none", "starting", "preparing"} => accepted = {}
    /\ runner \in {"clean", "done", "ended"} =>
          Run!Open = {} /\ (err \/ stopped \/ accepted = Mutants)
    /\ reported \cap given_up = {}
    /\ Len(results) = Cardinality(reported)

(* A worker that is not out, and has not failed, has an open mutant of its *)
(* own.                                                                    *)
WorkersInv ==
    /\ \A i \in Idfs :
          /\ mutant[i] = None <=> getter[i] = "out"
          /\ getter[i] \notin {"out", "failed"} => mutant[i] \in Run!Open
    /\ \A i, j \in Idfs : mutant[i] = mutant[j] /\ mutant[i] # None => i = j

(* A directory that is cached or being made is there, and one worker's;    *)
(* outside the engine's run the cache is empty.                            *)
CopiesInv ==
    /\ \A i \in Idfs :
          /\ dstDir[i] # None <=> getter[i] \in {"copying", "caching", "returned"}
          /\ getter[i] = "copying" => disk[dstDir[i]] = "partial"
          /\ getter[i] \in {"caching", "returned"} => disk[dstDir[i]] = "full"
          /\ getter[i] \in {"making", "copying", "caching"} => cache[i] = None
          /\ getter[i] = "returned" => cache[i] = dstDir[i]
          /\ cache[i] # None => disk[cache[i]] = "full"
    /\ \A i, j \in Idfs : i # j =>
          /\ dstDir[i] # None => dstDir[i] \notin {dstDir[j], cache[j]}
          /\ cache[i] # None => cache[i] # cache[j]
    /\ runner \notin {"engine", "clean"} => \A i \in Idfs : cache[i] = None
    /\ runner = "none" => \A d \in Dirs : disk[d] = "absent"

(* The inductive invariant: why the properties above hold of any number of *)
(* workers, mutants and signals.                                           *)
UnleashInv ==
    /\ TypeOK /\ CommandInv /\ InterruptInv /\ JudgeInv
    /\ WorkInv /\ WorkersInv /\ CopiesInv

(* The process ends, with or without signals and errors.                   *)
ProcessEnds == <>(process # "running")
=============================================================================
