---------------------------- MODULE UnleashProofs ----------------------------
(***************************************************************************)
(* Proofs about Unleash.tla, for every number of workers, mutants, names   *)
(* of directories and signals, and every set of calls that may fail.       *)
(***************************************************************************)
EXTENDS Unleash, FiniteSetTheorems, SequenceTheorems, TLAPS

(* Do's verdicts are not main's failure.                                   *)
LEMMA DoCodes ==
    ASSUME NEW r
    PROVE  /\ Do(r, DryRun, ET, CT) \in {ExitOK, ExitEfficacyThreshold, ExitMutantCoverageThreshold}
           /\ Do(r, DryRun, ET, CT) # ExitFailure
BY DEF Do, assess, ExitOK, ExitFailure, ExitEfficacyThreshold, ExitMutantCoverageThreshold

(* Workers are at work only while the engine runs.                         *)
LEMMA ActiveInEngine ==
    ASSUME TypeOK, WorkInv, WorkersInv, NEW i \in Idfs, getter[i] \notin {"out", "failed"}
    PROVE  runner = "engine"
<1>1. mutant[i] \in Run!Open
  BY DEF WorkersInv
<1>2. accepted # {} /\ Run!Open # {}
  BY <1>1 DEF Run!Open
<1>3. QED
  BY <1>2 DEF WorkInv, TypeOK

(* Every step keeps the types.                                             *)
LEMMA TypeStep == UnleashInv /\ [Next]_vars => TypeOK'
<1> SUFFICES ASSUME UnleashInv, [Next]_vars PROVE TypeOK'
  OBVIOUS
<1>a. TypeOK /\ WorkInv /\ WorkersInv /\ CopiesInv
  BY DEF UnleashInv
<1> USE DEF engineVars, dealerVars, runVars, workVars, signalVars, commandVars, mainVars,
           runnerVars, watcherVars
<1> USE UnleashAssumption, <1>a DEF TypeOK, DealerTypeOK, Run!TypeOK
<1>1. CASE Signal
  <2>1. signals' \in 0 .. MaxSignals
    BY <1>1 DEF Signal
  <2>2. signalled' \in BOOLEAN /\ process' \in {"running", "exited", "crashed"}
    BY <1>1 DEF Signal
  <2>3. UNCHANGED <<engineVars, commandVars, notifier, doneClosed, ctxDone>>
    BY <1>1 DEF Signal
  <2>4. QED
    BY <2>1, <2>2, <2>3
<1>2. CASE Notifier
  <2>1. /\ notifier' \in {"waiting", "cancelling", "closing", "ended"}
        /\ signalled' \in BOOLEAN /\ doneClosed' \in BOOLEAN /\ ctxDone' \in BOOLEAN
    BY <1>2 DEF Notifier, NotifierReceive, NotifierCancel, NotifierClose
  <2>2. UNCHANGED <<engineVars, commandVars, signals, process>>
    BY <1>2 DEF Notifier, NotifierReceive, NotifierCancel, NotifierClose
  <2>3. QED
    BY <2>1, <2>2
<1>3. CASE Watcher
  <2>1. watcher' \in {"none", "waiting", "told", "ended"} /\ cancelled' \in BOOLEAN
    BY <1>3 DEF Watcher, WatcherTold, WatcherCancels
  <2>2. UNCHANGED <<engineVars, signalVars, mainVars, runnerVars, process>>
    BY <1>3 DEF Watcher, WatcherTold, WatcherCancels
  <2>3. QED
    BY <2>1, <2>2
<1>4. CASE InitFails
  BY <1>4 DEF InitFails
<1>5. CASE MakeWorkDir
  BY <1>5 DEF MakeWorkDir
<1>6. CASE Waited
  BY <1>6 DEF Waited
<1>7. CASE Check
  BY <1>7 DEF Check
<1>8. CASE DoReport
  BY <1>8, DoCodes DEF DoReport
<1>9. CASE CleanUp
  BY <1>9 DEF CleanUp
<1>10. CASE Exit
  BY <1>10 DEF Exit
<1>11. CASE StartWatcher
  BY <1>11 DEF StartWatcher
<1>12. CASE Prepare
  BY <1>12 DEF Prepare
<1>13. CASE PrepareFails
  BY <1>13 DEF PrepareFails
<1>14. CASE EngineReturns
  BY <1>14 DEF EngineReturns, Run!Return
<1>15. CASE DealerClean
  BY <1>15 DEF DealerClean, Clean
<1>16. CASE RunnerEnds
  BY <1>16 DEF RunnerEnds
<1>17. ASSUME NEW m \in Mutants, Accept(m) PROVE TypeOK'
  BY <1>17 DEF Accept, Run!Accept
<1>18. CASE StopAccepting
  BY <1>18 DEF StopAccepting, Run!StopAccepting
<1>19. ASSUME NEW i \in Idfs, NEW m \in Mutants, Begin(i, m) PROVE TypeOK'
  BY <1>19 DEF Begin, GetCached, GetUncached, GetterMoves
<1>20. ASSUME NEW i \in Idfs, Continue(i) PROVE TypeOK'
  BY <1>20 DEF Continue, MkdirTemp, MkdirFails, Copy, CopyFails, SetCache, GetterMoves
<1>21. ASSUME NEW i \in Idfs, NEW s \in Outcomes, ReportMutant(i, s) PROVE TypeOK'
  <2>1. results' \in Seq(Outcomes)
    BY <1>21 DEF ReportMutant
  <2>2. reported' \subseteq accepted
    BY <1>21 DEF ReportMutant, Run!Report, Run!Open
  <2>3. QED
    BY <1>21, <2>1, <2>2 DEF ReportMutant, Run!Report, Release, GetterMoves
<1>22. ASSUME NEW i \in Idfs, ApplyFails(i) PROVE TypeOK'
  <2>1. given_up' \subseteq accepted
    BY <1>22 DEF ApplyFails, Run!GiveUp, Run!Open
  <2>2. QED
    BY <1>22, <2>1 DEF ApplyFails, Run!GiveUp, Release, GetterMoves
<1>23. ASSUME NEW i \in Idfs, PanicDone(i) PROVE TypeOK'
  <2>1. given_up' \subseteq accepted
    BY <1>23 DEF PanicDone, Run!GiveUp, Run!Open
  <2>2. QED
    BY <1>23, <2>1 DEF PanicDone, Run!GiveUp
<1>24. ASSUME NEW i \in Idfs, Panic(i) PROVE TypeOK'
  BY <1>24 DEF Panic, Run!Crash
<1>25. CASE UNCHANGED vars
  BY <1>25 DEF vars
<1>26. QED
  BY <1>1, <1>2, <1>3, <1>4, <1>5, <1>6, <1>7, <1>8, <1>9,
     <1>10, <1>11, <1>12, <1>13, <1>14, <1>15, <1>16, <1>17, <1>18,
     <1>19, <1>20, <1>21, <1>22, <1>23, <1>24, <1>25
  DEF Next, Goroutines, Main, Runner, Feeder, Worker, Terminated

(* Every step keeps the order of the command.                              *)
LEMMA CommandStep == UnleashInv /\ [Next]_vars => CommandInv'
<1> SUFFICES ASSUME UnleashInv, [Next]_vars PROVE CommandInv'
  OBVIOUS
<1>a. TypeOK /\ CommandInv /\ WorkInv /\ WorkersInv /\ CopiesInv
  BY DEF UnleashInv
<1> USE DEF engineVars, dealerVars, runVars, workVars, signalVars, commandVars, mainVars,
           runnerVars, watcherVars
<1> USE <1>a DEF CommandInv
<1>1. CASE Signal
  BY <1>1 DEF Signal
<1>2. CASE Notifier
  BY <1>2 DEF Notifier, NotifierReceive, NotifierCancel, NotifierClose
<1>3. CASE Watcher
  BY <1>3 DEF Watcher, WatcherTold, WatcherCancels
<1>4. CASE InitFails
  <2>1. \A d \in Dirs : disk[d] = "absent"
    BY <1>4 DEF InitFails, CopiesInv
  <2>2. QED
    BY <1>4, <2>1 DEF InitFails
<1>5. CASE MakeWorkDir
  BY <1>5 DEF MakeWorkDir
<1>6. CASE Waited
  BY <1>6 DEF Waited
<1>7. CASE Check
  BY <1>7 DEF Check
<1>8. CASE DoReport
  BY <1>8 DEF DoReport
<1>9. CASE CleanUp
  BY <1>9 DEF CleanUp
<1>10. CASE Exit
  BY <1>10 DEF Exit
<1>11. CASE StartWatcher
  BY <1>11 DEF StartWatcher
<1>12. CASE Prepare
  BY <1>12 DEF Prepare
<1>13. CASE PrepareFails
  BY <1>13 DEF PrepareFails
<1>14. CASE EngineReturns
  BY <1>14 DEF EngineReturns, Run!Return
<1>15. CASE DealerClean
  BY <1>15 DEF DealerClean, Clean
<1>16. CASE RunnerEnds
  BY <1>16 DEF RunnerEnds
<1>17. ASSUME NEW m \in Mutants, Accept(m) PROVE CommandInv'
  BY <1>17 DEF Accept, Run!Accept
<1>18. CASE StopAccepting
  BY <1>18 DEF StopAccepting, Run!StopAccepting
<1>19. ASSUME NEW i \in Idfs, NEW m \in Mutants, Begin(i, m) PROVE CommandInv'
  BY <1>19 DEF Begin, GetCached, GetUncached, GetterMoves
<1>20. ASSUME NEW i \in Idfs, Continue(i) PROVE CommandInv'
  <2>1. getter[i] \notin {"out", "failed"}
    BY <1>20 DEF Continue, MkdirTemp, MkdirFails, Copy, CopyFails, SetCache, GetterMoves
  <2>2. runner = "engine"
    BY <2>1, ActiveInEngine
  <2>3. UNCHANGED <<commandVars, process>>
    BY <1>20 DEF Continue
  <2>4. QED
    BY <2>2, <2>3
<1>21. ASSUME NEW i \in Idfs, NEW s \in Outcomes, ReportMutant(i, s) PROVE CommandInv'
  BY <1>21 DEF ReportMutant, Run!Report, Release, GetterMoves
<1>22. ASSUME NEW i \in Idfs, ApplyFails(i) PROVE CommandInv'
  BY <1>22 DEF ApplyFails, Run!GiveUp, Release, GetterMoves
<1>23. ASSUME NEW i \in Idfs, PanicDone(i) PROVE CommandInv'
  BY <1>23 DEF PanicDone, Run!GiveUp
<1>24. ASSUME NEW i \in Idfs, Panic(i) PROVE CommandInv'
  BY <1>24 DEF Panic, Run!Crash
<1>25. CASE UNCHANGED vars
  BY <1>25 DEF vars
<1>26. QED
  BY <1>1, <1>2, <1>3, <1>4, <1>5, <1>6, <1>7, <1>8, <1>9,
     <1>10, <1>11, <1>12, <1>13, <1>14, <1>15, <1>16, <1>17, <1>18,
     <1>19, <1>20, <1>21, <1>22, <1>23, <1>24, <1>25
  DEF Next, Goroutines, Main, Runner, Feeder, Worker, Terminated

(* Every step keeps the reasons for stopping.                              *)
LEMMA InterruptStep == UnleashInv /\ [Next]_vars => InterruptInv'
<1> SUFFICES ASSUME UnleashInv, [Next]_vars PROVE InterruptInv'
  OBVIOUS
<1>a. InterruptInv
  BY DEF UnleashInv
<1> USE DEF engineVars, dealerVars, runVars, workVars, signalVars, commandVars, mainVars,
           runnerVars, watcherVars
<1> USE <1>a DEF InterruptInv
<1>1. CASE Signal
  BY <1>1 DEF Signal
<1>2. CASE Notifier
  BY <1>2 DEF Notifier, NotifierReceive, NotifierCancel, NotifierClose
<1>3. CASE Watcher
  BY <1>3 DEF Watcher, WatcherTold, WatcherCancels
<1>4. CASE InitFails
  BY <1>4 DEF InitFails
<1>5. CASE MakeWorkDir
  BY <1>5 DEF MakeWorkDir
<1>6. CASE Waited
  BY <1>6 DEF Waited
<1>7. CASE Check
  BY <1>7 DEF Check
<1>8. CASE DoReport
  BY <1>8 DEF DoReport
<1>9. CASE CleanUp
  BY <1>9 DEF CleanUp
<1>10. CASE Exit
  BY <1>10 DEF Exit
<1>11. CASE StartWatcher
  BY <1>11 DEF StartWatcher
<1>12. CASE Prepare
  BY <1>12 DEF Prepare
<1>13. CASE PrepareFails
  BY <1>13 DEF PrepareFails
<1>14. CASE EngineReturns
  BY <1>14 DEF EngineReturns, Run!Return
<1>15. CASE DealerClean
  BY <1>15 DEF DealerClean, Clean
<1>16. CASE RunnerEnds
  BY <1>16 DEF RunnerEnds
<1>17. ASSUME NEW m \in Mutants, Accept(m) PROVE InterruptInv'
  BY <1>17 DEF Accept, Run!Accept
<1>18. CASE StopAccepting
  BY <1>18 DEF StopAccepting, Run!StopAccepting
<1>19. ASSUME NEW i \in Idfs, NEW m \in Mutants, Begin(i, m) PROVE InterruptInv'
  BY <1>19 DEF Begin, GetCached, GetUncached, GetterMoves
<1>20. ASSUME NEW i \in Idfs, Continue(i) PROVE InterruptInv'
  BY <1>20 DEF Continue, MkdirTemp, MkdirFails, Copy, CopyFails, SetCache, GetterMoves
<1>21. ASSUME NEW i \in Idfs, NEW s \in Outcomes, ReportMutant(i, s) PROVE InterruptInv'
  BY <1>21 DEF ReportMutant, Run!Report, Release, GetterMoves
<1>22. ASSUME NEW i \in Idfs, ApplyFails(i) PROVE InterruptInv'
  BY <1>22 DEF ApplyFails, Run!GiveUp, Release, GetterMoves
<1>23. ASSUME NEW i \in Idfs, PanicDone(i) PROVE InterruptInv'
  BY <1>23 DEF PanicDone, Run!GiveUp
<1>24. ASSUME NEW i \in Idfs, Panic(i) PROVE InterruptInv'
  BY <1>24 DEF Panic, Run!Crash
<1>25. CASE UNCHANGED vars
  BY <1>25 DEF vars
<1>26. QED
  BY <1>1, <1>2, <1>3, <1>4, <1>5, <1>6, <1>7, <1>8, <1>9,
     <1>10, <1>11, <1>12, <1>13, <1>14, <1>15, <1>16, <1>17, <1>18,
     <1>19, <1>20, <1>21, <1>22, <1>23, <1>24, <1>25
  DEF Next, Goroutines, Main, Runner, Feeder, Worker, Terminated

(* Every step keeps the verdict.                                           *)
LEMMA JudgeStep == UnleashInv /\ [Next]_vars => JudgeInv'
<1> SUFFICES ASSUME UnleashInv, [Next]_vars PROVE JudgeInv'
  OBVIOUS
<1>a. TypeOK /\ CommandInv /\ InterruptInv /\ JudgeInv /\ WorkInv /\ WorkersInv
  BY DEF UnleashInv
<1> USE DEF engineVars, dealerVars, runVars, workVars, signalVars, commandVars, mainVars,
           runnerVars, watcherVars
<1> USE <1>a DEF JudgeInv
<1>1. CASE Signal
  BY <1>1 DEF Signal
<1>2. CASE Notifier
  BY <1>2 DEF Notifier, NotifierReceive, NotifierCancel, NotifierClose
<1>3. CASE Watcher
  BY <1>3 DEF Watcher, WatcherTold, WatcherCancels
<1>4. CASE InitFails
  BY <1>4 DEF InitFails
<1>5. CASE MakeWorkDir
  BY <1>5 DEF MakeWorkDir
<1>6. CASE Waited
  BY <1>6 DEF Waited
<1>7. CASE Check
  <2>1. /\ main = "checking" /\ main' = IF err \/ cancelled THEN "cleaning" ELSE "reporting"
        /\ exitCode' = IF err THEN ExitFailure ELSE exitCode
        /\ UNCHANGED <<err, judged, ctxDone>>
    BY <1>7 DEF Check
  <2>2. cancelled => ctxDone
    BY DEF InterruptInv
  <2>3. QED
    BY <2>1, <2>2
<1>8. CASE DoReport
  <2>1. runner = "ended"
    BY <1>8 DEF DoReport, CommandInv
  <2>2. QED
    BY <1>8, <2>1 DEF DoReport
<1>9. CASE CleanUp
  BY <1>9 DEF CleanUp
<1>10. CASE Exit
  BY <1>10 DEF Exit
<1>11. CASE StartWatcher
  BY <1>11 DEF StartWatcher
<1>12. CASE Prepare
  BY <1>12 DEF Prepare
<1>13. CASE PrepareFails
  BY <1>13 DEF PrepareFails, CommandInv
<1>14. CASE EngineReturns
  BY <1>14 DEF EngineReturns, Run!Return
<1>15. CASE DealerClean
  BY <1>15 DEF DealerClean, Clean
<1>16. CASE RunnerEnds
  BY <1>16 DEF RunnerEnds
<1>17. ASSUME NEW m \in Mutants, Accept(m) PROVE JudgeInv'
  BY <1>17 DEF Accept, Run!Accept
<1>18. CASE StopAccepting
  BY <1>18 DEF StopAccepting, Run!StopAccepting
<1>19. ASSUME NEW i \in Idfs, NEW m \in Mutants, Begin(i, m) PROVE JudgeInv'
  BY <1>19 DEF Begin, GetCached, GetUncached, GetterMoves
<1>20. ASSUME NEW i \in Idfs, Continue(i) PROVE JudgeInv'
  BY <1>20 DEF Continue, MkdirTemp, MkdirFails, Copy, CopyFails, SetCache, GetterMoves
<1>21. ASSUME NEW i \in Idfs, NEW s \in Outcomes, ReportMutant(i, s) PROVE JudgeInv'
  <2>1. runner = "engine"
    BY <1>21, ActiveInEngine DEF ReportMutant
  <2>2. QED
    BY <1>21, <2>1 DEF ReportMutant, CommandInv
<1>22. ASSUME NEW i \in Idfs, ApplyFails(i) PROVE JudgeInv'
  BY <1>22 DEF ApplyFails, Run!GiveUp, Release, GetterMoves
<1>23. ASSUME NEW i \in Idfs, PanicDone(i) PROVE JudgeInv'
  BY <1>23 DEF PanicDone, Run!GiveUp
<1>24. ASSUME NEW i \in Idfs, Panic(i) PROVE JudgeInv'
  BY <1>24 DEF Panic, Run!Crash
<1>25. CASE UNCHANGED vars
  BY <1>25 DEF vars
<1>26. QED
  BY <1>1, <1>2, <1>3, <1>4, <1>5, <1>6, <1>7, <1>8, <1>9,
     <1>10, <1>11, <1>12, <1>13, <1>14, <1>15, <1>16, <1>17, <1>18,
     <1>19, <1>20, <1>21, <1>22, <1>23, <1>24, <1>25
  DEF Next, Goroutines, Main, Runner, Feeder, Worker, Terminated

(* Every step keeps the account of the mutants.                            *)
LEMMA WorkStep == UnleashInv /\ [Next]_vars => WorkInv'
<1> SUFFICES ASSUME UnleashInv, [Next]_vars PROVE WorkInv'
  OBVIOUS
<1>a. TypeOK /\ CommandInv /\ WorkInv /\ WorkersInv
  BY DEF UnleashInv
<1> USE DEF engineVars, dealerVars, runVars, workVars, signalVars, commandVars, mainVars,
           runnerVars, watcherVars
<1> USE <1>a DEF WorkInv, Run!Open
<1>1. CASE Signal
  BY <1>1 DEF Signal
<1>2. CASE Notifier
  BY <1>2 DEF Notifier, NotifierReceive, NotifierCancel, NotifierClose
<1>3. CASE Watcher
  BY <1>3 DEF Watcher, WatcherTold, WatcherCancels
<1>4. CASE InitFails
  BY <1>4 DEF InitFails
<1>5. CASE MakeWorkDir
  BY <1>5 DEF MakeWorkDir, CommandInv
<1>6. CASE Waited
  BY <1>6 DEF Waited
<1>7. CASE Check
  BY <1>7 DEF Check
<1>8. CASE DoReport
  BY <1>8 DEF DoReport
<1>9. CASE CleanUp
  BY <1>9 DEF CleanUp
<1>10. CASE Exit
  BY <1>10 DEF Exit
<1>11. CASE StartWatcher
  BY <1>11 DEF StartWatcher
<1>12. CASE Prepare
  BY <1>12 DEF Prepare
<1>13. CASE PrepareFails
  BY <1>13 DEF PrepareFails
<1>14. CASE EngineReturns
  BY <1>14 DEF EngineReturns, Run!Return
<1>15. CASE DealerClean
  BY <1>15 DEF DealerClean, Clean
<1>16. CASE RunnerEnds
  BY <1>16 DEF RunnerEnds
<1>17. ASSUME NEW m \in Mutants, Accept(m) PROVE WorkInv'
  BY <1>17 DEF Accept, Run!Accept
<1>18. CASE StopAccepting
  BY <1>18 DEF StopAccepting, Run!StopAccepting
<1>19. ASSUME NEW i \in Idfs, NEW m \in Mutants, Begin(i, m) PROVE WorkInv'
  BY <1>19 DEF Begin, GetCached, GetUncached, GetterMoves
<1>20. ASSUME NEW i \in Idfs, Continue(i) PROVE WorkInv'
  BY <1>20 DEF Continue, MkdirTemp, MkdirFails, Copy, CopyFails, SetCache, GetterMoves
<1>21. ASSUME NEW i \in Idfs, NEW s \in Outcomes, ReportMutant(i, s) PROVE WorkInv'
  <2> DEFINE m == mutant[i]
  <2>1. /\ m \notin reported /\ m \notin given_up /\ reported' = reported \cup {m}
        /\ UNCHANGED <<runner, err, accepted, given_up, stopped>>
    BY <1>21 DEF ReportMutant, Run!Report
  <2>2. runner = "engine"
    BY <1>21, ActiveInEngine DEF ReportMutant
  <2>3. IsFiniteSet(reported)
    BY UnleashAssumption, FS_Subset DEF TypeOK, Run!TypeOK
  <2>4. Cardinality(reported') = Cardinality(reported) + 1
    BY <2>1, <2>3, FS_AddElement
  <2>5. results \in Seq(Outcomes) /\ results' = Append(results, s)
    BY <1>21 DEF ReportMutant, TypeOK
  <2>6. Len(results') = Len(results) + 1
    BY <2>5
  <2>7. QED
    BY <2>1, <2>2, <2>4, <2>6
<1>22. ASSUME NEW i \in Idfs, ApplyFails(i) PROVE WorkInv'
  BY <1>22 DEF ApplyFails, Run!GiveUp, Release, GetterMoves
<1>23. ASSUME NEW i \in Idfs, PanicDone(i) PROVE WorkInv'
  BY <1>23 DEF PanicDone, Run!GiveUp
<1>24. ASSUME NEW i \in Idfs, Panic(i) PROVE WorkInv'
  BY <1>24 DEF Panic, Run!Crash
<1>25. CASE UNCHANGED vars
  BY <1>25 DEF vars
<1>26. QED
  BY <1>1, <1>2, <1>3, <1>4, <1>5, <1>6, <1>7, <1>8, <1>9,
     <1>10, <1>11, <1>12, <1>13, <1>14, <1>15, <1>16, <1>17, <1>18,
     <1>19, <1>20, <1>21, <1>22, <1>23, <1>24, <1>25
  DEF Next, Goroutines, Main, Runner, Feeder, Worker, Terminated

(* Every step keeps the workers apart.                                     *)
LEMMA WorkersStep == UnleashInv /\ [Next]_vars => WorkersInv'
<1> SUFFICES ASSUME UnleashInv, [Next]_vars PROVE WorkersInv'
  OBVIOUS
<1>a. TypeOK /\ WorkersInv
  BY DEF UnleashInv
<1> USE DEF engineVars, dealerVars, runVars, workVars, signalVars, commandVars, mainVars,
           runnerVars, watcherVars
<1> USE UnleashAssumption, <1>a DEF WorkersInv, Run!Open
<1>1. CASE Signal
  BY <1>1 DEF Signal
<1>2. CASE Notifier
  BY <1>2 DEF Notifier, NotifierReceive, NotifierCancel, NotifierClose
<1>3. CASE Watcher
  BY <1>3 DEF Watcher, WatcherTold, WatcherCancels
<1>4. CASE InitFails
  BY <1>4 DEF InitFails
<1>5. CASE MakeWorkDir
  BY <1>5 DEF MakeWorkDir
<1>6. CASE Waited
  BY <1>6 DEF Waited
<1>7. CASE Check
  BY <1>7 DEF Check
<1>8. CASE DoReport
  BY <1>8 DEF DoReport
<1>9. CASE CleanUp
  BY <1>9 DEF CleanUp
<1>10. CASE Exit
  BY <1>10 DEF Exit
<1>11. CASE StartWatcher
  BY <1>11 DEF StartWatcher
<1>12. CASE Prepare
  BY <1>12 DEF Prepare
<1>13. CASE PrepareFails
  BY <1>13 DEF PrepareFails
<1>14. CASE EngineReturns
  BY <1>14 DEF EngineReturns, Run!Return
<1>15. CASE DealerClean
  BY <1>15 DEF DealerClean, Clean
<1>16. CASE RunnerEnds
  BY <1>16 DEF RunnerEnds
<1>17. ASSUME NEW m \in Mutants, Accept(m) PROVE WorkersInv'
  BY <1>17 DEF Accept, Run!Accept
<1>18. CASE StopAccepting
  BY <1>18 DEF StopAccepting, Run!StopAccepting
<1>19. ASSUME NEW i \in Idfs, NEW m \in Mutants, Begin(i, m) PROVE WorkersInv'
  <2>1. /\ mutant[i] = None /\ mutant'[i] = m /\ getter'[i] \in {"returned", "making"}
        /\ \A j \in Idfs \ {i} : mutant'[j] = mutant[j] /\ getter'[j] = getter[j]
        /\ m \in Run!Open /\ \A j \in Idfs : mutant[j] # m
        /\ UNCHANGED <<accepted, reported, given_up>>
    BY <1>19 DEF Begin, GetCached, GetUncached, GetterMoves, TypeOK, DealerTypeOK
  <2>2. QED
    BY <2>1
<1>20. ASSUME NEW i \in Idfs, Continue(i) PROVE WorkersInv'
  <2>1. /\ getter[i] \notin {"out", "failed"} /\ getter'[i] # "out"
        /\ \A j \in Idfs \ {i} : getter'[j] = getter[j]
    BY <1>20 DEF Continue, MkdirTemp, MkdirFails, Copy, CopyFails, SetCache, GetterMoves, TypeOK,
      DealerTypeOK
  <2>2. UNCHANGED <<mutant, accepted, reported, given_up>>
    BY <1>20 DEF Continue
  <2>3. QED
    BY <2>1, <2>2
<1>21. ASSUME NEW i \in Idfs, NEW s \in Outcomes, ReportMutant(i, s) PROVE WorkersInv'
  <2>1. /\ getter[i] = "returned" /\ mutant'[i] = None /\ getter'[i] = "out"
        /\ \A j \in Idfs \ {i} : mutant'[j] = mutant[j] /\ getter'[j] = getter[j]
        /\ reported' = reported \cup {mutant[i]} /\ UNCHANGED <<accepted, given_up>>
    BY <1>21 DEF ReportMutant, Run!Report, Release, GetterMoves, TypeOK, DealerTypeOK
  <2>2. \A j \in Idfs \ {i} : mutant[j] # mutant[i]
    BY <2>1
  <2>3. QED
    BY <2>1, <2>2
<1>22. ASSUME NEW i \in Idfs, ApplyFails(i) PROVE WorkersInv'
  <2>1. /\ getter[i] = "returned" /\ mutant'[i] = None /\ getter'[i] = "out"
        /\ \A j \in Idfs \ {i} : mutant'[j] = mutant[j] /\ getter'[j] = getter[j]
        /\ given_up' = given_up \cup {mutant[i]} /\ UNCHANGED <<accepted, reported>>
    BY <1>22 DEF ApplyFails, Run!GiveUp, Release, GetterMoves, TypeOK, DealerTypeOK
  <2>2. \A j \in Idfs \ {i} : mutant[j] # mutant[i]
    BY <2>1
  <2>3. QED
    BY <2>1, <2>2
<1>23. ASSUME NEW i \in Idfs, PanicDone(i) PROVE WorkersInv'
  BY <1>23 DEF PanicDone, Run!GiveUp
<1>24. ASSUME NEW i \in Idfs, Panic(i) PROVE WorkersInv'
  BY <1>24 DEF Panic, Run!Crash
<1>25. CASE UNCHANGED vars
  BY <1>25 DEF vars
<1>26. QED
  BY <1>1, <1>2, <1>3, <1>4, <1>5, <1>6, <1>7, <1>8, <1>9,
     <1>10, <1>11, <1>12, <1>13, <1>14, <1>15, <1>16, <1>17, <1>18,
     <1>19, <1>20, <1>21, <1>22, <1>23, <1>24, <1>25
  DEF Next, Goroutines, Main, Runner, Feeder, Worker, Terminated

(* Every step keeps the copies apart.                                      *)
LEMMA CopiesStep == UnleashInv /\ [Next]_vars => CopiesInv'
<1> SUFFICES ASSUME UnleashInv, [Next]_vars PROVE CopiesInv'
  OBVIOUS
<1>a. TypeOK /\ CommandInv /\ WorkInv /\ WorkersInv /\ CopiesInv
  BY DEF UnleashInv
<1> USE DEF engineVars, dealerVars, runVars, workVars, signalVars, commandVars, mainVars,
           runnerVars, watcherVars
<1> USE DealerAssumption, <1>a DEF CopiesInv
<1>1. CASE Signal
  BY <1>1 DEF Signal
<1>2. CASE Notifier
  BY <1>2 DEF Notifier, NotifierReceive, NotifierCancel, NotifierClose
<1>3. CASE Watcher
  BY <1>3 DEF Watcher, WatcherTold, WatcherCancels
<1>4. CASE InitFails
  BY <1>4 DEF InitFails
<1>5. CASE MakeWorkDir
  BY <1>5 DEF MakeWorkDir, CommandInv
<1>6. CASE Waited
  BY <1>6 DEF Waited
<1>7. CASE Check
  BY <1>7 DEF Check
<1>8. CASE DoReport
  BY <1>8 DEF DoReport
<1>9. CASE CleanUp
  <2>1. runner = "ended" /\ UNCHANGED <<runner, cache, getter, dstDir>>
    BY <1>9 DEF CleanUp, CommandInv
  <2>2. \A i \in Idfs : getter[i] \in {"out", "failed"} /\ cache[i] = None
    BY <2>1, ActiveInEngine
  <2>3. QED
    BY <2>1, <2>2
<1>10. CASE Exit
  BY <1>10 DEF Exit
<1>11. CASE StartWatcher
  BY <1>11 DEF StartWatcher
<1>12. CASE Prepare
  BY <1>12 DEF Prepare
<1>13. CASE PrepareFails
  BY <1>13 DEF PrepareFails
<1>14. CASE EngineReturns
  BY <1>14 DEF EngineReturns, Run!Return
<1>15. CASE DealerClean
  <2>1. runner = "clean" /\ runner' = "done" /\ UNCHANGED <<getter, dstDir>>
    BY <1>15 DEF DealerClean, Clean
  <2>2. \A i \in Idfs : getter[i] \in {"out", "failed"} /\ cache'[i] = None
    BY <1>15, <2>1, ActiveInEngine DEF DealerClean, Clean
  <2>3. QED
    BY <2>1, <2>2
<1>16. CASE RunnerEnds
  BY <1>16 DEF RunnerEnds
<1>17. ASSUME NEW m \in Mutants, Accept(m) PROVE CopiesInv'
  BY <1>17 DEF Accept, Run!Accept
<1>18. CASE StopAccepting
  BY <1>18 DEF StopAccepting, Run!StopAccepting
<1>19. ASSUME NEW i \in Idfs, NEW m \in Mutants, Begin(i, m) PROVE CopiesInv'
  <2>1. /\ getter[i] = "out"
        /\ \A j \in Idfs \ {i} : getter'[j] = getter[j] /\ dstDir'[j] = dstDir[j]
        /\ UNCHANGED <<cache, disk, runner>>
    BY <1>19 DEF Begin, GetCached, GetUncached, GetterMoves, TypeOK, DealerTypeOK
  <2>2. CASE GetCached(i)
    <3>1. getter'[i] = "returned" /\ cache[i] # None /\ dstDir'[i] = cache[i]
      BY <2>2 DEF GetCached, GetterMoves, TypeOK, DealerTypeOK
    <3>2. QED
      BY <2>1, <3>1
  <2>3. CASE GetUncached(i)
    <3>1. getter'[i] = "making" /\ cache[i] = None /\ dstDir'[i] = dstDir[i]
      BY <2>3 DEF GetUncached, GetterMoves, TypeOK, DealerTypeOK
    <3>2. QED
      BY <2>1, <3>1
  <2>4. QED
    BY <1>19, <2>2, <2>3 DEF Begin
<1>20. ASSUME NEW i \in Idfs, Continue(i) PROVE CopiesInv'
  <2>1. runner' = runner /\ getter[i] \notin {"out", "failed"}
    BY <1>20 DEF Continue, MkdirTemp, MkdirFails, Copy, CopyFails, SetCache, GetterMoves
  <2>2. runner = "engine" /\ runner' = "engine"
    BY <2>1, ActiveInEngine
  <2>3. \A j \in Idfs \ {i} : getter'[j] = getter[j]
    BY <1>20 DEF Continue, MkdirTemp, MkdirFails, Copy, CopyFails, SetCache, GetterMoves, TypeOK,
      DealerTypeOK
  <2>4. CASE MkdirTemp(i)
    <3>1. PICK d \in Dirs : /\ disk[d] = "absent" /\ disk' = [disk EXCEPT ![d] = "partial"]
                           /\ dstDir' = [dstDir EXCEPT ![i] = d]
      BY <2>4 DEF MkdirTemp
    <3>2. /\ getter[i] = "making" /\ getter'[i] = "copying" /\ cache' = cache
          /\ disk'[d] = "partial" /\ \A e \in Dirs \ {d} : disk'[e] = disk[e]
          /\ dstDir'[i] = d /\ \A j \in Idfs \ {i} : dstDir'[j] = dstDir[j]
      BY <2>4, <3>1 DEF MkdirTemp, GetterMoves, TypeOK, DealerTypeOK
    <3>3. \A j \in Idfs : dstDir[j] # d /\ cache[j] # d
      BY <3>1
    <3>4. \A j \in Idfs : cache[j] \in Dirs \cup {None} /\ dstDir[j] \in Dirs \cup {None}
      BY DEF TypeOK, DealerTypeOK
    <3>5. QED
      BY <2>2, <2>3, <3>1, <3>2, <3>3, <3>4
  <2>5. CASE MkdirFails(i)
    <3>1. getter[i] = "making" /\ getter'[i] = "failed" /\ UNCHANGED <<cache, disk, dstDir>>
      BY <2>5 DEF MkdirFails, GetterMoves, TypeOK, DealerTypeOK
    <3>2. QED
      BY <2>2, <2>3, <3>1
  <2>6. CASE Copy(i)
    <3>1. /\ getter[i] = "copying" /\ getter'[i] = "caching" /\ UNCHANGED <<cache, dstDir>>
          /\ disk' = [disk EXCEPT ![dstDir[i]] = "full"]
      BY <2>6 DEF Copy, GetterMoves, TypeOK, DealerTypeOK
    <3>2. dstDir[i] \in Dirs
      BY <3>1 DEF TypeOK, DealerTypeOK
    <3>3. disk'[dstDir[i]] = "full" /\ \A e \in Dirs \ {dstDir[i]} : disk'[e] = disk[e]
      BY <3>1, <3>2 DEF TypeOK, DealerTypeOK
    <3>4. \A j \in Idfs : cache[j] \in Dirs \cup {None} /\ dstDir[j] \in Dirs \cup {None}
      BY DEF TypeOK, DealerTypeOK
    <3>5. QED
      BY <2>2, <2>3, <3>1, <3>2, <3>3, <3>4
  <2>7. CASE CopyFails(i)
    <3>1. /\ getter[i] = "copying" /\ getter'[i] = "failed" /\ UNCHANGED <<cache, disk>>
          /\ dstDir'[i] = None /\ \A j \in Idfs \ {i} : dstDir'[j] = dstDir[j]
      BY <2>7 DEF CopyFails, GetterMoves, TypeOK, DealerTypeOK
    <3>2. QED
      BY <2>2, <2>3, <3>1
  <2>8. CASE SetCache(i)
    <3>1. /\ getter[i] = "caching" /\ getter'[i] = "returned" /\ UNCHANGED <<disk, dstDir>>
          /\ cache'[i] = dstDir[i] /\ \A j \in Idfs \ {i} : cache'[j] = cache[j]
      BY <2>8 DEF SetCache, GetterMoves, TypeOK, DealerTypeOK
    <3>2. QED
      BY <2>2, <2>3, <3>1
  <2>9. QED
    BY <1>20, <2>4, <2>5, <2>6, <2>7, <2>8 DEF Continue
<1>21. ASSUME NEW i \in Idfs, NEW s \in Outcomes, ReportMutant(i, s) PROVE CopiesInv'
  <2>1. /\ getter[i] = "returned" /\ getter'[i] = "out" /\ dstDir'[i] = None
        /\ \A j \in Idfs \ {i} : getter'[j] = getter[j] /\ dstDir'[j] = dstDir[j]
        /\ UNCHANGED <<cache, disk, runner>>
    BY <1>21 DEF ReportMutant, Release, GetterMoves, TypeOK, DealerTypeOK
  <2>2. QED
    BY <2>1
<1>22. ASSUME NEW i \in Idfs, ApplyFails(i) PROVE CopiesInv'
  <2>1. /\ getter[i] = "returned" /\ getter'[i] = "out" /\ dstDir'[i] = None
        /\ \A j \in Idfs \ {i} : getter'[j] = getter[j] /\ dstDir'[j] = dstDir[j]
        /\ UNCHANGED <<cache, disk, runner>>
    BY <1>22 DEF ApplyFails, Release, GetterMoves, TypeOK, DealerTypeOK
  <2>2. QED
    BY <2>1
<1>23. ASSUME NEW i \in Idfs, PanicDone(i) PROVE CopiesInv'
  BY <1>23 DEF PanicDone, Run!GiveUp
<1>24. ASSUME NEW i \in Idfs, Panic(i) PROVE CopiesInv'
  BY <1>24 DEF Panic, Run!Crash
<1>25. CASE UNCHANGED vars
  BY <1>25 DEF vars
<1>26. QED
  BY <1>1, <1>2, <1>3, <1>4, <1>5, <1>6, <1>7, <1>8, <1>9,
     <1>10, <1>11, <1>12, <1>13, <1>14, <1>15, <1>16, <1>17, <1>18,
     <1>19, <1>20, <1>21, <1>22, <1>23, <1>24, <1>25
  DEF Next, Goroutines, Main, Runner, Feeder, Worker, Terminated

(* Before anything has been done.                                          *)
LEMMA InitUnleashInv == Init => UnleashInv
<1> SUFFICES ASSUME Init PROVE UnleashInv
  OBVIOUS
<1> USE DealerAssumption, UnleashAssumption DEF Init, DealerInit, Run!Init
<1>1. TypeOK
  <2>1. DealerTypeOK /\ Run!TypeOK
    BY DEF DealerTypeOK, Run!TypeOK
  <2>2. mutant \in [Idfs -> Mutants \cup {None}] /\ results \in Seq(Outcomes)
    OBVIOUS
  <2>3. signals \in 0 .. MaxSignals
    OBVIOUS
  <2>4. QED
    BY <2>1, <2>2, <2>3 DEF TypeOK
<1>2. CommandInv /\ InterruptInv
  BY DEF CommandInv, InterruptInv
<1>3. JudgeInv
  BY DEF JudgeInv
<1>4. WorkInv
  <2>1. Len(results) = 0 /\ Cardinality(reported) = 0
    BY FS_EmptySet
  <2>2. QED
    BY <2>1 DEF WorkInv
<1>5. WorkersInv /\ CopiesInv
  BY DEF WorkersInv, CopiesInv
<1>6. QED
  BY <1>1, <1>2, <1>3, <1>4, <1>5 DEF UnleashInv

(* The inductive invariant holds of every process.                         *)
THEOREM UnleashInvariance == Spec => []UnleashInv
<1>1. UnleashInv /\ [Next]_vars => UnleashInv'
  BY TypeStep, CommandStep, InterruptStep, JudgeStep, WorkStep, WorkersStep, CopiesStep
  DEF UnleashInv
<1>2. QED
  BY InitUnleashInv, <1>1, PTL DEF Spec

(* A worker with a directory has a complete copy, and has it for itself.   *)
THEOREM CopiesAreOwn == Spec => []OwnCompleteCopies
<1>1. UnleashInv => OwnCompleteCopies
  BY DEF UnleashInv, CopiesInv, OwnCompleteCopies
<1>2. QED
  BY <1>1, UnleashInvariance, PTL

(* What main reports on can no longer change.                              *)
THEOREM ReportsAreSettled == Spec => []JudgedWhenSettled
<1>1. UnleashInv => JudgedWhenSettled
  BY DEF UnleashInv, CommandInv, WorkInv, JudgedWhenSettled
<1>2. QED
  BY <1>1, UnleashInvariance, PTL

(* A process that reaches os.Exit leaves no directory that it could remove.*)
THEOREM LeavesClean == Spec => []ExitsClean
<1>1. UnleashInv => ExitsClean
  BY DEF UnleashInv, CommandInv, ExitsClean
<1>2. QED
  BY <1>1, UnleashInvariance, PTL

(* Without a signal, the exit code is the failure of a run that was not    *)
(* judged, or the gate's verdict on every mutant that was not given up.    *)
THEOREM JudgedInFull == Spec => []UninterruptedIsJudgedInFull
<1>1. UnleashInv => UninterruptedIsJudgedInFull
  <2> SUFFICES ASSUME UnleashInv, process = "exited", ~ctxDone
               PROVE  IF exitCode = ExitFailure THEN ~judged
                      ELSE /\ judged /\ accepted = Mutants
                           /\ Len(results) = Cardinality(Mutants \ given_up)
                           /\ exitCode = Do(results, DryRun, ET, CT)
    BY DEF UninterruptedIsJudgedInFull
  <2>1. main = "exiting" /\ ~stopped
    BY DEF UnleashInv, CommandInv, InterruptInv
  <2>2. CASE judged
    <3>1. ~err /\ runner = "ended" /\ exitCode = Do(results, DryRun, ET, CT)
      BY <2>1, <2>2 DEF UnleashInv, JudgeInv
    <3>2. accepted = Mutants /\ Run!Open = {}
      BY <2>1, <3>1 DEF UnleashInv, WorkInv
    <3>3. /\ reported \subseteq accepted /\ given_up \subseteq accepted
          /\ reported \cap given_up = {}
      BY DEF UnleashInv, TypeOK, Run!TypeOK, WorkInv
    <3>4. reported = Mutants \ given_up
      BY <3>2, <3>3 DEF Run!Open
    <3>5. Len(results) = Cardinality(reported)
      BY DEF UnleashInv, WorkInv
    <3>6. exitCode # ExitFailure
      BY <3>1, DoCodes
    <3>7. QED
      BY <2>2, <3>1, <3>2, <3>4, <3>5, <3>6
  <2>3. CASE ~judged
    <3>1. exitCode = ExitFailure
      BY <2>1, <2>3 DEF UnleashInv, JudgeInv
    <3>2. QED
      BY <2>3, <3>1
  <2>4. QED
    BY <2>2, <2>3
<1>2. QED
  BY <1>1, UnleashInvariance, PTL

(* The process as a whole keeps what MutationRun promises, as Engine does: *)
(* each step settles, accepts or stops as a mutation run may, or leaves it *)
(* alone.                                                                  *)
THEOREM UnleashIsAMutationRun == Spec => Run!Spec
<1>1. Init => Run!Init
  BY DEF Init
<1>2. UnleashInv /\ [Next]_vars => [Run!Next]_(Run!vars)
  <2> SUFFICES ASSUME UnleashInv, [Next]_vars PROVE Run!Next \/ UNCHANGED runVars
    BY DEF runVars, Run!vars
  <2> USE DEF engineVars, runVars
  <2>1. CASE Signal \/ Notifier \/ Watcher
    BY <2>1 DEF Signal, Notifier, NotifierReceive, NotifierCancel, NotifierClose,
      Watcher, WatcherTold, WatcherCancels
  <2>2. CASE Main
    BY <2>2 DEF Main, InitFails, MakeWorkDir, Waited, Check, DoReport, CleanUp, Exit
  <2>3. CASE EngineReturns
    BY <2>3 DEF EngineReturns, Run!Next
  <2>4. CASE StartWatcher \/ Prepare \/ PrepareFails \/ DealerClean \/ RunnerEnds
    BY <2>4 DEF StartWatcher, Prepare, PrepareFails, DealerClean, RunnerEnds
  <2>5. CASE Feeder
    BY <2>5 DEF Feeder, Accept, StopAccepting, Run!Next
  <2>6. ASSUME NEW i \in Idfs, Worker(i) PROVE Run!Next \/ UNCHANGED runVars
    <3>1. CASE Continue(i) \/ \E m \in Mutants : Begin(i, m)
      BY <3>1 DEF Continue, Begin
    <3>2. ASSUME NEW s \in Outcomes, ReportMutant(i, s) PROVE Run!Next
      <4>1. Run!Report(mutant[i]) /\ mutant[i] \in Mutants
        BY <3>2 DEF ReportMutant, Run!Report, Run!Open, UnleashInv, TypeOK, Run!TypeOK
      <4>2. QED
        BY <4>1 DEF Run!Next
    <3>3. CASE ApplyFails(i) \/ PanicDone(i)
      <4>1. Run!GiveUp(mutant[i]) /\ mutant[i] \in Mutants
        BY <3>3 DEF ApplyFails, PanicDone, Run!GiveUp, Run!Open, UnleashInv, TypeOK, Run!TypeOK
      <4>2. QED
        BY <4>1 DEF Run!Next
    <3>4. CASE Panic(i)
      BY <3>4 DEF Panic, Run!Next
    <3>5. QED
      BY <2>6, <3>1, <3>2, <3>3, <3>4 DEF Worker
  <2>7. CASE UNCHANGED vars
    BY <2>7 DEF vars
  <2>8. QED
    BY <2>1, <2>2, <2>3, <2>4, <2>5, <2>6, <2>7 DEF Next, Goroutines, Runner, Terminated
<1>3. QED
  BY <1>1, <1>2, UnleashInvariance, PTL DEF Spec, Run!Spec
===============================================================================
