-------------------------------- MODULE Engine --------------------------------
(***************************************************************************)
(* Engine.Run, executeTests and mutantExecutor.Start: the goroutines of a  *)
(* mutation run and the channels and WaitGroup that tie them together.     *)
(*                                                                         *)
(*   walker     finds mutants, sends them on the unbuffered mutantStream   *)
(*   feeder     ranges over the stream, checks the context, hands an       *)
(*              executor per mutant to the WorkerPool, stops it on cancel  *)
(*   workers    (WorkerPool) run mutantExecutor.Start                      *)
(*   closer     wg.Wait(), then close(outCh)                               *)
(*   collector  the caller of Run: ranges over outCh and builds the report *)
(*                                                                         *)
(* An executor and its mutant are one and the same here: NewExecutor makes *)
(* one executor per mutant.  step[m] says where mutant m is on its way.    *)
(***************************************************************************)
EXTENDS WorkerPool, MutantStatus

CONSTANTS
    DryRun,  \* unleash --dry-run
    Faults   \* which of the executor's calls may fail, among "get", "apply"

Mutants == Executors

ASSUME EngineAssumption ==
    /\ IsFiniteSet(Executors)
    /\ DryRun \in BOOLEAN
    /\ Faults \subseteq {"get", "apply"}

VARIABLES
    walker,       \* "walking", "offering", "ended" (the stream is closed)
    offered,      \* the mutant the walker is sending
    feeder,       \* the feeder's program counter
    feeding,      \* the feeder's loop variable
    wg,           \* the WaitGroup's counter
    closer,       \* the closer's program counter; "closed": outCh is closed
    run,          \* the collector: "called", "collecting", "returned"
    ctxDone,      \* ctx.Done() is closed
    crashed,      \* a panic has taken the process down
    step,         \* where each mutant is
    status,       \* the mutants' Status
    results,      \* how often each mutant was appended to the report
    applyFailed   \* history: mutants whose Apply returned an error

engineVars ==
    <<walker, offered, feeder, feeding, wg, closer, run, ctxDone, crashed,
      step, status, results, applyFailed>>
vars == <<poolVars, engineVars>>

(* Before a worker has it, inside mutantExecutor.Start, and after it.      *)
FeederSteps   == {"unseen", "offered", "received", "accepted", "queued"}
ExecutorSteps == {"get", "apply", "test", "send", "return", "panicking"}
FinalSteps    == {"done", "abandoned", "panicked"}
Steps == FeederSteps \cup ExecutorSteps \cup FinalSteps

(* A mutant that the WaitGroup counts, from wg.Add(1) to wg.Done().        *)
Outstanding ==
    {m \in Mutants : step[m] \in {"accepted", "queued"} \cup ExecutorSteps}

TypeOK ==
    /\ PoolTypeOK
    /\ walker \in {"walking", "offering", "ended"}
    /\ offered \in Mutants \cup {None}
    /\ feeder \in {"idle", "ranging", "checking", "appending", "stopping", "done"}
    /\ feeding \in Mutants \cup {None}
    /\ wg \in Nat
    /\ closer \in {"idle", "waiting", "closing", "closed"}
    /\ run \in {"called", "collecting", "returned"}
    /\ ctxDone \in BOOLEAN
    /\ crashed \in BOOLEAN
    /\ step \in [Mutants -> Steps]
    /\ status \in [Mutants -> Status]
    /\ results \in [Mutants -> Nat]
    /\ applyFailed \subseteq Mutants

(* Run has made the stream and started the walker.  A mutant that is not   *)
(* yet found has Go's zero Status.                                         *)
Init ==
    /\ PoolInit
    /\ walker = "walking" /\ offered = None
    /\ feeder = "idle" /\ feeding = None
    /\ wg = 0
    /\ closer = "idle"
    /\ run = "called"
    /\ ctxDone = FALSE
    /\ crashed = FALSE
    /\ step = [m \in Mutants |-> "unseen"]
    /\ status = [m \in Mutants |-> NotCovered]
    /\ results = [m \in Mutants |-> 0]
    /\ applyFailed = {}

-----------------------------------------------------------------------------
(* The walker *)

(* findMutations makes a mutant, gives it its status and blocks sending    *)
(* it.  Files are visited in some order; which lines are covered and       *)
(* changed is left open.                                                   *)
FindMutation(m, covered, changed) ==
    /\ walker = "walking"
    /\ step[m] = "unseen"
    /\ walker' = "offering"
    /\ offered' = m
    /\ step' = [step EXCEPT ![m] = "offered"]
    /\ status' = [status EXCEPT ![m] = mutationStatus(covered, changed)]
    /\ UNCHANGED <<poolVars, feeder, feeding, wg, closer, run, ctxDone, crashed,
                   results, applyFailed>>

(* The walk is over and the deferred close(mutantStream) runs.  The tokens *)
(* left unseen are in excluded files or of disabled types.                 *)
WalkEnd ==
    /\ walker = "walking"
    /\ walker' = "ended"
    /\ UNCHANGED <<poolVars, offered, feeder, feeding, wg, closer, run, ctxDone,
                   crashed, step, status, results, applyFailed>>

-----------------------------------------------------------------------------
(* executeTests: the caller, the feeder, the closer and the collector *)

(* Starts the pool, counts the feeder, starts the feeder and the closer.   *)
ExecuteTests ==
    /\ run = "called"
    /\ Start
    /\ run' = "collecting"
    /\ wg' = 1
    /\ feeder' = "ranging"
    /\ closer' = "waiting"
    /\ UNCHANGED <<walker, offered, feeding, ctxDone, crashed, step, status, results,
                   applyFailed>>

(* `for mut := range mu.mutantStream`: the send and the receive meet.      *)
FeederReceive ==
    /\ feeder = "ranging"
    /\ walker = "offering"
    /\ feeder' = "checking"
    /\ feeding' = offered
    /\ walker' = "walking"
    /\ offered' = None
    /\ step' = [step EXCEPT ![offered] = "received"]
    /\ UNCHANGED <<poolVars, wg, closer, run, ctxDone, crashed, status, results,
                   applyFailed>>

(* Faulty variant: the executor is appended before it is counted.          *)
FeederAcceptUncounted ==
    /\ feeder = "checking"
    /\ ~ctxDone
    /\ feeder' = "appending"
    /\ step' = [step EXCEPT ![feeding] = "accepted"]
    /\ UNCHANGED <<poolVars, walker, offered, feeding, wg, closer, run, ctxDone,
                   crashed, status, results, applyFailed>>

(* checkDone says go on: wg.Add(1) and a new executor for the mutant.      *)
FeederAccept ==
    /\ feeder = "checking"
    /\ ~ctxDone
    /\ feeder' = "appending"
    /\ wg' = wg + 1
    /\ step' = [step EXCEPT ![feeding] = "accepted"]
    /\ UNCHANGED <<poolVars, walker, offered, feeding, closer, run, ctxDone, crashed,
                   status, results, applyFailed>>

(* pool.AppendExecutor, blocked for as long as the queue is full.          *)
FeederAppend ==
    /\ feeder = "appending"
    /\ AppendExecutor(feeding)
    /\ feeder' = "ranging"
    /\ feeding' = None
    /\ step' = [step EXCEPT ![feeding] = "queued"]
    /\ UNCHANGED <<walker, offered, wg, closer, run, ctxDone, crashed, status, results,
                   applyFailed>>

(* checkDone says stop: pool.Stop() begins; the mutant at hand is dropped. *)
FeederStop ==
    /\ feeder = "checking"
    /\ ctxDone
    /\ Stop
    /\ feeder' = "stopping"
    /\ feeding' = None
    /\ step' = [step EXCEPT ![feeding] = "abandoned"]
    /\ UNCHANGED <<walker, offered, wg, closer, run, ctxDone, crashed, status, results,
                   applyFailed>>

(* pool.Stop() returns; break; the deferred wg.Done().                     *)
FeederStopped ==
    /\ feeder = "stopping"
    /\ StopReturn
    /\ feeder' = "done"
    /\ wg' = wg - 1
    /\ UNCHANGED <<walker, offered, feeding, closer, run, ctxDone, crashed, step,
                   status, results, applyFailed>>

(* The stream is closed: the loop ends; the deferred wg.Done().            *)
FeederEnd ==
    /\ feeder = "ranging"
    /\ walker = "ended"
    /\ feeder' = "done"
    /\ wg' = wg - 1
    /\ UNCHANGED <<poolVars, walker, offered, feeding, closer, run, ctxDone, crashed,
                   step, status, results, applyFailed>>

(* wg.Wait() returns.                                                      *)
CloserWaited ==
    /\ closer = "waiting"
    /\ wg = 0
    /\ closer' = "closing"
    /\ UNCHANGED <<poolVars, walker, offered, feeder, feeding, wg, run, ctxDone,
                   crashed, step, status, results, applyFailed>>

(* close(outCh)                                                            *)
CloserClose ==
    /\ closer = "closing"
    /\ closer' = "closed"
    /\ UNCHANGED <<poolVars, walker, offered, feeder, feeding, wg, run, ctxDone,
                   crashed, step, status, results, applyFailed>>

(* outCh is closed: the collector leaves its loop, Run returns.            *)
Return ==
    /\ run = "collecting"
    /\ closer = "closed"
    /\ run' = "returned"
    /\ UNCHANGED <<poolVars, walker, offered, feeder, feeding, wg, closer, ctxDone,
                   crashed, step, status, results, applyFailed>>

-----------------------------------------------------------------------------
(* mutantExecutor.Start, on worker w *)

(* The worker takes the executor from the queue and calls its Start.       *)
WorkerReceive(w) ==
    /\ Receive(w)
    /\ step' = [step EXCEPT ![Head(queue)] = "get"]
    /\ UNCHANGED <<walker, offered, feeder, feeding, wg, closer, run, ctxDone, crashed,
                   status, results, applyFailed>>

(* The executor of worker w is at step s.                                  *)
At(w, s) == worker[w] = "executing" /\ step[executor[w]] = s

(* NOT COVERED and SKIPPED mutants, and all mutants in a dry run, are sent *)
(* as they are.                                                            *)
SentUntested(m) == status[m] \in {NotCovered, Skipped} \/ DryRun

(* Faulty variant: uncovered mutants are tested too.                       *)
GetWorkdirTestingAll(w) ==
    /\ At(w, "get")
    /\ step' = [step EXCEPT ![executor[w]] =
                    IF status[executor[w]] = Skipped \/ DryRun THEN "send" ELSE "apply"]
    /\ UNCHANGED <<poolVars, walker, offered, feeder, feeding, wg, closer, run, ctxDone,
                   crashed, status, results, applyFailed>>

(* Faulty variant: uncovered and skipped mutants return without a send.    *)
GetWorkdirDroppingUntested(w) ==
    /\ At(w, "get")
    /\ step' = [step EXCEPT ![executor[w]] =
                    IF SentUntested(executor[w]) THEN "return" ELSE "apply"]
    /\ UNCHANGED <<poolVars, walker, offered, feeder, feeding, wg, closer, run, ctxDone,
                   crashed, status, results, applyFailed>>

(* The working directory is there.                                         *)
GetWorkdir(w) ==
    /\ At(w, "get")
    /\ step' = [step EXCEPT ![executor[w]] =
                    IF SentUntested(executor[w]) THEN "send" ELSE "apply"]
    /\ UNCHANGED <<poolVars, walker, offered, feeder, feeding, wg, closer, run, ctxDone,
                   crashed, status, results, applyFailed>>

(* It is not: panic.  The deferred wg.Done() runs before the process dies, *)
(* and the other goroutines run on in between.                             *)
GetWorkdirFails(w) ==
    /\ "get" \in Faults
    /\ At(w, "get")
    /\ step' = [step EXCEPT ![executor[w]] = "panicking"]
    /\ UNCHANGED <<poolVars, walker, offered, feeder, feeding, wg, closer, run, ctxDone,
                   crashed, status, results, applyFailed>>

PanicDone(w) ==
    /\ At(w, "panicking")
    /\ wg' = wg - 1
    /\ step' = [step EXCEPT ![executor[w]] = "panicked"]
    /\ UNCHANGED <<poolVars, walker, offered, feeder, feeding, closer, run, ctxDone,
                   crashed, status, results, applyFailed>>

Crash(w) ==
    /\ At(w, "panicked")
    /\ crashed' = TRUE
    /\ UNCHANGED <<poolVars, walker, offered, feeder, feeding, wg, closer, run, ctxDone,
                   step, status, results, applyFailed>>

(* Apply succeeds (what it does to the AST and the file: TokenMutator.tla) *)
Apply(w) ==
    /\ At(w, "apply")
    /\ step' = [step EXCEPT ![executor[w]] = "test"]
    /\ UNCHANGED <<poolVars, walker, offered, feeder, feeding, wg, closer, run, ctxDone,
                   crashed, status, results, applyFailed>>

(* Apply fails: the error is logged and Start returns, with nothing sent.  *)
ApplyFails(w) ==
    /\ "apply" \in Faults
    /\ At(w, "apply")
    /\ step' = [step EXCEPT ![executor[w]] = "return"]
    /\ applyFailed' = applyFailed \cup {executor[w]}
    /\ UNCHANGED <<poolVars, walker, offered, feeder, feeding, wg, closer, run, ctxDone,
                   crashed, status, results>>

(* SetStatus(runTests(..)), then Rollback, whose error is only logged.     *)
RunTests(w, outcome) ==
    /\ At(w, "test")
    /\ status' = [status EXCEPT ![executor[w]] = outcome]
    /\ step' = [step EXCEPT ![executor[w]] = "send"]
    /\ UNCHANGED <<poolVars, walker, offered, feeder, feeding, wg, closer, run, ctxDone,
                   crashed, results, applyFailed>>

(* Faulty variant: without the `return` after the first send, an untested  *)
(* mutant falls through to the tests and is sent once more.                *)
SendFallingThrough(w) ==
    /\ At(w, "send")
    /\ run = "collecting" /\ closer # "closed"
    /\ results' = [results EXCEPT ![executor[w]] = @ + 1]
    /\ step' = [step EXCEPT ![executor[w]] =
                    IF SentUntested(executor[w]) THEN "apply" ELSE "return"]
    /\ UNCHANGED <<poolVars, walker, offered, feeder, feeding, wg, closer, run, ctxDone,
                   crashed, status, applyFailed>>

(* `outCh <- mutant` meets the collector, which logs the mutant and        *)
(* appends it to the results.                                              *)
Send(w) ==
    /\ At(w, "send")
    /\ run = "collecting" /\ closer # "closed"
    /\ results' = [results EXCEPT ![executor[w]] = @ + 1]
    /\ step' = [step EXCEPT ![executor[w]] = "return"]
    /\ UNCHANGED <<poolVars, walker, offered, feeder, feeding, wg, closer, run, ctxDone,
                   crashed, status, applyFailed>>

(* Faulty variant: no deferred wg.Done(), so an early return skips it.     *)
ExecutorReturnUncounted(w) ==
    /\ At(w, "return")
    /\ Finish(w)
    /\ wg' = IF executor[w] \in applyFailed THEN wg ELSE wg - 1
    /\ step' = [step EXCEPT ![executor[w]] = "done"]
    /\ UNCHANGED <<walker, offered, feeder, feeding, closer, run, ctxDone, crashed,
                   status, results, applyFailed>>

(* Start returns: the deferred wg.Done(), and the worker's loop goes on.   *)
ExecutorReturn(w) ==
    /\ At(w, "return")
    /\ Finish(w)
    /\ wg' = wg - 1
    /\ step' = [step EXCEPT ![executor[w]] = "done"]
    /\ UNCHANGED <<walker, offered, feeder, feeding, closer, run, ctxDone, crashed,
                   status, results, applyFailed>>

(* The worker's side of pool.Stop().                                       *)
WorkerStops(w) ==
    /\ QueueDrained(w) \/ Acknowledge(w)
    /\ UNCHANGED engineVars

-----------------------------------------------------------------------------
(* The environment cancels the context (a signal, see Unleash).            *)
Cancel ==
    /\ ~ctxDone
    /\ run # "returned"
    /\ ctxDone' = TRUE
    /\ UNCHANGED <<poolVars, walker, offered, feeder, feeding, wg, closer, run, crashed,
                   step, status, results, applyFailed>>

(* Run is over.  The pool's workers may still sit at their queue, and a    *)
(* walker whose stream nobody reads at its send.                           *)
Terminated ==
    /\ crashed \/ run = "returned"
    /\ UNCHANGED vars

Walker ==
    \/ \E m \in Mutants, covered, changed \in BOOLEAN : FindMutation(m, covered, changed)
    \/ WalkEnd

Feeder ==
    \/ FeederReceive
    \/ FeederAccept
    \/ FeederAppend
    \/ FeederStop
    \/ FeederStopped
    \/ FeederEnd

Closer == CloserWaited \/ CloserClose

Collector == ExecuteTests \/ Return

Worker(w) ==
    \/ WorkerReceive(w)
    \/ GetWorkdir(w)
    \/ GetWorkdirFails(w)
    \/ PanicDone(w)
    \/ Crash(w)
    \/ Apply(w)
    \/ ApplyFails(w)
    \/ \E outcome \in TestedStatus : RunTests(w, outcome)
    \/ Send(w)
    \/ ExecutorReturn(w)
    \/ WorkerStops(w)

Goroutines ==
    \/ Walker
    \/ Feeder
    \/ Closer
    \/ Collector
    \/ \E w \in Workers : Worker(w)
    \/ Cancel

Next ==
    \/ ~crashed /\ Goroutines
    \/ Terminated

(***************************************************************************)
(* The Go scheduler does not starve a goroutine that can run, the walk is  *)
(* finite and every test run ends (it is killed at its deadline); nobody   *)
(* need cancel.                                                            *)
(***************************************************************************)
Fairness ==
    /\ WF_vars(~crashed /\ Walker)
    /\ WF_vars(~crashed /\ Feeder)
    /\ WF_vars(~crashed /\ Closer)
    /\ WF_vars(~crashed /\ Collector)
    /\ \A w \in Workers : WF_vars(~crashed /\ Worker(w))

Safety == Init /\ [][Next]_vars
Spec == Safety /\ Fairness

-----------------------------------------------------------------------------
(* Properties *)

(* Once wg.Wait() has returned, nobody can send on outCh (a panic once it  *)
(* is closed) or call wg.Add again: the feeder is through and no executor  *)
(* is between its wg.Add(1) and its wg.Done().  The feeder counting itself *)
(* and counting before appending are what it rests on.                     *)
NoSendOnClosedChannel ==
    closer \in {"closing", "closed"} =>
        /\ feeder = "done"
        /\ Outstanding = {}

(* When Run returns, every mutant the feeder accepted is in the report     *)
(* exactly once, unless its Apply failed or its worker panicked; and       *)
(* unless the run was stopped, every mutant that was found was accepted.   *)
(* A cancelled run still reports all it had handed to the pool.            *)
NothingLost ==
    run = "returned" =>
        /\ \A m \in Mutants :
              /\ step[m] \in {"unseen", "offered"} \cup FinalSteps
              /\ step[m] = "done" =>
                    results[m] = IF m \in applyFailed THEN 0 ELSE 1
        /\ pool # "stopped" =>
              /\ walker = "ended"
              /\ \A m \in Mutants : step[m] \in {"unseen", "done", "panicked"}

(* No mutant is counted twice, and the report of a run that is not a dry   *)
(* run never shows a mutant as RUNNABLE; a dry run never shows a mutant as *)
(* tested.                                                                 *)
ReportedOnceAndFinal ==
    \A m \in Mutants :
        /\ results[m] <= 1
        /\ results[m] = 1 =>
              status[m] \in IF DryRun THEN FoundStatus
                            ELSE TestedStatus \cup {NotCovered, Skipped}

(* A mutant's status is written once when it is found and once when it is  *)
(* tested: NOT COVERED and SKIPPED mutants are never tested, and a status  *)
(* never changes under the collector and the report, which read it without *)
(* a lock after the send.                                                  *)
StatusMovesForward ==
    [][\A m \in Mutants : status'[m] # status[m] =>
          /\ results[m] = 0
          /\ \/ step[m] = "unseen" /\ status'[m] \in FoundStatus
             \/ status[m] = Runnable /\ status'[m] \in TestedStatus]_vars

(* Run always comes back, cancelled or not, with failing mutants or not,   *)
(* unless a panic took the process down.                                   *)
RunReturns == <>(run = "returned" \/ crashed)

(* The guards of the goroutines' steps.                                    *)
FeederReady ==
    \/ feeder = "ranging" /\ walker \in {"offering", "ended"}
    \/ feeder = "checking" /\ (ctxDone => pool = "started")
    \/ feeder = "appending" /\ ~queueClosed /\ Len(queue) < QueueCap
    \/ feeder = "stopping" /\ pool = "stopping" /\ \A w \in Workers : worker[w] = "ended"

CloserReady ==
    \/ closer = "waiting" /\ wg = 0
    \/ closer = "closing"

CollectorReady ==
    \/ run = "called" /\ pool = "initialized"
    \/ run = "collecting" /\ closer = "closed"

WorkerReady(w) ==
    \/ worker[w] = "receiving" /\ (queue # <<>> \/ queueClosed)
    \/ worker[w] = "executing" /\ step[executor[w]] \in (ExecutorSteps \ {"send"}) \cup {"panicked"}
    \/ At(w, "send") /\ run = "collecting" /\ closer # "closed"
    \/ worker[w] = "signalling" /\ pool = "stopping"

(* Never does everyone wait for everyone: before Run has returned some     *)
(* goroutine can take a step, without anybody cancelling.  The walker,     *)
(* which may be long at a file or blocked for good on a stream nobody      *)
(* reads, is waited for only by a feeder that has nothing else to do.      *)
NobodyStuck ==
    \/ crashed \/ run = "returned"
    \/ feeder = "ranging" /\ walker = "walking"
    \/ FeederReady
    \/ CloserReady
    \/ CollectorReady
    \/ \E w \in Workers : WorkerReady(w)

(* The promise the run keeps.                                              *)
Accepted == {m \in Mutants : step[m] \notin {"unseen", "offered", "received", "abandoned"}}
Reported == {m \in Mutants : results[m] > 0}
GivenUp  == applyFailed \cup {m \in Mutants : step[m] \in {"panicking", "panicked"}}

Promise == INSTANCE MutationRun WITH
    accepted <- Accepted,
    reported <- Reported,
    given_up <- GivenUp,
    stopped  <- queueClosed,
    phase    <- IF crashed THEN "crashed"
                ELSE IF run = "returned" THEN "returned" ELSE "running"

(* The goroutines implement the abstract mutation run of MutationRun.tla:  *)
(* acceptance ends with Stop, each accepted mutant is settled exactly once *)
(* and the report is complete, and frozen, when Run returns.               *)
ImplementsMutationRun == Promise!Spec
=============================================================================
