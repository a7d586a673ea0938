--------------------------- MODULE EngineInvariant ---------------------------
(***************************************************************************)
(* The inductive invariant behind the safety properties of Engine.tla: how *)
(* the program counters of the goroutines, the channels, the WaitGroup and *)
(* the mutants' own positions agree.  Checked by TLC as an invariant and   *)
(* proved inductive in EngineProofs.tla.                                   *)
(***************************************************************************)
EXTENDS Engine

(* The walker is blocked on exactly the mutant that is "offered".          *)
WalkerInv ==
    /\ walker = "offering" => offered \in Mutants /\ step[offered] = "offered"
    /\ \A m \in Mutants : step[m] = "offered" => walker = "offering" /\ offered = m

(* The feeder holds exactly the mutant that is "received" or "accepted".   *)
FeederInv ==
    /\ feeder = "checking" => feeding \in Mutants /\ step[feeding] = "received"
    /\ feeder = "appending" => feeding \in Mutants /\ step[feeding] = "accepted"
    /\ \A m \in Mutants : step[m] = "received" => feeder = "checking" /\ feeding = m
    /\ \A m \in Mutants : step[m] = "accepted" => feeder = "appending" /\ feeding = m

(* What is in the queue is "queued", and once only.                        *)
QueueInv ==
    /\ \A i \in 1 .. Len(queue) : step[queue[i]] = "queued"
    /\ \A m \in Mutants : step[m] = "queued" => \E i \in 1 .. Len(queue) : queue[i] = m

(* Each busy worker has a mutant of its own, inside Start.                 *)
WorkerInv ==
    /\ \A w \in Workers : worker[w] = "executing" =>
          /\ executor[w] \in Mutants
          /\ step[executor[w]] \in ExecutorSteps \cup {"panicked"}
    /\ \A v, w \in Workers :
          worker[v] = "executing" /\ worker[w] = "executing" /\ executor[v] = executor[w]
             => v = w

(* The WaitGroup counts the outstanding mutants, and the feeder.           *)
CountInv ==
    wg = Cardinality(Outstanding) + IF feeder \in {"idle", "done"} THEN 0 ELSE 1

(* The order in which run, pool, feeder and closer advance.                *)
PhaseInv ==
    /\ run = "called" <=> feeder = "idle"
    /\ run = "called" <=> closer = "idle"
    /\ run = "called" <=> pool = "initialized"
    /\ run = "called" => wg = 0
    /\ run = "returned" => closer = "closed"
    /\ pool = "stopping" <=> feeder = "stopping"
    /\ pool = "stopped" => feeder = "done"
    /\ queueClosed <=> pool \in {"stopping", "stopped"}
    /\ feeder = "done" /\ pool # "stopped" => walker = "ended"
    /\ \A m \in Mutants : step[m] = "abandoned" => queueClosed

(* A mutant is in the report once it is past its send, and only then.      *)
ReportInv ==
    \A m \in Mutants :
        IF step[m] \in {"return", "done"}
        THEN results[m] = IF m \in applyFailed THEN 0 ELSE 1
        ELSE results[m] = 0 /\ m \notin applyFailed

(* The status a mutant may be reported with.                               *)
Reportable(m) ==
    status[m] \in IF DryRun THEN FoundStatus ELSE TestedStatus \cup {NotCovered, Skipped}

(* Only covered mutants of a real run get to Apply and to the tests.       *)
StatusInv ==
    \A m \in Mutants :
        /\ step[m] \in FeederSteps \cup {"get"} => status[m] \in FoundStatus
        /\ step[m] \in {"apply", "test"} => ~DryRun /\ status[m] = Runnable
        /\ step[m] = "send" => Reportable(m)
        /\ results[m] = 1 => Reportable(m)

(* Where a mutant has a worker, and where its executor has been started.   *)
HeldSteps    == ExecutorSteps \cup {"panicked"}
StartedSteps == HeldSteps \cup {"done"}

(* The pool has started the executors of the mutants that are inside Start *)
(* or past it, and no others; whoever is inside has a worker.              *)
PoolUseInv ==
    /\ \A m \in Mutants : runs[m] = IF step[m] \in StartedSteps THEN 1 ELSE 0
    /\ \A m \in Mutants : step[m] \in HeldSteps =>
          \E w \in Workers : worker[w] = "executing" /\ executor[w] = m

(* The conjunction.                                                        *)
EngineInv ==
    /\ TypeOK
    /\ WalkerInv
    /\ FeederInv
    /\ QueueInv
    /\ WorkerInv
    /\ CountInv
    /\ PhaseInv
    /\ NoSendOnClosedChannel
    /\ ReportInv
    /\ StatusInv
=============================================================================
