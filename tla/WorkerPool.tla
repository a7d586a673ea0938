----------------------------- MODULE WorkerPool -----------------------------
(***************************************************************************)
(* The worker pool of internal/engine/workerpool: a fixed set of worker    *)
(* goroutines that take executors from one bounded channel, and a Stop     *)
(* that closes the channel and waits for every worker to say goodbye on    *)
(* its own unbuffered stopCh.                                              *)
(*                                                                         *)
(* The actions below are the pool's operations and the steps of its worker *)
(* goroutines.  Engine.tla composes them with the code that owns the pool; *)
(* PoolSpec closes them with a most general client that hands every        *)
(* executor in at most once and never appends after Stop, as executeTests  *)
(* does.                                                                   *)
(***************************************************************************)
EXTENDS Integers, Sequences, FiniteSets

CONSTANTS
    WNum,       \* the configured number of workers, 0 for "one per CPU"
    IntMode,    \* integration mode
    NumCPU,     \* runtime.NumCPU()
    Executors,  \* the executors that a client may hand to the pool
    None        \* no executor (Go's nil)

(***************************************************************************)
(* A negative --workers is accepted by the code and gives a pool without   *)
(* workers; nothing below holds of it, so it is assumed away here.         *)
(***************************************************************************)
ASSUME PoolAssumption ==
    /\ WNum \in Nat
    /\ NumCPU \in Nat \ {0}
    /\ IntMode \in BOOLEAN
    /\ None \notin Executors

-----------------------------------------------------------------------------
(* size: zero means all the CPUs, integration mode halves.                 *)
size(wNum, intMode) ==
    LET n == IF wNum = 0 THEN NumCPU ELSE wNum
    IN  IF intMode /\ n > 1 THEN n \div 2 ELSE n

Workers == 0 .. size(WNum, IntMode) - 1

(* make(chan Executor, 1)                                                  *)
QueueCap == 1

VARIABLES
    pool,         \* how far the pool's owner is: Initialize, Start, Stop
    queue,        \* the buffer of the executor channel
    queueClosed,  \* close(p.queue) has happened
    worker,       \* the program counter of each worker goroutine
    executor,     \* the executor each worker is running, None when it has none
    runs          \* history: how often each executor's Start has been called

poolVars == <<pool, queue, queueClosed, worker, executor, runs>>

PoolStates   == {"initialized", "started", "stopping", "stopped"}
WorkerStates == {"created", "receiving", "executing", "signalling", "ended"}

PoolTypeOK ==
    /\ pool \in PoolStates
    /\ queue \in Seq(Executors) /\ Len(queue) <= QueueCap
    /\ queueClosed \in BOOLEAN
    /\ worker \in [Workers -> WorkerStates]
    /\ executor \in [Workers -> Executors \cup {None}]
    /\ runs \in [Executors -> Nat]

(* Initialize: size workers, none of them started, and an empty queue.     *)
PoolInit ==
    /\ pool = "initialized"
    /\ queue = <<>>
    /\ queueClosed = FALSE
    /\ worker = [w \in Workers |-> "created"]
    /\ executor = [w \in Workers |-> None]
    /\ runs = [e \in Executors |-> 0]

(* Pool.Start: every worker gets its stopCh and its goroutine.             *)
Start ==
    /\ pool = "initialized"
    /\ pool' = "started"
    /\ worker' = [w \in Workers |-> "receiving"]
    /\ UNCHANGED <<queue, queueClosed, executor, runs>>

(* AppendExecutor blocks while the buffer is full.  Once the queue is      *)
(* closed the send would panic: no client of this pool gets there.         *)
AppendExecutor(e) ==
    /\ ~queueClosed
    /\ Len(queue) < QueueCap
    /\ queue' = Append(queue, e)
    /\ UNCHANGED <<pool, queueClosed, worker, executor, runs>>

(* Worker.Start, `executor, ok := <-executorQueue` with ok: a closed       *)
(* channel still hands out what it has buffered.                           *)
Receive(w) ==
    /\ worker[w] = "receiving"
    /\ queue # <<>>
    /\ queue' = Tail(queue)
    /\ worker' = [worker EXCEPT ![w] = "executing"]
    /\ executor' = [executor EXCEPT ![w] = Head(queue)]
    /\ runs' = [runs EXCEPT ![Head(queue)] = @ + 1]
    /\ UNCHANGED <<pool, queueClosed>>

(* executor.Start(w) returns and the loop goes round.                      *)
Finish(w) ==
    /\ worker[w] = "executing"
    /\ worker' = [worker EXCEPT ![w] = "receiving"]
    /\ executor' = [executor EXCEPT ![w] = None]
    /\ UNCHANGED <<pool, queue, queueClosed, runs>>

(* Faulty variant: looking at the closed flag instead of draining.         *)
QueueDrainedIgnoringBuffer(w) ==
    /\ worker[w] = "receiving"
    /\ queueClosed
    /\ worker' = [worker EXCEPT ![w] = "signalling"]
    /\ UNCHANGED <<pool, queue, queueClosed, executor, runs>>

(* Worker.Start, `!ok`: closed and drained, the worker will signal.        *)
QueueDrained(w) ==
    /\ worker[w] = "receiving"
    /\ queueClosed /\ queue = <<>>
    /\ worker' = [worker EXCEPT ![w] = "signalling"]
    /\ UNCHANGED <<pool, queue, queueClosed, executor, runs>>

(* Stop, first half: close the queue and start one waiter per worker.      *)
Stop ==
    /\ pool = "started"
    /\ pool' = "stopping"
    /\ queueClosed' = TRUE
    /\ UNCHANGED <<queue, worker, executor, runs>>

(* Faulty variant: the waiters do not receive from stopCh, so the worker's *)
(* unbuffered send never completes.                                        *)
AcknowledgeNever(w) ==
    /\ FALSE
    /\ UNCHANGED poolVars

(* The worker's `stopCh <-` meets the waiter's w.stop(): the worker leaves *)
(* its loop and the waiter is done.                                        *)
Acknowledge(w) ==
    /\ pool = "stopping"
    /\ worker[w] = "signalling"
    /\ worker' = [worker EXCEPT ![w] = "ended"]
    /\ UNCHANGED <<pool, queue, queueClosed, executor, runs>>

(* Faulty variant: Stop without its wg.Wait().                             *)
StopReturnsAtOnce ==
    /\ pool = "stopping"
    /\ pool' = "stopped"
    /\ UNCHANGED <<queue, queueClosed, worker, executor, runs>>

(* Stop, second half: wg.Wait() returns once every waiter is done.         *)
StopReturn ==
    /\ pool = "stopping"
    /\ \A w \in Workers : worker[w] = "ended"
    /\ pool' = "stopped"
    /\ UNCHANGED <<queue, queueClosed, worker, executor, runs>>

-----------------------------------------------------------------------------
(* The most general client of the pool.                                    *)

(* e has been appended.                                                    *)
Given(e) == runs[e] > 0 \/ \E i \in 1 .. Len(queue) : queue[i] = e

ClientAppend(e) ==
    /\ pool \in {"initialized", "started"}
    /\ ~Given(e)
    /\ AppendExecutor(e)

(* A stopped pool is the end of the story: its goroutines are gone.        *)
PoolTerminated ==
    /\ pool = "stopped"
    /\ UNCHANGED poolVars

PoolWorkerStep(w) ==
    \/ Receive(w)
    \/ Finish(w)
    \/ QueueDrained(w)
    \/ Acknowledge(w)

PoolNext ==
    \/ Start
    \/ \E e \in Executors : ClientAppend(e)
    \/ \E w \in Workers : PoolWorkerStep(w)
    \/ Stop
    \/ StopReturn
    \/ PoolTerminated

(***************************************************************************)
(* The Go scheduler runs every goroutine that can run: weak fairness on    *)
(* each worker, on Start's loop and on the goroutine inside Stop.  An      *)
(* executor's Start is assumed to return (Engine.tla models why it does).  *)
(* The client need not append anything, nor ever stop the pool.            *)
(***************************************************************************)
PoolFairness ==
    /\ WF_poolVars(Start)
    /\ \A w \in Workers : WF_poolVars(PoolWorkerStep(w))
    /\ WF_poolVars(StopReturn)

PoolSafety == PoolInit /\ [][PoolNext]_poolVars
PoolSpec == PoolSafety /\ PoolFairness

-----------------------------------------------------------------------------
(* Properties *)

(* Stop "waits for all the pending Worker to complete" (workerpool.go:118):*)
(* when it has returned, every executor that was ever appended, the one    *)
(* still in the buffer at close included, has been started exactly once    *)
(* and no worker is inside one.                                            *)
StopDrains ==
    pool = "stopped" =>
        /\ \A e \in Executors : Given(e) => runs[e] = 1
        /\ \A w \in Workers : worker[w] = "ended" /\ executor[w] = None

(* Stop always comes back: no worker is left at its unbuffered stopCh and  *)
(* no waiter waits for a worker that will not answer.                      *)
StopReturns == pool = "stopping" ~> pool = "stopped"

(* Whatever was appended to a started pool is picked up, with or without a *)
(* Stop in between.                                                        *)
AllPickedUp ==
    \A e \in Executors : (pool # "initialized" /\ Given(e)) ~> runs[e] > 0

(* The inductive invariant behind StopDrains: workers only leave a queue   *)
(* that is closed and empty, it is closed only by Stop, and what is still  *)
(* in it has never run.                                                    *)
PoolInv ==
    /\ PoolTypeOK
    /\ queueClosed <=> pool \in {"stopping", "stopped"}
    /\ \A w \in Workers : worker[w] \in {"signalling", "ended"} => queueClosed /\ Len(queue) = 0
    /\ \A w \in Workers : worker[w] # "executing" => executor[w] = None
    /\ \A w \in Workers : worker[w] = "created" <=> pool = "initialized"
    /\ pool = "stopped" => \A w \in Workers : worker[w] = "ended"
    /\ \A e \in Executors : runs[e] <= 1
    /\ \A i \in 1 .. Len(queue) : runs[queue[i]] = 0

=============================================================================
