--------------------------- MODULE WorkerPoolProofs ---------------------------
(***************************************************************************)
(* Proofs about WorkerPool.tla, for every configured number of workers and *)
(* every set of executors.                                                 *)
(***************************************************************************)
EXTENDS WorkerPool, SequenceTheorems, TLAPS

(* size gives at least one worker, and never more than was asked for (or   *)
(* than there are CPUs), for every configuration that is not negative.     *)
THEOREM SizeIsPositive ==
    ASSUME NEW wNum \in Nat, NEW intMode \in BOOLEAN
    PROVE  /\ size(wNum, intMode) \in Nat \ {0}
           /\ size(wNum, intMode) <= IF wNum = 0 THEN NumCPU ELSE wNum
BY PoolAssumption DEF size

(* A pool has a worker.                                                    *)
LEMMA WorkersExist == \E w \in Workers : TRUE
<1>1. size(WNum, IntMode) \in Nat \ {0}
  BY SizeIsPositive, PoolAssumption
<1>2. 0 \in Workers
  BY <1>1 DEF Workers
<1>3. QED
  BY <1>2

(* Appending to a queue that is not full.                                  *)
LEMMA AppendToEmpty ==
    ASSUME NEW q \in Seq(Executors), NEW e \in Executors, Len(q) < QueueCap
    PROVE  /\ Append(q, e) \in Seq(Executors)
           /\ Len(Append(q, e)) = 1 /\ Append(q, e)[1] = e
BY DEF QueueCap

(* Receiving from a queue that is not empty.                               *)
LEMMA ReceiveLast ==
    ASSUME NEW q \in Seq(Executors), q # <<>>, Len(q) <= QueueCap
    PROVE  /\ Len(q) = 1 /\ Head(q) = q[1] /\ Head(q) \in Executors
           /\ Tail(q) \in Seq(Executors) /\ Len(Tail(q)) = 0
<1>1. Len(q) \in Nat \ {0}
  BY EmptySeq
<1>2. Len(q) = 1
  BY <1>1 DEF QueueCap
<1>3. Head(q) = q[1]
  BY <1>2
<1>4. Head(q) \in Executors /\ Tail(q) \in Seq(Executors) /\ Len(Tail(q)) = Len(q) - 1
  BY HeadTailProperties
<1>5. QED
  BY <1>2, <1>3, <1>4

(* The pool as Initialize makes it.                                        *)
LEMMA InitPoolInv == PoolInit => PoolInv
<1> SUFFICES ASSUME PoolInit PROVE PoolInv
  OBVIOUS
<1>0. <<>> \in Seq(Executors) /\ Len(<<>>) = 0
  BY EmptySeq
<1>1. queue \in Seq(Executors) /\ Len(queue) = 0
  BY <1>0 DEF PoolInit
<1>2. PoolTypeOK
  <2>1. worker \in [Workers -> WorkerStates] /\ executor \in [Workers -> Executors \cup {None}]
    BY DEF PoolInit, WorkerStates
  <2>2. Len(queue) <= QueueCap
    BY <1>1 DEF QueueCap
  <2>3. QED
    BY <1>1, <2>1, <2>2 DEF PoolInit, PoolTypeOK, PoolStates
<1>3. QED
  BY <1>1, <1>2 DEF PoolInit, PoolInv

(* Every step of the pool and its client keeps the invariant.              *)
LEMMA NextPoolInv == PoolInv /\ [PoolNext]_poolVars => PoolInv'
<1> SUFFICES ASSUME PoolInv, [PoolNext]_poolVars PROVE PoolInv'
  OBVIOUS
<1> USE DEF PoolInv, PoolTypeOK, WorkerStates
<1>1. CASE Start
  <2>1. worker' \in [Workers -> WorkerStates] /\ \A w \in Workers : worker'[w] = "receiving"
    BY <1>1 DEF Start
  <2>2. QED
    BY <1>1, <2>1 DEF Start, PoolStates
<1>2. ASSUME NEW e \in Executors, ClientAppend(e) PROVE PoolInv'
  <2>1. runs[e] = 0
    BY <1>2 DEF ClientAppend, Given
  <2>2. /\ queue' \in Seq(Executors) /\ Len(queue') = 1 /\ queue'[1] = e
    BY <1>2, AppendToEmpty DEF ClientAppend, AppendExecutor
  <2>3. QED
    BY <1>2, <2>1, <2>2 DEF ClientAppend, AppendExecutor, QueueCap
<1>3. ASSUME NEW w \in Workers, Receive(w) PROVE PoolInv'
  <2>1. /\ Head(queue) \in Executors /\ runs[Head(queue)] = 0
        /\ queue' \in Seq(Executors) /\ Len(queue') = 0
    BY <1>3, ReceiveLast DEF Receive
  <2>2. PoolTypeOK'
    BY <1>3, <2>1 DEF Receive, QueueCap
  <2>3. QED
    BY <1>3, <2>1, <2>2 DEF Receive
<1>4. ASSUME NEW w \in Workers, Finish(w) PROVE PoolInv'
  BY <1>4 DEF Finish
<1>5. ASSUME NEW w \in Workers, QueueDrained(w) PROVE PoolInv'
  <2>1. Len(queue) = 0
    BY <1>5, EmptySeq DEF QueueDrained
  <2>2. QED
    BY <1>5, <2>1 DEF QueueDrained
<1>6. ASSUME NEW w \in Workers, Acknowledge(w) PROVE PoolInv'
  BY <1>6 DEF Acknowledge
<1>7. CASE Stop
  BY <1>7 DEF Stop, PoolStates
<1>8. CASE StopReturn
  BY <1>8 DEF StopReturn, PoolStates
<1>9. CASE UNCHANGED poolVars
  BY <1>9 DEF poolVars
<1>10. QED
  BY <1>1, <1>2, <1>3, <1>4, <1>5, <1>6, <1>7, <1>8, <1>9
  DEF PoolNext, PoolWorkerStep, PoolTerminated

(* The invariant holds of every pool.                                      *)
THEOREM PoolInvariance == PoolSpec => []PoolInv
BY InitPoolInv, NextPoolInv, PTL DEF PoolSpec, PoolSafety

(* Stop returns only when everything that was appended has been run, once, *)
(* and every worker has left: for any number of workers.                   *)
THEOREM PoolStopDrains == PoolSpec => []StopDrains
<1>1. PoolInv => StopDrains
  <2> SUFFICES ASSUME PoolInv, pool = "stopped" PROVE StopDrains
    BY DEF StopDrains
  <2>1. \A w \in Workers : worker[w] = "ended" /\ executor[w] = None
    BY DEF PoolInv
  <2>2. Len(queue) = 0
    BY <2>1, WorkersExist DEF PoolInv
  <2>3. ASSUME NEW e \in Executors, Given(e) PROVE runs[e] = 1
    BY <2>2, <2>3 DEF Given, PoolInv, PoolTypeOK
  <2>4. QED
    BY <2>1, <2>3 DEF StopDrains
<1>2. QED
  BY <1>1, PoolInvariance, PTL
=============================================================================
