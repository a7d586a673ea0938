----------------------------- MODULE EngineProofs -----------------------------
(***************************************************************************)
(* Proofs about Engine.tla, for any number of workers and any finite set   *)
(* of mutants: EngineInv is inductive, and the safety properties and the   *)
(* refinement of MutationRun.tla follow from it.                           *)
(***************************************************************************)
EXTENDS EngineInvariant, WorkerPoolProofs, FiniteSetTheorems

USE DEF Mutants

-----------------------------------------------------------------------------
(* Counting *)

(* The mutants a step function counts as outstanding.                      *)
OutstandingSteps == {"accepted", "queued"} \cup ExecutorSteps
Out(f) == {m \in Mutants : f[m] \in OutstandingSteps}

(* The outstanding mutants are finitely many, so wg counts them in Nat.    *)
LEMMA OutFinite ==
    ASSUME NEW f
    PROVE  IsFiniteSet(Out(f)) /\ Cardinality(Out(f)) \in Nat
<1>1. Out(f) \subseteq Executors
  BY DEF Out
<1>2. IsFiniteSet(Out(f))
  BY <1>1, EngineAssumption, FS_Subset
<1>3. QED
  BY <1>2, FS_CardinalityType

(* A mutant that becomes outstanding adds one.                             *)
LEMMA OutAdd ==
    ASSUME NEW f \in [Mutants -> Steps], NEW x \in Mutants, NEW s \in OutstandingSteps,
           f[x] \notin OutstandingSteps
    PROVE  Cardinality(Out([f EXCEPT ![x] = s])) = Cardinality(Out(f)) + 1
<1>1. Out([f EXCEPT ![x] = s]) = Out(f) \cup {x}
  BY DEF Out
<1>2. x \notin Out(f)
  BY DEF Out
<1>3. QED
  BY <1>1, <1>2, OutFinite, FS_AddElement

(* A mutant that stops being outstanding takes one away.                   *)
LEMMA OutRemove ==
    ASSUME NEW f \in [Mutants -> Steps], NEW x \in Mutants, NEW s, s \notin
           OutstandingSteps,
           f[x] \in OutstandingSteps
    PROVE  Cardinality(Out([f EXCEPT ![x] = s])) = Cardinality(Out(f)) - 1
<1>1. Out([f EXCEPT ![x] = s]) = Out(f) \ {x}
  BY DEF Out
<1>2. x \in Out(f)
  BY DEF Out
<1>3. QED
  BY <1>1, <1>2, OutFinite, FS_RemoveElement

(* Any other move of a mutant leaves the outstanding mutants as they are.  *)
LEMMA OutSame ==
    ASSUME NEW f \in [Mutants -> Steps], NEW x \in Mutants, NEW s,
           f[x] \in OutstandingSteps <=> s \in OutstandingSteps
    PROVE  Out([f EXCEPT ![x] = s]) = Out(f)
BY DEF Out

(* Outstanding, unfolded to the step function.                             *)
LEMMA OutIsOutstanding == Outstanding = Out(step)
BY DEF Outstanding, Out, OutstandingSteps

-----------------------------------------------------------------------------
(* The one-place queue *)

(* Appending to a queue that is not full makes it a queue of one.          *)
LEMMA QueueAppend ==
    ASSUME NEW q \in Seq(Mutants), NEW e \in Mutants, Len(q) < QueueCap
    PROVE  /\ Append(q, e) \in Seq(Mutants)
           /\ Len(q) = 0 /\ Len(Append(q, e)) = 1
           /\ Append(q, e)[1] = e
BY DEF QueueCap

(* Receiving from a queue that is not empty takes its only element.        *)
LEMMA QueueReceive ==
    ASSUME NEW q \in Seq(Mutants), q # <<>>, Len(q) <= QueueCap
    PROVE  /\ Len(q) = 1 /\ Head(q) = q[1] /\ Head(q) \in Mutants
           /\ Tail(q) \in Seq(Mutants) /\ Len(Tail(q)) = 0
<1>1. Len(q) = 1
  <2>1. Len(q) \in Nat \ {0}
    BY EmptySeq
  <2>2. QED
    BY <2>1 DEF QueueCap
<1>2. Head(q) = q[1]
  BY <1>1
<1>3. Head(q) \in Mutants /\ Tail(q) \in Seq(Mutants) /\ Len(Tail(q)) = Len(q) - 1
  BY HeadTailProperties
<1>4. QED
  BY <1>1, <1>2, <1>3

-----------------------------------------------------------------------------
(* The invariant holds initially.                                          *)
LEMMA InitEngineInv == Init => EngineInv
<1> SUFFICES ASSUME Init PROVE EngineInv
  OBVIOUS
<1>1. PoolTypeOK
  <2>1. <<>> \in Seq(Executors) /\ Len(<<>>) = 0
    BY EmptySeq
  <2>2. worker \in [Workers -> WorkerStates] /\ executor \in [Workers -> Executors \cup {None}]
    BY DEF Init, PoolInit, WorkerStates
  <2>3. queue \in Seq(Executors) /\ Len(queue) <= QueueCap
    BY <2>1 DEF Init, PoolInit, QueueCap
  <2>4. QED
    BY <2>2, <2>3 DEF Init, PoolInit, PoolTypeOK, PoolStates
<1>8. TypeOK
  BY <1>1 DEF Init, TypeOK, Steps, FeederSteps, Status
<1>2. Outstanding = {}
  BY DEF Init, Outstanding, ExecutorSteps
<1>3. CountInv
  BY <1>2, FS_EmptySet DEF Init, CountInv
<1>4. WalkerInv /\ FeederInv /\ QueueInv /\ WorkerInv
  BY DEF Init, PoolInit, WalkerInv, FeederInv, QueueInv, WorkerInv
<1>5. PhaseInv /\ NoSendOnClosedChannel
  BY DEF Init, PoolInit, PhaseInv, NoSendOnClosedChannel
<1>6. ReportInv /\ StatusInv
  BY DEF Init, ReportInv, StatusInv, FeederSteps, FoundStatus
<1>7. QED
  BY <1>8, <1>3, <1>4, <1>5, <1>6 DEF EngineInv

(* The walker offers a mutant nobody has seen.                             *)
LEMMA FindMutationKeepsInv ==
    ASSUME EngineInv, NEW m \in Mutants, NEW covered \in BOOLEAN, NEW changed \in BOOLEAN,
           FindMutation(m, covered, changed)
    PROVE  EngineInv'
<1> USE DEF FindMutation, poolVars
<1>1. m \in Mutants /\ step[m] = "unseen"
  BY DEF EngineInv
<1>a. mutationStatus(covered, changed) \in FoundStatus
  BY DEF mutationStatus, FoundStatus
<1>2. Outstanding' = Outstanding
  BY <1>1, OutSame, OutIsOutstanding
  DEF EngineInv, TypeOK, Outstanding, Out, OutstandingSteps, ExecutorSteps
<1>3. CountInv' /\ wg' \in Nat
  BY <1>2, OutFinite, OutIsOutstanding DEF EngineInv, TypeOK, CountInv
<1>4. TypeOK'
  BY <1>1, <1>3, <1>a DEF EngineInv, TypeOK, PoolTypeOK, Steps, FeederSteps, ExecutorSteps,
     FinalSteps,
     WorkerStates, PoolStates, Status, FoundStatus, TestedStatus, QueueCap
<1>5. WalkerInv' /\ FeederInv'
  BY <1>1, <1>a DEF EngineInv, TypeOK, WalkerInv, FeederInv, PhaseInv
<1>6. QueueInv' /\ WorkerInv'
  BY <1>1, <1>a DEF EngineInv, TypeOK, PoolTypeOK, QueueInv, WorkerInv, ExecutorSteps
<1>7. PhaseInv'
  BY <1>1, <1>3, OutFinite, OutIsOutstanding
  DEF EngineInv, TypeOK, PhaseInv, CountInv, WalkerInv
<1>8. NoSendOnClosedChannel'
  BY <1>1, <1>2, <1>3, OutFinite, OutIsOutstanding, FS_EmptySet
  DEF EngineInv, TypeOK, CountInv, PhaseInv, NoSendOnClosedChannel
<1>9. ReportInv' /\ StatusInv'
  <2>1. ReportInv'
    BY <1>1 DEF EngineInv, TypeOK, ReportInv
  <2>2. StatusInv'
    BY <1>1, <1>a DEF EngineInv, TypeOK, ReportInv, StatusInv, Reportable, FeederSteps,
       FoundStatus
  <2>3. QED
    BY <2>1, <2>2
<1>10. QED
  BY <1>3, <1>4, <1>5, <1>6, <1>7, <1>8, <1>9 DEF EngineInv

(* The walk ends.                                                          *)
LEMMA WalkEndKeepsInv ==
    ASSUME EngineInv, WalkEnd
    PROVE  EngineInv'
<1> USE DEF WalkEnd, poolVars
<1>1. step' = step /\ Outstanding' = Outstanding
  BY DEF Outstanding
<1>2. CountInv' /\ wg' \in Nat
  BY <1>1, OutFinite, OutIsOutstanding DEF EngineInv, TypeOK, CountInv, PhaseInv
<1>4. TypeOK'
  BY <1>1, <1>2 DEF EngineInv, TypeOK, PoolTypeOK, Steps, FeederSteps, ExecutorSteps,
     FinalSteps,
     WorkerStates, PoolStates, Status, FoundStatus, TestedStatus, QueueCap
<1>5. WalkerInv' /\ FeederInv'
  BY <1>1 DEF EngineInv, TypeOK, WalkerInv, FeederInv, PhaseInv
<1>6. QueueInv' /\ WorkerInv'
  BY <1>1 DEF EngineInv, TypeOK, PoolTypeOK, QueueInv, WorkerInv, ExecutorSteps
<1>7. PhaseInv'
  BY <1>1, <1>2, OutFinite, OutIsOutstanding
  DEF EngineInv, TypeOK, PhaseInv, CountInv, WalkerInv
<1>8. NoSendOnClosedChannel'
  BY <1>1, <1>2, OutFinite, OutIsOutstanding, FS_EmptySet
  DEF EngineInv, TypeOK, CountInv, PhaseInv, NoSendOnClosedChannel
<1>9. ReportInv' /\ StatusInv'
  BY <1>1 DEF EngineInv, TypeOK, ReportInv, StatusInv, Reportable, FoundStatus,
     TestedStatus,
     FeederSteps, Status, NotCovered, Runnable, Skipped, Lived, Killed, NotViable, TimedOut
<1>10. QED
  BY <1>2, <1>4, <1>5, <1>6, <1>7, <1>8, <1>9 DEF EngineInv

(* executeTests counts the feeder.                                         *)
LEMMA ExecuteTestsKeepsInv ==
    ASSUME EngineInv, ExecuteTests
    PROVE  EngineInv'
<1> USE DEF ExecuteTests, Start
<1>1. step' = step /\ Outstanding' = Outstanding
  BY DEF Outstanding
<1>2. CountInv' /\ wg' \in Nat
  BY <1>1, OutFinite, OutIsOutstanding DEF EngineInv, TypeOK, CountInv, PhaseInv
<1>4. TypeOK'
  BY <1>1, <1>2 DEF EngineInv, TypeOK, PoolTypeOK, Steps, FeederSteps, ExecutorSteps,
     FinalSteps,
     WorkerStates, PoolStates, Status, FoundStatus, TestedStatus, QueueCap
<1>5. WalkerInv' /\ FeederInv'
  BY <1>1 DEF EngineInv, TypeOK, WalkerInv, FeederInv, PhaseInv
<1>6. QueueInv' /\ WorkerInv'
  BY <1>1 DEF EngineInv, TypeOK, PoolTypeOK, QueueInv, WorkerInv, ExecutorSteps
<1>7. PhaseInv'
  BY <1>1, <1>2, OutFinite, OutIsOutstanding
  DEF EngineInv, TypeOK, PhaseInv, CountInv, WalkerInv
<1>8. NoSendOnClosedChannel'
  BY <1>1, <1>2, OutFinite, OutIsOutstanding, FS_EmptySet
  DEF EngineInv, TypeOK, CountInv, PhaseInv, NoSendOnClosedChannel
<1>9. ReportInv' /\ StatusInv'
  BY <1>1 DEF EngineInv, TypeOK, ReportInv, StatusInv, Reportable, FoundStatus,
     TestedStatus,
     FeederSteps, Status, NotCovered, Runnable, Skipped, Lived, Killed, NotViable, TimedOut
<1>10. QED
  BY <1>2, <1>4, <1>5, <1>6, <1>7, <1>8, <1>9 DEF EngineInv

(* The feeder takes the offered mutant.                                    *)
LEMMA FeederReceiveKeepsInv ==
    ASSUME EngineInv, FeederReceive
    PROVE  EngineInv'
<1> USE DEF FeederReceive, poolVars
<1>1. offered \in Mutants /\ step[offered] = "offered"
  BY DEF EngineInv, WalkerInv
<1>2. Outstanding' = Outstanding
  BY <1>1, OutSame, OutIsOutstanding
  DEF EngineInv, TypeOK, Outstanding, Out, OutstandingSteps, ExecutorSteps
<1>3. CountInv' /\ wg' \in Nat
  BY <1>2, OutFinite, OutIsOutstanding DEF EngineInv, TypeOK, CountInv
<1>4. TypeOK'
  BY <1>1, <1>3 DEF EngineInv, TypeOK, PoolTypeOK, Steps, FeederSteps, ExecutorSteps,
     FinalSteps,
     WorkerStates, PoolStates, Status, FoundStatus, TestedStatus, QueueCap
<1>5. WalkerInv' /\ FeederInv'
  BY <1>1 DEF EngineInv, TypeOK, WalkerInv, FeederInv, PhaseInv
<1>6. QueueInv' /\ WorkerInv'
  BY <1>1 DEF EngineInv, TypeOK, PoolTypeOK, QueueInv, WorkerInv, ExecutorSteps
<1>7. PhaseInv'
  BY <1>1, <1>3, OutFinite, OutIsOutstanding
  DEF EngineInv, TypeOK, PhaseInv, CountInv, WalkerInv
<1>8. NoSendOnClosedChannel'
  BY <1>1, <1>2, <1>3, OutFinite, OutIsOutstanding, FS_EmptySet
  DEF EngineInv, TypeOK, CountInv, PhaseInv, NoSendOnClosedChannel
<1>9. ReportInv' /\ StatusInv'
  BY <1>1 DEF EngineInv, TypeOK, ReportInv, StatusInv, Reportable, FoundStatus,
     TestedStatus,
     FeederSteps, Status, NotCovered, Runnable, Skipped, Lived, Killed, NotViable, TimedOut
<1>10. QED
  BY <1>3, <1>4, <1>5, <1>6, <1>7, <1>8, <1>9 DEF EngineInv

(* The feeder counts the mutant in.                                        *)
LEMMA FeederAcceptKeepsInv ==
    ASSUME EngineInv, FeederAccept
    PROVE  EngineInv'
<1> USE DEF FeederAccept, poolVars
<1>1. feeding \in Mutants /\ step[feeding] = "received"
  BY DEF EngineInv, FeederInv
<1>2. Cardinality(Outstanding') = Cardinality(Outstanding) + 1
  BY <1>1, OutAdd, OutIsOutstanding
  DEF EngineInv, TypeOK, Outstanding, Out, OutstandingSteps, ExecutorSteps
<1>3. CountInv' /\ wg' \in Nat
  BY <1>2, OutFinite, OutIsOutstanding DEF EngineInv, TypeOK, CountInv
<1>4. TypeOK'
  BY <1>1, <1>3 DEF EngineInv, TypeOK, PoolTypeOK, Steps, FeederSteps, ExecutorSteps,
     FinalSteps,
     WorkerStates, PoolStates, Status, FoundStatus, TestedStatus, QueueCap
<1>5. WalkerInv' /\ FeederInv'
  BY <1>1 DEF EngineInv, TypeOK, WalkerInv, FeederInv, PhaseInv
<1>6. QueueInv' /\ WorkerInv'
  BY SMTT(30), <1>1 DEF EngineInv, TypeOK, PoolTypeOK, QueueInv, WorkerInv, ExecutorSteps
<1>7. PhaseInv'
  BY <1>1, <1>3, OutFinite, OutIsOutstanding
  DEF EngineInv, TypeOK, PhaseInv, CountInv, WalkerInv
<1>8. NoSendOnClosedChannel'
  BY <1>1, <1>2, <1>3, OutFinite, OutIsOutstanding, FS_EmptySet
  DEF EngineInv, TypeOK, CountInv, PhaseInv, NoSendOnClosedChannel
<1>9. ReportInv' /\ StatusInv'
  BY <1>1 DEF EngineInv, TypeOK, ReportInv, StatusInv, Reportable, FoundStatus,
     TestedStatus,
     FeederSteps, Status, NotCovered, Runnable, Skipped, Lived, Killed, NotViable, TimedOut
<1>10. QED
  BY <1>3, <1>4, <1>5, <1>6, <1>7, <1>8, <1>9 DEF EngineInv

(* The feeder hands the mutant to the pool.                                *)
LEMMA FeederAppendKeepsInv ==
    ASSUME EngineInv, FeederAppend
    PROVE  EngineInv'
<1> USE DEF FeederAppend, AppendExecutor
<1>1. feeding \in Mutants /\ step[feeding] = "accepted"
  BY QueueAppend DEF EngineInv, FeederInv
<1>a. Len(queue) = 0 /\ Len(queue') = 1 /\ queue'[1] = feeding /\ queue' \in Seq(Mutants)
  BY <1>1, QueueAppend DEF EngineInv, TypeOK, PoolTypeOK
<1>2. Outstanding' = Outstanding
  BY <1>1, OutSame, OutIsOutstanding
  DEF EngineInv, TypeOK, Outstanding, Out, OutstandingSteps, ExecutorSteps
<1>3. CountInv' /\ wg' \in Nat
  BY <1>2, OutFinite, OutIsOutstanding DEF EngineInv, TypeOK, CountInv
<1>4. TypeOK'
  BY <1>1, <1>3, <1>a DEF EngineInv, TypeOK, PoolTypeOK, Steps, FeederSteps, ExecutorSteps,
     FinalSteps,
     WorkerStates, PoolStates, Status, FoundStatus, TestedStatus, QueueCap
<1>5. WalkerInv' /\ FeederInv'
  BY <1>1, <1>a DEF EngineInv, TypeOK, WalkerInv, FeederInv, PhaseInv
<1>6. QueueInv' /\ WorkerInv'
  BY <1>1, <1>a DEF EngineInv, TypeOK, PoolTypeOK, QueueInv, WorkerInv, ExecutorSteps
<1>7. PhaseInv'
  BY <1>1, <1>3, OutFinite, OutIsOutstanding
  DEF EngineInv, TypeOK, PhaseInv, CountInv, WalkerInv
<1>8. NoSendOnClosedChannel'
  BY <1>1, <1>2, <1>3, OutFinite, OutIsOutstanding, FS_EmptySet
  DEF EngineInv, TypeOK, CountInv, PhaseInv, NoSendOnClosedChannel
<1>9. ReportInv' /\ StatusInv'
  BY <1>1, <1>a DEF EngineInv, TypeOK, ReportInv, StatusInv, Reportable, FoundStatus,
     TestedStatus,
     FeederSteps, Status, NotCovered, Runnable, Skipped, Lived, Killed, NotViable, TimedOut
<1>10. QED
  BY <1>3, <1>4, <1>5, <1>6, <1>7, <1>8, <1>9 DEF EngineInv

(* The feeder stops the pool and drops the mutant at hand.                 *)
LEMMA FeederStopKeepsInv ==
    ASSUME EngineInv, FeederStop
    PROVE  EngineInv'
<1> USE DEF FeederStop, Stop
<1>1. feeding \in Mutants /\ step[feeding] = "received"
  BY DEF EngineInv, FeederInv
<1>2. Outstanding' = Outstanding
  BY <1>1, OutSame, OutIsOutstanding
  DEF EngineInv, TypeOK, Outstanding, Out, OutstandingSteps, ExecutorSteps
<1>3. CountInv' /\ wg' \in Nat
  BY <1>2, OutFinite, OutIsOutstanding DEF EngineInv, TypeOK, CountInv
<1>4. TypeOK'
  BY <1>1, <1>3 DEF EngineInv, TypeOK, PoolTypeOK, Steps, FeederSteps, ExecutorSteps,
     FinalSteps,
     WorkerStates, PoolStates, Status, FoundStatus, TestedStatus, QueueCap
<1>5. WalkerInv' /\ FeederInv'
  BY <1>1 DEF EngineInv, TypeOK, WalkerInv, FeederInv, PhaseInv
<1>6. QueueInv' /\ WorkerInv'
  BY <1>1 DEF EngineInv, TypeOK, PoolTypeOK, QueueInv, WorkerInv, ExecutorSteps
<1>7. PhaseInv'
  BY <1>1, <1>3, OutFinite, OutIsOutstanding
  DEF EngineInv, TypeOK, PhaseInv, CountInv, WalkerInv
<1>8. NoSendOnClosedChannel'
  BY <1>1, <1>2, <1>3, OutFinite, OutIsOutstanding, FS_EmptySet
  DEF EngineInv, TypeOK, CountInv, PhaseInv, NoSendOnClosedChannel
<1>9. ReportInv' /\ StatusInv'
  BY <1>1 DEF EngineInv, TypeOK, ReportInv, StatusInv, Reportable, FoundStatus,
     TestedStatus,
     FeederSteps, Status, NotCovered, Runnable, Skipped, Lived, Killed, NotViable, TimedOut
<1>10. QED
  BY <1>3, <1>4, <1>5, <1>6, <1>7, <1>8, <1>9 DEF EngineInv

(* The feeder counts itself out after Stop.                                *)
LEMMA FeederStoppedKeepsInv ==
    ASSUME EngineInv, FeederStopped
    PROVE  EngineInv'
<1> USE DEF FeederStopped, StopReturn
<1>1. step' = step /\ Outstanding' = Outstanding
  BY DEF Outstanding
<1>2. CountInv' /\ wg' \in Nat
  BY <1>1, OutFinite, OutIsOutstanding DEF EngineInv, TypeOK, CountInv, PhaseInv
<1>4. TypeOK'
  BY <1>1, <1>2 DEF EngineInv, TypeOK, PoolTypeOK, Steps, FeederSteps, ExecutorSteps,
     FinalSteps,
     WorkerStates, PoolStates, Status, FoundStatus, TestedStatus, QueueCap
<1>5. WalkerInv' /\ FeederInv'
  BY <1>1 DEF EngineInv, TypeOK, WalkerInv, FeederInv, PhaseInv
<1>6. QueueInv' /\ WorkerInv'
  BY <1>1 DEF EngineInv, TypeOK, PoolTypeOK, QueueInv, WorkerInv, ExecutorSteps
<1>7. PhaseInv'
  BY <1>1, <1>2, OutFinite, OutIsOutstanding
  DEF EngineInv, TypeOK, PhaseInv, CountInv, WalkerInv
<1>8. NoSendOnClosedChannel'
  BY <1>1, <1>2, OutFinite, OutIsOutstanding, FS_EmptySet
  DEF EngineInv, TypeOK, CountInv, PhaseInv, NoSendOnClosedChannel
<1>9. ReportInv' /\ StatusInv'
  BY <1>1 DEF EngineInv, TypeOK, ReportInv, StatusInv, Reportable, FoundStatus,
     TestedStatus,
     FeederSteps, Status, NotCovered, Runnable, Skipped, Lived, Killed, NotViable, TimedOut
<1>10. QED
  BY <1>2, <1>4, <1>5, <1>6, <1>7, <1>8, <1>9 DEF EngineInv

(* The feeder counts itself out at the end of the stream.                  *)
LEMMA FeederEndKeepsInv ==
    ASSUME EngineInv, FeederEnd
    PROVE  EngineInv'
<1> USE DEF FeederEnd, poolVars
<1>1. step' = step /\ Outstanding' = Outstanding
  BY DEF Outstanding
<1>2. CountInv' /\ wg' \in Nat
  BY <1>1, OutFinite, OutIsOutstanding DEF EngineInv, TypeOK, CountInv, PhaseInv
<1>4. TypeOK'
  BY <1>1, <1>2 DEF EngineInv, TypeOK, PoolTypeOK, Steps, FeederSteps, ExecutorSteps,
     FinalSteps,
     WorkerStates, PoolStates, Status, FoundStatus, TestedStatus, QueueCap
<1>5. WalkerInv' /\ FeederInv'
  BY <1>1 DEF EngineInv, TypeOK, WalkerInv, FeederInv, PhaseInv
<1>6. QueueInv' /\ WorkerInv'
  BY <1>1 DEF EngineInv, TypeOK, PoolTypeOK, QueueInv, WorkerInv, ExecutorSteps
<1>7. PhaseInv'
  BY <1>1, <1>2, OutFinite, OutIsOutstanding
  DEF EngineInv, TypeOK, PhaseInv, CountInv, WalkerInv
<1>8. NoSendOnClosedChannel'
  BY <1>1, <1>2, OutFinite, OutIsOutstanding, FS_EmptySet
  DEF EngineInv, TypeOK, CountInv, PhaseInv, NoSendOnClosedChannel
<1>9. ReportInv' /\ StatusInv'
  BY <1>1 DEF EngineInv, TypeOK, ReportInv, StatusInv, Reportable, FoundStatus,
     TestedStatus,
     FeederSteps, Status, NotCovered, Runnable, Skipped, Lived, Killed, NotViable, TimedOut
<1>10. QED
  BY <1>2, <1>4, <1>5, <1>6, <1>7, <1>8, <1>9 DEF EngineInv

(* wg.Wait() returns only when nothing is outstanding.                     *)
LEMMA CloserWaitedKeepsInv ==
    ASSUME EngineInv, CloserWaited
    PROVE  EngineInv'
<1> USE DEF CloserWaited, poolVars
<1>1. step' = step /\ Outstanding' = Outstanding
  BY DEF Outstanding
<1>2. CountInv' /\ wg' \in Nat
  BY <1>1, OutFinite, OutIsOutstanding DEF EngineInv, TypeOK, CountInv, PhaseInv
<1>4. TypeOK'
  BY <1>1, <1>2 DEF EngineInv, TypeOK, PoolTypeOK, Steps, FeederSteps, ExecutorSteps,
     FinalSteps,
     WorkerStates, PoolStates, Status, FoundStatus, TestedStatus, QueueCap
<1>5. WalkerInv' /\ FeederInv'
  BY <1>1 DEF EngineInv, TypeOK, WalkerInv, FeederInv, PhaseInv
<1>6. QueueInv' /\ WorkerInv'
  BY <1>1 DEF EngineInv, TypeOK, PoolTypeOK, QueueInv, WorkerInv, ExecutorSteps
<1>7. PhaseInv'
  BY <1>1, <1>2, OutFinite, OutIsOutstanding
  DEF EngineInv, TypeOK, PhaseInv, CountInv, WalkerInv
<1>8. NoSendOnClosedChannel'
  BY <1>1, <1>2, OutFinite, OutIsOutstanding, FS_EmptySet
  DEF EngineInv, TypeOK, CountInv, PhaseInv, NoSendOnClosedChannel
<1>9. ReportInv' /\ StatusInv'
  BY <1>1 DEF EngineInv, TypeOK, ReportInv, StatusInv, Reportable, FoundStatus,
     TestedStatus,
     FeederSteps, Status, NotCovered, Runnable, Skipped, Lived, Killed, NotViable, TimedOut
<1>10. QED
  BY <1>2, <1>4, <1>5, <1>6, <1>7, <1>8, <1>9 DEF EngineInv

(* outCh is closed.                                                        *)
LEMMA CloserCloseKeepsInv ==
    ASSUME EngineInv, CloserClose
    PROVE  EngineInv'
<1> USE DEF CloserClose, poolVars
<1>1. step' = step /\ Outstanding' = Outstanding
  BY DEF Outstanding
<1>2. CountInv' /\ wg' \in Nat
  BY <1>1, OutFinite, OutIsOutstanding DEF EngineInv, TypeOK, CountInv, PhaseInv
<1>4. TypeOK'
  BY <1>1, <1>2 DEF EngineInv, TypeOK, PoolTypeOK, Steps, FeederSteps, ExecutorSteps,
     FinalSteps,
     WorkerStates, PoolStates, Status, FoundStatus, TestedStatus, QueueCap
<1>5. WalkerInv' /\ FeederInv'
  BY <1>1 DEF EngineInv, TypeOK, WalkerInv, FeederInv, PhaseInv
<1>6. QueueInv' /\ WorkerInv'
  BY <1>1 DEF EngineInv, TypeOK, PoolTypeOK, QueueInv, WorkerInv, ExecutorSteps
<1>7. PhaseInv'
  BY <1>1, <1>2, OutFinite, OutIsOutstanding
  DEF EngineInv, TypeOK, PhaseInv, CountInv, WalkerInv
<1>8. NoSendOnClosedChannel'
  BY <1>1, <1>2, OutFinite, OutIsOutstanding, FS_EmptySet
  DEF EngineInv, TypeOK, CountInv, PhaseInv, NoSendOnClosedChannel
<1>9. ReportInv' /\ StatusInv'
  BY <1>1 DEF EngineInv, TypeOK, ReportInv, StatusInv, Reportable, FoundStatus,
     TestedStatus,
     FeederSteps, Status, NotCovered, Runnable, Skipped, Lived, Killed, NotViable, TimedOut
<1>10. QED
  BY <1>2, <1>4, <1>5, <1>6, <1>7, <1>8, <1>9 DEF EngineInv

(* Run returns.                                                            *)
LEMMA ReturnKeepsInv ==
    ASSUME EngineInv, Return
    PROVE  EngineInv'
<1> USE DEF Return, poolVars
<1>1. step' = step /\ Outstanding' = Outstanding
  BY DEF Outstanding
<1>2. CountInv' /\ wg' \in Nat
  BY <1>1, OutFinite, OutIsOutstanding DEF EngineInv, TypeOK, CountInv, PhaseInv
<1>4. TypeOK'
  BY <1>1, <1>2 DEF EngineInv, TypeOK, PoolTypeOK, Steps, FeederSteps, ExecutorSteps,
     FinalSteps,
     WorkerStates, PoolStates, Status, FoundStatus, TestedStatus, QueueCap
<1>5. WalkerInv' /\ FeederInv'
  BY <1>1 DEF EngineInv, TypeOK, WalkerInv, FeederInv, PhaseInv
<1>6. QueueInv' /\ WorkerInv'
  BY <1>1 DEF EngineInv, TypeOK, PoolTypeOK, QueueInv, WorkerInv, ExecutorSteps
<1>7. PhaseInv'
  BY <1>1, <1>2, OutFinite, OutIsOutstanding
  DEF EngineInv, TypeOK, PhaseInv, CountInv, WalkerInv
<1>8. NoSendOnClosedChannel'
  BY <1>1, <1>2, OutFinite, OutIsOutstanding, FS_EmptySet
  DEF EngineInv, TypeOK, CountInv, PhaseInv, NoSendOnClosedChannel
<1>9. ReportInv' /\ StatusInv'
  BY <1>1 DEF EngineInv, TypeOK, ReportInv, StatusInv, Reportable, FoundStatus,
     TestedStatus,
     FeederSteps, Status, NotCovered, Runnable, Skipped, Lived, Killed, NotViable, TimedOut
<1>10. QED
  BY <1>2, <1>4, <1>5, <1>6, <1>7, <1>8, <1>9 DEF EngineInv

(* A worker takes the queued mutant.                                       *)
LEMMA WorkerReceiveKeepsInv ==
    ASSUME EngineInv, NEW w \in Workers, WorkerReceive(w)
    PROVE  EngineInv'
<1> USE DEF WorkerReceive, Receive
<1>1. Head(queue) \in Mutants /\ step[Head(queue)] = "queued"
  BY QueueReceive DEF EngineInv, PoolTypeOK, QueueInv, TypeOK
<1>a. queue # <<>> /\ Len(queue) = 1 /\ Head(queue) = queue[1] /\ Len(queue') = 0 /\ queue' \in Seq(Mutants)
  BY QueueReceive DEF EngineInv, TypeOK, PoolTypeOK
<1>2. Outstanding' = Outstanding
  BY <1>1, OutSame, OutIsOutstanding
  DEF EngineInv, TypeOK, Outstanding, Out, OutstandingSteps, ExecutorSteps
<1>3. CountInv' /\ wg' \in Nat
  BY <1>2, OutFinite, OutIsOutstanding DEF EngineInv, TypeOK, CountInv
<1>4. TypeOK'
  <2>1. queue' \in Seq(Executors) /\ Len(queue') <= QueueCap
    BY <1>a DEF QueueCap
  <2>2. /\ worker' \in [Workers -> WorkerStates]
        /\ executor' \in [Workers -> Executors \cup {None}]
        /\ runs' \in [Executors -> Nat]
    BY SMTT(30), <1>1 DEF EngineInv, TypeOK, PoolTypeOK, WorkerStates
  <2>3. step' \in [Mutants -> Steps]
    BY <1>1 DEF EngineInv, TypeOK, Steps, ExecutorSteps
  <2>4. QED
    BY SMTT(30), <1>3, <2>1, <2>2, <2>3 DEF EngineInv, TypeOK, PoolTypeOK
<1>5. WalkerInv' /\ FeederInv'
  BY <1>1, <1>a DEF EngineInv, TypeOK, WalkerInv, FeederInv, PhaseInv
<1>6. QueueInv' /\ WorkerInv'
  <2>1. QueueInv'
    <3>1. \A i \in 1 .. Len(queue') : step'[queue'[i]] = "queued"
      BY <1>a
    <3>2. ASSUME NEW m \in Mutants, step'[m] = "queued"
          PROVE  FALSE
      <4>1. step[m] = "queued" /\ m # Head(queue)
        BY <1>1, <3>2 DEF EngineInv, TypeOK
      <4>2. PICK i \in 1 .. Len(queue) : queue[i] = m
        BY <4>1 DEF EngineInv, QueueInv
      <4>3. QED
        BY <1>a, <4>1, <4>2
    <3>3. QED
      BY <3>1, <3>2 DEF QueueInv
  <2>2. WorkerInv'
    BY ZenonT(30), <1>1, <1>a DEF EngineInv, TypeOK, PoolTypeOK, WorkerInv, ExecutorSteps
  <2>3. QED
    BY <2>1, <2>2
<1>7. PhaseInv'
  BY <1>1, <1>3, OutFinite, OutIsOutstanding
  DEF EngineInv, TypeOK, PhaseInv, CountInv, WalkerInv
<1>8. NoSendOnClosedChannel'
  BY <1>1, <1>2, <1>3, OutFinite, OutIsOutstanding, FS_EmptySet
  DEF EngineInv, TypeOK, CountInv, PhaseInv, NoSendOnClosedChannel
<1>9. ReportInv' /\ StatusInv'
  BY <1>1, <1>a DEF EngineInv, TypeOK, ReportInv, StatusInv, Reportable, FoundStatus,
     TestedStatus,
     FeederSteps, Status, NotCovered, Runnable, Skipped, Lived, Killed, NotViable, TimedOut
<1>10. QED
  BY <1>3, <1>4, <1>5, <1>6, <1>7, <1>8, <1>9 DEF EngineInv

(* The working directory is there.                                         *)
LEMMA GetWorkdirKeepsInv ==
    ASSUME EngineInv, NEW w \in Workers, GetWorkdir(w)
    PROVE  EngineInv'
<1> USE DEF GetWorkdir, At, SentUntested, poolVars
<1>1. executor[w] \in Mutants /\ step[executor[w]] \in ExecutorSteps
  BY DEF EngineInv, WorkerInv, ExecutorSteps
<1>2. Outstanding' = Outstanding
  BY <1>1, OutSame, OutIsOutstanding
  DEF EngineInv, TypeOK, Outstanding, Out, OutstandingSteps, ExecutorSteps
<1>3. CountInv' /\ wg' \in Nat
  BY <1>2, OutFinite, OutIsOutstanding DEF EngineInv, TypeOK, CountInv
<1>4. TypeOK'
  BY <1>1, <1>3 DEF EngineInv, TypeOK, PoolTypeOK, Steps, FeederSteps, ExecutorSteps,
     FinalSteps,
     WorkerStates, PoolStates, Status, FoundStatus, TestedStatus, QueueCap
<1>5. WalkerInv' /\ FeederInv'
  BY <1>1 DEF EngineInv, TypeOK, WalkerInv, FeederInv, PhaseInv
<1>6. QueueInv' /\ WorkerInv'
  BY SMTT(30), <1>1 DEF EngineInv, TypeOK, PoolTypeOK, QueueInv, WorkerInv, ExecutorSteps
<1>7. PhaseInv'
  BY <1>1, <1>3, OutFinite, OutIsOutstanding
  DEF EngineInv, TypeOK, PhaseInv, CountInv, WalkerInv
<1>8. NoSendOnClosedChannel'
  BY <1>1, <1>2, <1>3, OutFinite, OutIsOutstanding, FS_EmptySet
  DEF EngineInv, TypeOK, CountInv, PhaseInv, NoSendOnClosedChannel
<1>9. ReportInv' /\ StatusInv'
  BY <1>1 DEF EngineInv, TypeOK, ReportInv, StatusInv, Reportable, FoundStatus,
     TestedStatus,
     FeederSteps, Status, NotCovered, Runnable, Skipped, Lived, Killed, NotViable, TimedOut
<1>10. QED
  BY <1>3, <1>4, <1>5, <1>6, <1>7, <1>8, <1>9 DEF EngineInv

(* The working directory is not there.                                     *)
LEMMA GetWorkdirFailsKeepsInv ==
    ASSUME EngineInv, NEW w \in Workers, GetWorkdirFails(w)
    PROVE  EngineInv'
<1> USE DEF GetWorkdirFails, At, poolVars
<1>1. executor[w] \in Mutants /\ step[executor[w]] \in ExecutorSteps
  BY DEF EngineInv, WorkerInv, ExecutorSteps
<1>2. Outstanding' = Outstanding
  BY <1>1, OutSame, OutIsOutstanding
  DEF EngineInv, TypeOK, Outstanding, Out, OutstandingSteps, ExecutorSteps
<1>3. CountInv' /\ wg' \in Nat
  BY <1>2, OutFinite, OutIsOutstanding DEF EngineInv, TypeOK, CountInv
<1>4. TypeOK'
  BY <1>1, <1>3 DEF EngineInv, TypeOK, PoolTypeOK, Steps, FeederSteps, ExecutorSteps,
     FinalSteps,
     WorkerStates, PoolStates, Status, FoundStatus, TestedStatus, QueueCap
<1>5. WalkerInv' /\ FeederInv'
  BY <1>1 DEF EngineInv, TypeOK, WalkerInv, FeederInv, PhaseInv
<1>6. QueueInv' /\ WorkerInv'
  BY SMTT(30), <1>1 DEF EngineInv, TypeOK, PoolTypeOK, QueueInv, WorkerInv, ExecutorSteps
<1>7. PhaseInv'
  BY <1>1, <1>3, OutFinite, OutIsOutstanding
  DEF EngineInv, TypeOK, PhaseInv, CountInv, WalkerInv
<1>8. NoSendOnClosedChannel'
  BY <1>1, <1>2, <1>3, OutFinite, OutIsOutstanding, FS_EmptySet
  DEF EngineInv, TypeOK, CountInv, PhaseInv, NoSendOnClosedChannel
<1>9. ReportInv' /\ StatusInv'
  BY <1>1 DEF EngineInv, TypeOK, ReportInv, StatusInv, Reportable, FoundStatus,
     TestedStatus,
     FeederSteps, Status, NotCovered, Runnable, Skipped, Lived, Killed, NotViable, TimedOut
<1>10. QED
  BY <1>3, <1>4, <1>5, <1>6, <1>7, <1>8, <1>9 DEF EngineInv

(* The deferred wg.Done of a panicking executor.                           *)
LEMMA PanicDoneKeepsInv ==
    ASSUME EngineInv, NEW w \in Workers, PanicDone(w)
    PROVE  EngineInv'
<1> USE DEF PanicDone, At, poolVars
<1>1. executor[w] \in Mutants /\ step[executor[w]] \in ExecutorSteps
  BY DEF EngineInv, WorkerInv, ExecutorSteps
<1>2. Cardinality(Outstanding') = Cardinality(Outstanding) - 1
  <2>1. Outstanding' = Out(step') /\ Outstanding = Out(step)
    BY DEF Outstanding, Out, OutstandingSteps
  <2>2. step[executor[w]] \in OutstandingSteps /\ "panicked" \notin OutstandingSteps
    BY <1>1 DEF OutstandingSteps, ExecutorSteps
  <2>3. Cardinality(Out([step EXCEPT ![executor[w]] = "panicked"])) = Cardinality(Out(step)) - 1
    BY <1>1, <2>2, OutRemove DEF EngineInv, TypeOK
  <2>4. QED
    BY <2>1, <2>3
<1>3. CountInv' /\ wg' \in Nat
  <2>1. Cardinality(Outstanding) \in Nat /\ Cardinality(Outstanding') \in Nat
    BY OutFinite DEF Outstanding, Out, OutstandingSteps
  <2>2. QED
    BY <1>2, <2>1 DEF EngineInv, TypeOK, CountInv
<1>4. TypeOK'
  BY <1>1, <1>3 DEF EngineInv, TypeOK, PoolTypeOK, Steps, FeederSteps, ExecutorSteps,
     FinalSteps,
     WorkerStates, PoolStates, Status, FoundStatus, TestedStatus, QueueCap
<1>5. WalkerInv' /\ FeederInv'
  BY <1>1 DEF EngineInv, TypeOK, WalkerInv, FeederInv, PhaseInv
<1>6. QueueInv' /\ WorkerInv'
  BY SMTT(30), <1>1 DEF EngineInv, TypeOK, PoolTypeOK, QueueInv, WorkerInv, ExecutorSteps
<1>7. PhaseInv'
  BY <1>1, <1>3, OutFinite, OutIsOutstanding
  DEF EngineInv, TypeOK, PhaseInv, CountInv, WalkerInv
<1>8. NoSendOnClosedChannel'
  BY <1>1, <1>2, <1>3, OutFinite, OutIsOutstanding, FS_EmptySet
  DEF EngineInv, TypeOK, CountInv, PhaseInv, NoSendOnClosedChannel
<1>9. ReportInv' /\ StatusInv'
  BY <1>1 DEF EngineInv, TypeOK, ReportInv, StatusInv, Reportable, FoundStatus,
     TestedStatus,
     FeederSteps, Status, NotCovered, Runnable, Skipped, Lived, Killed, NotViable, TimedOut
<1>10. QED
  BY <1>3, <1>4, <1>5, <1>6, <1>7, <1>8, <1>9 DEF EngineInv

(* The process dies.                                                       *)
LEMMA CrashKeepsInv ==
    ASSUME EngineInv, NEW w \in Workers, Crash(w)
    PROVE  EngineInv'
<1> USE DEF Crash, At, poolVars
<1>1. step' = step /\ Outstanding' = Outstanding
  BY DEF Outstanding
<1>2. CountInv' /\ wg' \in Nat
  BY <1>1, OutFinite, OutIsOutstanding DEF EngineInv, TypeOK, CountInv, PhaseInv
<1>4. TypeOK'
  BY <1>1, <1>2 DEF EngineInv, TypeOK, PoolTypeOK, Steps, FeederSteps, ExecutorSteps,
     FinalSteps,
     WorkerStates, PoolStates, Status, FoundStatus, TestedStatus, QueueCap
<1>5. WalkerInv' /\ FeederInv'
  BY <1>1 DEF EngineInv, TypeOK, WalkerInv, FeederInv, PhaseInv
<1>6. QueueInv' /\ WorkerInv'
  BY <1>1 DEF EngineInv, TypeOK, PoolTypeOK, QueueInv, WorkerInv, ExecutorSteps
<1>7. PhaseInv'
  BY <1>1, <1>2, OutFinite, OutIsOutstanding
  DEF EngineInv, TypeOK, PhaseInv, CountInv, WalkerInv
<1>8. NoSendOnClosedChannel'
  BY <1>1, <1>2, OutFinite, OutIsOutstanding, FS_EmptySet
  DEF EngineInv, TypeOK, CountInv, PhaseInv, NoSendOnClosedChannel
<1>9. ReportInv' /\ StatusInv'
  BY <1>1 DEF EngineInv, TypeOK, ReportInv, StatusInv, Reportable, FoundStatus,
     TestedStatus,
     FeederSteps, Status, NotCovered, Runnable, Skipped, Lived, Killed, NotViable, TimedOut
<1>10. QED
  BY <1>2, <1>4, <1>5, <1>6, <1>7, <1>8, <1>9 DEF EngineInv

(* The mutation is applied.                                                *)
LEMMA ApplyKeepsInv ==
    ASSUME EngineInv, NEW w \in Workers, Apply(w)
    PROVE  EngineInv'
<1> USE DEF Apply, At, poolVars
<1>1. executor[w] \in Mutants /\ step[executor[w]] \in ExecutorSteps
  BY DEF EngineInv, WorkerInv, ExecutorSteps
<1>2. Outstanding' = Outstanding
  BY <1>1, OutSame, OutIsOutstanding
  DEF EngineInv, TypeOK, Outstanding, Out, OutstandingSteps, ExecutorSteps
<1>3. CountInv' /\ wg' \in Nat
  BY <1>2, OutFinite, OutIsOutstanding DEF EngineInv, TypeOK, CountInv
<1>4. TypeOK'
  BY <1>1, <1>3 DEF EngineInv, TypeOK, PoolTypeOK, Steps, FeederSteps, ExecutorSteps,
     FinalSteps,
     WorkerStates, PoolStates, Status, FoundStatus, TestedStatus, QueueCap
<1>5. WalkerInv' /\ FeederInv'
  BY <1>1 DEF EngineInv, TypeOK, WalkerInv, FeederInv, PhaseInv
<1>6. QueueInv' /\ WorkerInv'
  BY SMTT(30), <1>1 DEF EngineInv, TypeOK, PoolTypeOK, QueueInv, WorkerInv, ExecutorSteps
<1>7. PhaseInv'
  BY <1>1, <1>3, OutFinite, OutIsOutstanding
  DEF EngineInv, TypeOK, PhaseInv, CountInv, WalkerInv
<1>8. NoSendOnClosedChannel'
  BY <1>1, <1>2, <1>3, OutFinite, OutIsOutstanding, FS_EmptySet
  DEF EngineInv, TypeOK, CountInv, PhaseInv, NoSendOnClosedChannel
<1>9. ReportInv' /\ StatusInv'
  BY <1>1 DEF EngineInv, TypeOK, ReportInv, StatusInv, Reportable, FoundStatus,
     TestedStatus,
     FeederSteps, Status, NotCovered, Runnable, Skipped, Lived, Killed, NotViable, TimedOut
<1>10. QED
  BY <1>3, <1>4, <1>5, <1>6, <1>7, <1>8, <1>9 DEF EngineInv

(* The mutation cannot be applied.                                         *)
LEMMA ApplyFailsKeepsInv ==
    ASSUME EngineInv, NEW w \in Workers, ApplyFails(w)
    PROVE  EngineInv'
<1> USE DEF ApplyFails, At, poolVars
<1>1. executor[w] \in Mutants /\ step[executor[w]] \in ExecutorSteps
  BY DEF EngineInv, WorkerInv, ExecutorSteps
<1>2. Outstanding' = Outstanding
  BY <1>1, OutSame, OutIsOutstanding
  DEF EngineInv, TypeOK, Outstanding, Out, OutstandingSteps, ExecutorSteps
<1>3. CountInv' /\ wg' \in Nat
  BY <1>2, OutFinite, OutIsOutstanding DEF EngineInv, TypeOK, CountInv
<1>4. TypeOK'
  BY <1>1, <1>3 DEF EngineInv, TypeOK, PoolTypeOK, Steps, FeederSteps, ExecutorSteps,
     FinalSteps,
     WorkerStates, PoolStates, Status, FoundStatus, TestedStatus, QueueCap
<1>5. WalkerInv' /\ FeederInv'
  BY <1>1 DEF EngineInv, TypeOK, WalkerInv, FeederInv, PhaseInv
<1>6. QueueInv' /\ WorkerInv'
  BY SMTT(30), <1>1 DEF EngineInv, TypeOK, PoolTypeOK, QueueInv, WorkerInv, ExecutorSteps
<1>7. PhaseInv'
  BY <1>1, <1>3, OutFinite, OutIsOutstanding
  DEF EngineInv, TypeOK, PhaseInv, CountInv, WalkerInv
<1>8. NoSendOnClosedChannel'
  BY <1>1, <1>2, <1>3, OutFinite, OutIsOutstanding, FS_EmptySet
  DEF EngineInv, TypeOK, CountInv, PhaseInv, NoSendOnClosedChannel
<1>9. ReportInv' /\ StatusInv'
  BY <1>1 DEF EngineInv, TypeOK, ReportInv, StatusInv, Reportable, FoundStatus,
     TestedStatus,
     FeederSteps, Status, NotCovered, Runnable, Skipped, Lived, Killed, NotViable, TimedOut
<1>10. QED
  BY <1>3, <1>4, <1>5, <1>6, <1>7, <1>8, <1>9 DEF EngineInv

(* The tests have run.                                                     *)
LEMMA RunTestsKeepsInv ==
    ASSUME EngineInv, NEW w \in Workers, NEW outcome \in TestedStatus, RunTests(w, outcome)
    PROVE  EngineInv'
<1> USE DEF RunTests, At, poolVars
<1>1. executor[w] \in Mutants /\ step[executor[w]] \in ExecutorSteps
  BY DEF EngineInv, WorkerInv, ExecutorSteps
<1>2. Outstanding' = Outstanding
  BY <1>1, OutSame, OutIsOutstanding
  DEF EngineInv, TypeOK, Outstanding, Out, OutstandingSteps, ExecutorSteps
<1>3. CountInv' /\ wg' \in Nat
  BY <1>2, OutFinite, OutIsOutstanding DEF EngineInv, TypeOK, CountInv
<1>4. TypeOK'
  BY <1>1, <1>3 DEF EngineInv, TypeOK, PoolTypeOK, Steps, FeederSteps, ExecutorSteps,
     FinalSteps,
     WorkerStates, PoolStates, Status, FoundStatus, TestedStatus, QueueCap
<1>5. WalkerInv' /\ FeederInv'
  BY <1>1 DEF EngineInv, TypeOK, WalkerInv, FeederInv, PhaseInv
<1>6. QueueInv' /\ WorkerInv'
  BY SMTT(30), <1>1 DEF EngineInv, TypeOK, PoolTypeOK, QueueInv, WorkerInv, ExecutorSteps
<1>7. PhaseInv'
  BY <1>1, <1>3, OutFinite, OutIsOutstanding
  DEF EngineInv, TypeOK, PhaseInv, CountInv, WalkerInv
<1>8. NoSendOnClosedChannel'
  BY <1>1, <1>2, <1>3, OutFinite, OutIsOutstanding, FS_EmptySet
  DEF EngineInv, TypeOK, CountInv, PhaseInv, NoSendOnClosedChannel
<1>9. ReportInv' /\ StatusInv'
  BY <1>1 DEF EngineInv, TypeOK, ReportInv, StatusInv, Reportable, FoundStatus,
     TestedStatus,
     FeederSteps, Status, NotCovered, Runnable, Skipped, Lived, Killed, NotViable, TimedOut
<1>10. QED
  BY <1>3, <1>4, <1>5, <1>6, <1>7, <1>8, <1>9 DEF EngineInv

(* The mutant is reported.                                                 *)
LEMMA SendKeepsInv ==
    ASSUME EngineInv, NEW w \in Workers, Send(w)
    PROVE  EngineInv'
<1> USE DEF Send, At, poolVars
<1>1. executor[w] \in Mutants /\ step[executor[w]] \in ExecutorSteps
  BY DEF EngineInv, WorkerInv, ExecutorSteps
<1>2. Outstanding' = Outstanding
  BY <1>1, OutSame, OutIsOutstanding
  DEF EngineInv, TypeOK, Outstanding, Out, OutstandingSteps, ExecutorSteps
<1>3. CountInv' /\ wg' \in Nat
  BY <1>2, OutFinite, OutIsOutstanding DEF EngineInv, TypeOK, CountInv
<1>4. TypeOK'
  BY <1>1, <1>3 DEF EngineInv, TypeOK, PoolTypeOK, Steps, FeederSteps, ExecutorSteps,
     FinalSteps,
     WorkerStates, PoolStates, Status, FoundStatus, TestedStatus, QueueCap
<1>5. WalkerInv' /\ FeederInv'
  BY <1>1 DEF EngineInv, TypeOK, WalkerInv, FeederInv, PhaseInv
<1>6. QueueInv' /\ WorkerInv'
  BY SMTT(30), <1>1 DEF EngineInv, TypeOK, PoolTypeOK, QueueInv, WorkerInv, ExecutorSteps
<1>7. PhaseInv'
  BY <1>1, <1>3, OutFinite, OutIsOutstanding
  DEF EngineInv, TypeOK, PhaseInv, CountInv, WalkerInv
<1>8. NoSendOnClosedChannel'
  BY <1>1, <1>2, <1>3, OutFinite, OutIsOutstanding, FS_EmptySet
  DEF EngineInv, TypeOK, CountInv, PhaseInv, NoSendOnClosedChannel
<1>9. ReportInv' /\ StatusInv'
  <2>1. ReportInv'
    BY <1>1 DEF EngineInv, TypeOK, ReportInv
  <2>2. StatusInv'
    BY <1>1 DEF EngineInv, TypeOK, ReportInv, StatusInv, Reportable, FeederSteps,
       FoundStatus, TestedStatus
  <2>3. QED
    BY <2>1, <2>2
<1>10. QED
  BY <1>3, <1>4, <1>5, <1>6, <1>7, <1>8, <1>9 DEF EngineInv

(* The executor counts its mutant out.                                     *)
LEMMA ExecutorReturnKeepsInv ==
    ASSUME EngineInv, NEW w \in Workers, ExecutorReturn(w)
    PROVE  EngineInv'
<1> USE DEF ExecutorReturn, At, Finish
<1>1. executor[w] \in Mutants /\ step[executor[w]] \in ExecutorSteps
  BY DEF EngineInv, WorkerInv, ExecutorSteps
<1>2. Cardinality(Outstanding') = Cardinality(Outstanding) - 1
  <2>1. Outstanding' = Out(step') /\ Outstanding = Out(step)
    BY DEF Outstanding, Out, OutstandingSteps
  <2>2. step[executor[w]] \in OutstandingSteps /\ "done" \notin OutstandingSteps
    BY <1>1 DEF OutstandingSteps, ExecutorSteps
  <2>3. Cardinality(Out([step EXCEPT ![executor[w]] = "done"])) = Cardinality(Out(step)) - 1
    BY <1>1, <2>2, OutRemove DEF EngineInv, TypeOK
  <2>4. QED
    BY <2>1, <2>3
<1>3. CountInv' /\ wg' \in Nat
  <2>1. Cardinality(Outstanding) \in Nat /\ Cardinality(Outstanding') \in Nat
    BY OutFinite DEF Outstanding, Out, OutstandingSteps
  <2>2. QED
    BY <1>2, <2>1 DEF EngineInv, TypeOK, CountInv
<1>4. TypeOK'
  BY <1>1, <1>3 DEF EngineInv, TypeOK, PoolTypeOK, Steps, FeederSteps, ExecutorSteps,
     FinalSteps,
     WorkerStates, PoolStates, Status, FoundStatus, TestedStatus, QueueCap
<1>5. WalkerInv' /\ FeederInv'
  BY <1>1 DEF EngineInv, TypeOK, WalkerInv, FeederInv, PhaseInv
<1>6. QueueInv' /\ WorkerInv'
  <2>1. QueueInv'
    BY SMTT(30), <1>1 DEF EngineInv, TypeOK, PoolTypeOK, QueueInv
  <2>2. WorkerInv'
    BY <1>1 DEF EngineInv, TypeOK, PoolTypeOK, WorkerInv, ExecutorSteps
  <2>3. QED
    BY <2>1, <2>2
<1>7. PhaseInv'
  BY <1>1, <1>3, OutFinite, OutIsOutstanding
  DEF EngineInv, TypeOK, PhaseInv, CountInv, WalkerInv
<1>8. NoSendOnClosedChannel'
  BY <1>1, <1>2, <1>3, OutFinite, OutIsOutstanding, FS_EmptySet
  DEF EngineInv, TypeOK, CountInv, PhaseInv, NoSendOnClosedChannel
<1>9. ReportInv' /\ StatusInv'
  BY <1>1 DEF EngineInv, TypeOK, ReportInv, StatusInv, Reportable, FoundStatus,
     TestedStatus,
     FeederSteps, Status, NotCovered, Runnable, Skipped, Lived, Killed, NotViable, TimedOut
<1>10. QED
  BY <1>3, <1>4, <1>5, <1>6, <1>7, <1>8, <1>9 DEF EngineInv

(* A worker leaves the pool.                                               *)
LEMMA WorkerStopsKeepsInv ==
    ASSUME EngineInv, NEW w \in Workers, WorkerStops(w)
    PROVE  EngineInv'
<1> USE DEF WorkerStops, QueueDrained, Acknowledge, engineVars
<1>1. step' = step /\ Outstanding' = Outstanding
  BY DEF Outstanding
<1>a. /\ worker' \in [Workers -> WorkerStates]
      /\ \A v \in Workers : worker'[v] = "executing" => worker[v] = "executing"
  <2>1. CASE QueueDrained(w)
    BY <2>1 DEF EngineInv, TypeOK, PoolTypeOK, WorkerStates
  <2>2. CASE Acknowledge(w)
    BY <2>2 DEF EngineInv, TypeOK, PoolTypeOK, WorkerStates
  <2>3. QED
    BY <2>1, <2>2
<1>2. CountInv' /\ wg' \in Nat
  BY <1>1, OutFinite, OutIsOutstanding DEF EngineInv, TypeOK, CountInv, PhaseInv
<1>4. TypeOK'
  BY <1>1, <1>2, <1>a DEF EngineInv, TypeOK, PoolTypeOK, Steps, FeederSteps, ExecutorSteps,
     FinalSteps,
     WorkerStates, PoolStates, Status, FoundStatus, TestedStatus, QueueCap
<1>5. WalkerInv' /\ FeederInv'
  BY <1>1, <1>a DEF EngineInv, TypeOK, WalkerInv, FeederInv, PhaseInv
<1>6. QueueInv' /\ WorkerInv'
  BY SMTT(30), <1>1, <1>a DEF EngineInv, TypeOK, PoolTypeOK, QueueInv, WorkerInv, ExecutorSteps
<1>7. PhaseInv'
  BY <1>1, <1>2, OutFinite, OutIsOutstanding
  DEF EngineInv, TypeOK, PhaseInv, CountInv, WalkerInv
<1>8. NoSendOnClosedChannel'
  BY <1>1, <1>2, OutFinite, OutIsOutstanding, FS_EmptySet
  DEF EngineInv, TypeOK, CountInv, PhaseInv, NoSendOnClosedChannel
<1>9. ReportInv' /\ StatusInv'
  BY <1>1, <1>a DEF EngineInv, TypeOK, ReportInv, StatusInv, Reportable, FoundStatus,
     TestedStatus,
     FeederSteps, Status, NotCovered, Runnable, Skipped, Lived, Killed, NotViable, TimedOut
<1>10. QED
  BY <1>2, <1>4, <1>5, <1>6, <1>7, <1>8, <1>9 DEF EngineInv

(* The context is cancelled.                                               *)
LEMMA CancelKeepsInv ==
    ASSUME EngineInv, Cancel
    PROVE  EngineInv'
<1> USE DEF Cancel, poolVars
<1>1. step' = step /\ Outstanding' = Outstanding
  BY DEF Outstanding
<1>2. CountInv' /\ wg' \in Nat
  BY <1>1, OutFinite, OutIsOutstanding DEF EngineInv, TypeOK, CountInv, PhaseInv
<1>4. TypeOK'
  BY <1>1, <1>2 DEF EngineInv, TypeOK, PoolTypeOK, Steps, FeederSteps, ExecutorSteps,
     FinalSteps,
     WorkerStates, PoolStates, Status, FoundStatus, TestedStatus, QueueCap
<1>5. WalkerInv' /\ FeederInv'
  BY <1>1 DEF EngineInv, TypeOK, WalkerInv, FeederInv, PhaseInv
<1>6. QueueInv' /\ WorkerInv'
  BY <1>1 DEF EngineInv, TypeOK, PoolTypeOK, QueueInv, WorkerInv, ExecutorSteps
<1>7. PhaseInv'
  BY <1>1, <1>2, OutFinite, OutIsOutstanding
  DEF EngineInv, TypeOK, PhaseInv, CountInv, WalkerInv
<1>8. NoSendOnClosedChannel'
  BY <1>1, <1>2, OutFinite, OutIsOutstanding, FS_EmptySet
  DEF EngineInv, TypeOK, CountInv, PhaseInv, NoSendOnClosedChannel
<1>9. ReportInv' /\ StatusInv'
  BY <1>1 DEF EngineInv, TypeOK, ReportInv, StatusInv, Reportable, FoundStatus,
     TestedStatus,
     FeederSteps, Status, NotCovered, Runnable, Skipped, Lived, Killed, NotViable, TimedOut
<1>10. QED
  BY <1>2, <1>4, <1>5, <1>6, <1>7, <1>8, <1>9 DEF EngineInv

-----------------------------------------------------------------------------
(* Every step of the engine keeps the invariant.                           *)
LEMMA NextEngineInv == EngineInv /\ [Next]_vars => EngineInv'
<1> SUFFICES ASSUME EngineInv, [Next]_vars PROVE EngineInv'
  OBVIOUS
<1>1. CASE Walker
  BY <1>1, FindMutationKeepsInv, WalkEndKeepsInv DEF Walker
<1>2. CASE Feeder
  BY <1>2, FeederReceiveKeepsInv, FeederAcceptKeepsInv, FeederAppendKeepsInv,
     FeederStopKeepsInv,
     FeederStoppedKeepsInv, FeederEndKeepsInv DEF Feeder
<1>3. CASE Closer
  BY <1>3, CloserWaitedKeepsInv, CloserCloseKeepsInv DEF Closer
<1>4. CASE Collector
  BY <1>4, ExecuteTestsKeepsInv, ReturnKeepsInv DEF Collector
<1>5. ASSUME NEW w \in Workers, Worker(w) PROVE EngineInv'
  BY <1>5, WorkerReceiveKeepsInv, GetWorkdirKeepsInv, GetWorkdirFailsKeepsInv,
     PanicDoneKeepsInv,
     CrashKeepsInv, ApplyKeepsInv, ApplyFailsKeepsInv, RunTestsKeepsInv, SendKeepsInv,
     ExecutorReturnKeepsInv, WorkerStopsKeepsInv DEF Worker
<1>6. CASE Cancel
  BY <1>6, CancelKeepsInv
<1>7. CASE UNCHANGED vars
  BY <1>7 DEF vars, poolVars, engineVars, EngineInv, TypeOK, PoolTypeOK, WalkerInv,
     FeederInv,
     QueueInv, WorkerInv, CountInv, PhaseInv, NoSendOnClosedChannel, ReportInv, StatusInv,
     Reportable, Outstanding
<1>8. QED
  BY <1>1, <1>2, <1>3, <1>4, <1>5, <1>6, <1>7 DEF Next, Goroutines, Terminated

(* EngineInv holds in every reachable state of every instance.             *)
THEOREM EngineInvariance == Spec => []EngineInv
<1>1. Spec => Init /\ [][Next]_vars
  BY DEF Spec, Safety
<1>2. QED
  BY <1>1, InitEngineInv, NextEngineInv, PTL

(* The engine is type correct; in particular the WaitGroup's counter never *)
(* goes below zero, which would panic.                                     *)
THEOREM EngineTypeCorrect == Spec => []TypeOK
<1>1. EngineInv => TypeOK
  BY DEF EngineInv
<1>2. QED
  BY <1>1, EngineInvariance, PTL

(* No executor is ever left to send on the closed outCh, and nobody adds   *)
(* to the WaitGroup once Wait has returned.                                *)
THEOREM NeverSendsOnClosedChannel == Spec => []NoSendOnClosedChannel
<1>1. EngineInv => NoSendOnClosedChannel
  BY DEF EngineInv
<1>2. QED
  BY <1>1, EngineInvariance, PTL

(* When Run returns, cancelled or not, every mutant it accepted has been   *)
(* reported exactly once, unless it could not be applied or a panic is on  *)
(* its way; a run that was not stopped has accepted all that was found.    *)
THEOREM EngineLosesNothing == Spec => []NothingLost
<1>1. EngineInv => NothingLost
  <2> SUFFICES ASSUME EngineInv, run = "returned" PROVE NothingLost
    BY DEF NothingLost
  <2>1. feeder = "done" /\ Outstanding = {}
    BY DEF EngineInv, PhaseInv, NoSendOnClosedChannel
  <2>2. ASSUME NEW m \in Mutants
        PROVE  /\ step[m] \in {"unseen", "offered"} \cup FinalSteps
               /\ step[m] = "done" => results[m] = IF m \in applyFailed THEN 0 ELSE 1
    BY <2>1 DEF EngineInv, TypeOK, FeederInv, ReportInv, Outstanding, Steps, FeederSteps,
       ExecutorSteps, FinalSteps
  <2>3. ASSUME pool # "stopped"
        PROVE  /\ walker = "ended"
               /\ \A m \in Mutants : step[m] \in {"unseen", "done", "panicked"}
    <3>1. walker = "ended" /\ ~queueClosed
      BY <2>1, <2>3 DEF EngineInv, PhaseInv
    <3>2. QED
      BY <2>2, <3>1 DEF EngineInv, PhaseInv, WalkerInv, FinalSteps
  <2>4. QED
    BY <2>2, <2>3 DEF NothingLost
<1>2. QED
  BY <1>1, EngineInvariance, PTL

(* No mutant is reported twice, nor with a status it may not have at the   *)
(* end of a run.                                                           *)
THEOREM EngineReportsOnce == Spec => []ReportedOnceAndFinal
<1>1. EngineInv => ReportedOnceAndFinal
  BY DEF EngineInv, TypeOK, ReportInv, StatusInv, Reportable, ReportedOnceAndFinal
<1>2. QED
  BY <1>1, EngineInvariance, PTL

(* No step writes a status that has been reported, or tests a mutant that  *)
(* is not covered or not changed.                                          *)
THEOREM EngineStatusMovesForward == Spec => StatusMovesForward
<1> DEFINE Forward ==
      \A m \in Mutants : status'[m] # status[m] =>
          /\ results[m] = 0
          /\ \/ step[m] = "unseen" /\ status'[m] \in FoundStatus
             \/ status[m] = Runnable /\ status'[m] \in TestedStatus
<1>1. ASSUME EngineInv, [Next]_vars PROVE [Forward]_vars
  <2>1. ASSUME NEW x \in Mutants, NEW covered \in BOOLEAN, NEW changed \in BOOLEAN,
               FindMutation(x, covered, changed)
        PROVE  Forward
    <3>1. mutationStatus(covered, changed) \in FoundStatus
      BY DEF mutationStatus, FoundStatus
    <3>2. QED
      BY <1>1, <2>1, <3>1 DEF FindMutation, EngineInv, TypeOK, ReportInv
  <2>2. ASSUME NEW w \in Workers, NEW outcome \in TestedStatus, RunTests(w, outcome)
        PROVE  Forward
    BY <1>1, <2>2 DEF RunTests, At, EngineInv, TypeOK, WorkerInv, ReportInv, StatusInv
  <2>3. CASE status' = status
    BY <2>3
  <2>4. QED
    BY <1>1, <2>1, <2>2, <2>3 DEF Next, Goroutines, Terminated, Walker, WalkEnd, Feeder,
       FeederReceive, FeederAccept, FeederAppend, FeederStop, FeederStopped, FeederEnd, Closer,
       CloserWaited, CloserClose, Collector, ExecuteTests, Return, Worker, WorkerReceive,
       GetWorkdir, GetWorkdirFails, PanicDone, Crash, Apply, ApplyFails, Send, ExecutorReturn,
       WorkerStops, Cancel, vars, engineVars
<1>2. Spec => []EngineInv /\ [][Next]_vars
  BY EngineInvariance, PTL DEF Spec, Safety
<1>3. QED
  BY <1>1, <1>2, PTL DEF StatusMovesForward

-----------------------------------------------------------------------------
(* The refinement of MutationRun *)

(* The engine starts as an abstract run starts.                            *)
LEMMA InitRefines == Init => Promise!Init
BY DEF Init, PoolInit, Promise!Init, Accepted, Reported, GivenUp

(* While a mutant is outstanding, Run has not returned.                    *)
LEMMA OutstandingMeansRunning ==
    ASSUME EngineInv, NEW m \in Outstanding
    PROVE  run # "returned"
BY DEF EngineInv, PhaseInv, NoSendOnClosedChannel

(* The feeder's step takes a mutant into the run.                          *)
LEMMA FeederAcceptRefines ==
    ASSUME EngineInv, ~crashed, FeederAccept
    PROVE  Promise!Next
<1> USE DEF FeederAccept, poolVars
<1>1. feeding \in Mutants /\ step[feeding] = "received"
  BY DEF EngineInv, FeederInv
<1>2. run # "returned" /\ ~queueClosed
  BY DEF EngineInv, TypeOK, PoolTypeOK, PoolStates, PhaseInv, NoSendOnClosedChannel
<1>3. feeding \notin Accepted /\ Accepted' = Accepted \cup {feeding}
  BY <1>1 DEF EngineInv, TypeOK, Accepted
<1>4. Reported' = Reported /\ GivenUp' = GivenUp
  BY <1>1 DEF EngineInv, TypeOK, Reported, GivenUp
<1>5. Promise!Accept(feeding)
  BY <1>2, <1>3, <1>4 DEF Promise!Accept
<1>6. QED
  BY <1>1, <1>5 DEF Promise!Next

(* The send on outCh puts the mutant into the report.                      *)
LEMMA SendRefines ==
    ASSUME EngineInv, ~crashed, NEW w \in Workers, Send(w)
    PROVE  Promise!Next
<1> USE DEF Send, At, poolVars
<1> DEFINE m == executor[w]
<1>1. m \in Mutants /\ step[m] = "send"
  BY DEF EngineInv, WorkerInv
<1>2. results[m] = 0 /\ m \notin applyFailed
  BY <1>1 DEF EngineInv, ReportInv
<1>3. m \in Promise!Open
  BY <1>1, <1>2 DEF Promise!Open, Accepted, Reported, GivenUp
<1>4. Accepted' = Accepted /\ GivenUp' = GivenUp
  BY <1>1 DEF EngineInv, TypeOK, Accepted, GivenUp
<1>5. Reported' = Reported \cup {m}
  BY <1>1, <1>2 DEF EngineInv, TypeOK, Reported
<1>6. Promise!Report(m)
  BY <1>3, <1>4, <1>5 DEF Promise!Report
<1>7. QED
  BY <1>1, <1>6 DEF Promise!Next

(* A failed Apply gives the mutant up.                                     *)
LEMMA ApplyFailsRefines ==
    ASSUME EngineInv, ~crashed, NEW w \in Workers, ApplyFails(w)
    PROVE  Promise!Next
<1> USE DEF ApplyFails, At, poolVars
<1> DEFINE m == executor[w]
<1>1. m \in Mutants /\ step[m] = "apply"
  BY DEF EngineInv, WorkerInv
<1>2. results[m] = 0 /\ m \notin applyFailed
  BY <1>1 DEF EngineInv, ReportInv
<1>3. m \in Promise!Open /\ run # "returned"
  BY <1>1, <1>2, OutstandingMeansRunning
  DEF Promise!Open, Accepted, Reported, GivenUp, Outstanding, ExecutorSteps
<1>4. Accepted' = Accepted /\ Reported' = Reported
  BY <1>1 DEF EngineInv, TypeOK, Accepted, Reported
<1>5. GivenUp' = GivenUp \cup {m}
  BY <1>1 DEF EngineInv, TypeOK, GivenUp
<1>6. Promise!GiveUp(m)
  BY <1>3, <1>4, <1>5 DEF Promise!GiveUp
<1>7. QED
  BY <1>1, <1>6 DEF Promise!Next

(* A panic gives the mutant up.                                            *)
LEMMA GetWorkdirFailsRefines ==
    ASSUME EngineInv, ~crashed, NEW w \in Workers, GetWorkdirFails(w)
    PROVE  Promise!Next
<1> USE DEF GetWorkdirFails, At, poolVars
<1> DEFINE m == executor[w]
<1>1. m \in Mutants /\ step[m] = "get"
  BY DEF EngineInv, WorkerInv
<1>2. results[m] = 0 /\ m \notin applyFailed
  BY <1>1 DEF EngineInv, ReportInv
<1>3. m \in Promise!Open /\ run # "returned"
  BY <1>1, <1>2, OutstandingMeansRunning
  DEF Promise!Open, Accepted, Reported, GivenUp, Outstanding, ExecutorSteps
<1>4. Accepted' = Accepted /\ Reported' = Reported
  BY <1>1 DEF EngineInv, TypeOK, Accepted, Reported
<1>5. GivenUp' = GivenUp \cup {m}
  BY <1>1 DEF EngineInv, TypeOK, GivenUp
<1>6. Promise!GiveUp(m)
  BY <1>3, <1>4, <1>5 DEF Promise!GiveUp
<1>7. QED
  BY <1>1, <1>6 DEF Promise!Next

(* Run returns with nothing open.                                          *)
LEMMA ReturnRefines ==
    ASSUME EngineInv, ~crashed, Return
    PROVE  Promise!Next
<1> USE DEF Return, poolVars
<1>1. Outstanding = {} /\ feeder = "done"
  BY DEF EngineInv, NoSendOnClosedChannel
<1>2. ASSUME NEW m \in Accepted PROVE m \in Reported \cup GivenUp
  <2>1. step[m] \in {"done", "panicked"}
    BY <1>1, <1>2 DEF EngineInv, TypeOK, FeederInv, Accepted, Outstanding, Steps,
       FeederSteps,
       ExecutorSteps, FinalSteps
  <2>2. QED
    BY <1>2, <2>1 DEF EngineInv, ReportInv, Accepted, Reported, GivenUp
<1>3. Promise!Open = {}
  BY <1>2 DEF Promise!Open
<1>4. Accepted' = Accepted /\ Reported' = Reported /\ GivenUp' = GivenUp
  BY DEF Accepted, Reported, GivenUp
<1>5. QED
  BY <1>3, <1>4 DEF Promise!Next, Promise!Return

(* The process dies of a panic it has given a mutant up for.               *)
LEMMA CrashRefines ==
    ASSUME EngineInv, ~crashed, NEW w \in Workers, Crash(w)
    PROVE  Promise!Next
<1> USE DEF Crash, At, poolVars
<1>1. GivenUp # {}
  BY DEF EngineInv, WorkerInv, GivenUp
<1>2. Accepted' = Accepted /\ Reported' = Reported /\ GivenUp' = GivenUp
  BY DEF Accepted, Reported, GivenUp
<1>3. QED
  BY <1>1, <1>2 DEF Promise!Next, Promise!Crash

(* Stop ends acceptance; the mutant at hand was never accepted.            *)
LEMMA FeederStopRefines ==
    ASSUME EngineInv, ~crashed, FeederStop
    PROVE  Promise!Next
<1> USE DEF FeederStop, Stop
<1>1. feeding \in Mutants /\ step[feeding] = "received"
  BY DEF EngineInv, FeederInv
<1>2. run # "returned" /\ ~queueClosed
  BY DEF EngineInv, TypeOK, PoolTypeOK, PhaseInv, NoSendOnClosedChannel
<1>3. Accepted' = Accepted /\ Reported' = Reported /\ GivenUp' = GivenUp
  BY <1>1 DEF EngineInv, TypeOK, Accepted, Reported, GivenUp
<1>4. QED
  BY <1>2, <1>3 DEF Promise!Next, Promise!StopAccepting

(* Everything else is invisible to the caller of Run: no mutant enters or  *)
(* leaves the three sets.                                                  *)
LEMMA StutterRefines ==
    ASSUME EngineInv, ~crashed,
           \/ Walker \/ FeederReceive \/ FeederAppend \/ FeederStopped \/ FeederEnd
           \/ Closer \/ ExecuteTests \/ Cancel
           \/ \E w \in Workers :
                \/ WorkerReceive(w) \/ GetWorkdir(w) \/ PanicDone(w) \/ Apply(w)
                \/ \E outcome \in TestedStatus : RunTests(w, outcome)
                \/ ExecutorReturn(w) \/ WorkerStops(w)
    PROVE  UNCHANGED Promise!vars
<1> DEFINE Same == /\ Accepted' = Accepted /\ Reported' = Reported /\ GivenUp' = GivenUp
                   /\ queueClosed' = queueClosed /\ crashed' = crashed
                   /\ run' = "returned" <=> run = "returned"
<1> SUFFICES Same
  BY DEF Promise!vars
<1> USE DEF Accepted, Reported, GivenUp, poolVars
<1>1. CASE Walker
  BY <1>1 DEF Walker, FindMutation, WalkEnd, EngineInv, TypeOK
<1>2. CASE FeederReceive
  BY <1>2 DEF FeederReceive, EngineInv, TypeOK, WalkerInv
<1>3. CASE FeederAppend
  BY <1>3 DEF FeederAppend, AppendExecutor, EngineInv, TypeOK, FeederInv
<1>4. CASE FeederStopped \/ FeederEnd \/ Closer \/ ExecuteTests \/ Cancel
  BY <1>4 DEF FeederStopped, FeederEnd, Closer, CloserWaited, CloserClose, ExecuteTests,
     Cancel,
     Start, StopReturn
<1>5. ASSUME NEW w \in Workers, WorkerReceive(w) PROVE Same
  <2>1. Head(queue) \in Mutants /\ step[Head(queue)] = "queued"
    BY <1>5, QueueReceive DEF WorkerReceive, Receive, EngineInv, TypeOK, PoolTypeOK,
       QueueInv
  <2>2. QED
    BY <1>5, <2>1 DEF WorkerReceive, Receive, EngineInv, TypeOK
<1>6. ASSUME NEW w \in Workers, GetWorkdir(w) PROVE Same
  BY <1>6 DEF GetWorkdir, At, EngineInv, TypeOK, WorkerInv
<1>7. ASSUME NEW w \in Workers, PanicDone(w) PROVE Same
  BY <1>7 DEF PanicDone, At, EngineInv, TypeOK, WorkerInv
<1>8. ASSUME NEW w \in Workers, Apply(w) PROVE Same
  BY <1>8 DEF Apply, At, EngineInv, TypeOK, WorkerInv
<1>9. ASSUME NEW w \in Workers, NEW outcome \in TestedStatus, RunTests(w, outcome) PROVE Same
  BY <1>9 DEF RunTests, At, EngineInv, TypeOK, WorkerInv
<1>10. ASSUME NEW w \in Workers, ExecutorReturn(w) PROVE Same
  BY <1>10 DEF ExecutorReturn, Finish, At, EngineInv, TypeOK, WorkerInv
<1>11. ASSUME NEW w \in Workers, WorkerStops(w) PROVE Same
  BY <1>11 DEF WorkerStops, QueueDrained, Acknowledge, engineVars
<1>12. QED
  BY <1>1, <1>2, <1>3, <1>4, <1>5, <1>6, <1>7, <1>8, <1>9, <1>10, <1>11

(* The engine implements the abstract mutation run: what Run promises its  *)
(* caller holds of the goroutines, for every number of workers and mutants.*)
THEOREM EngineImplementsMutationRun == Spec => ImplementsMutationRun
<1>1. ASSUME EngineInv, [Next]_vars PROVE [Promise!Next]_(Promise!vars)
  <2>1. CASE UNCHANGED vars
    BY <2>1 DEF vars, poolVars, engineVars, Promise!vars, Accepted, Reported, GivenUp
  <2>2. CASE ~crashed /\ Goroutines
    <3>1. CASE \/ FeederAccept \/ FeederStop \/ Return
               \/ \E w \in Workers : Send(w) \/ ApplyFails(w) \/ GetWorkdirFails(w) \/ Crash(w)
      BY <1>1, <2>2, <3>1, FeederAcceptRefines, FeederStopRefines, ReturnRefines,
         SendRefines,
         ApplyFailsRefines, GetWorkdirFailsRefines, CrashRefines
    <3>2. QED
      BY <1>1, <2>2, <3>1, StutterRefines DEF Goroutines, Feeder, Collector, Worker
  <2>3. QED
    BY <1>1, <2>1, <2>2 DEF Next, Terminated
<1>2. Spec => Init /\ []EngineInv /\ [][Next]_vars
  BY EngineInvariance, PTL DEF Spec, Safety
<1>3. QED
  BY <1>1, <1>2, InitRefines, PTL DEF ImplementsMutationRun, Promise!Spec
-----------------------------------------------------------------------------
(* The use of the pool *)

(* A mutant that moves while its worker and its executor stay.             *)
LEMMA MoveKeepsPoolUse ==
    ASSUME TypeOK, PoolUseInv, NEW x \in Mutants, NEW s,
           step' = [step EXCEPT ![x] = s], UNCHANGED <<worker, executor, runs>>,
           step[x] \in StartedSteps <=> s \in StartedSteps,
           s \in HeldSteps => step[x] \in HeldSteps
    PROVE  PoolUseInv'
<1>1. step'[x] = s /\ \A m \in Mutants \ {x} : step'[m] = step[m]
  BY DEF TypeOK
<1>2. \A m \in Mutants : step'[m] \in StartedSteps <=> step[m] \in StartedSteps
  BY <1>1
<1>3. \A m \in Mutants : step'[m] \in HeldSteps => step[m] \in HeldSteps
  BY <1>1
<1>4. QED
  BY <1>2, <1>3 DEF PoolUseInv

(* At the start nothing is in the pool.                                    *)
LEMMA InitPoolUse == Init => PoolUseInv
BY DEF Init, PoolInit, PoolUseInv, StartedSteps, HeldSteps, ExecutorSteps

(* The worker that receives a mutant has it, and has started it once.      *)
LEMMA ReceiveKeepsPoolUse ==
    ASSUME EngineInv, PoolUseInv, NEW w \in Workers, WorkerReceive(w)
    PROVE  PoolUseInv'
<1> DEFINE x == Head(queue)
<1>1. x \in Mutants /\ step[x] = "queued" /\ worker[w] = "receiving"
  BY QueueReceive DEF WorkerReceive, Receive, EngineInv, TypeOK, PoolTypeOK, QueueInv
<1>2. runs[x] = 0
  BY <1>1 DEF PoolUseInv, StartedSteps, HeldSteps, ExecutorSteps
<1>3. /\ step'[x] = "get" /\ \A m \in Mutants \ {x} : step'[m] = step[m]
      /\ runs'[x] = runs[x] + 1 /\ \A m \in Mutants \ {x} : runs'[m] = runs[m]
  BY <1>1 DEF WorkerReceive, Receive, EngineInv, TypeOK, PoolTypeOK
<1>4. /\ worker'[w] = "executing" /\ executor'[w] = x
      /\ \A v \in Workers \ {w} : worker'[v] = worker[v] /\ executor'[v] = executor[v]
  BY DEF WorkerReceive, Receive, EngineInv, TypeOK, PoolTypeOK
<1>5. "get" \in StartedSteps
  BY DEF StartedSteps, HeldSteps, ExecutorSteps
<1>6. \A m \in Mutants : runs'[m] = IF step'[m] \in StartedSteps THEN 1 ELSE 0
  BY <1>2, <1>3, <1>5 DEF PoolUseInv
<1>7. ASSUME NEW m \in Mutants, step'[m] \in HeldSteps
      PROVE  \E v \in Workers : worker'[v] = "executing" /\ executor'[v] = m
  <2>1. CASE m = x
    BY <1>4, <2>1
  <2>2. CASE m # x
    <3>1. PICK v \in Workers : worker[v] = "executing" /\ executor[v] = m
      BY <1>3, <1>7, <2>2 DEF PoolUseInv
    <3>2. QED
      BY <1>1, <1>4, <3>1
  <2>3. QED
    BY <2>1, <2>2
<1>8. QED
  BY <1>6, <1>7 DEF PoolUseInv

(* The worker that returns leaves its own mutant, and no other's.          *)
LEMMA ReturnKeepsPoolUse ==
    ASSUME EngineInv, PoolUseInv, NEW w \in Workers, ExecutorReturn(w)
    PROVE  PoolUseInv'
<1> DEFINE x == executor[w]
<1>1. x \in Mutants /\ step[x] = "return" /\ worker[w] = "executing"
  BY DEF ExecutorReturn, At, EngineInv, WorkerInv
<1>2. step'[x] = "done" /\ \A m \in Mutants \ {x} : step'[m] = step[m]
  BY <1>1 DEF ExecutorReturn, EngineInv, TypeOK
<1>3. /\ runs' = runs
      /\ \A v \in Workers \ {w} : worker'[v] = worker[v] /\ executor'[v] = executor[v]
  BY DEF ExecutorReturn, Finish, EngineInv, TypeOK, PoolTypeOK
<1>4. "done" \in StartedSteps /\ "return" \in StartedSteps /\ "done" \notin HeldSteps
  BY DEF StartedSteps, HeldSteps, ExecutorSteps
<1>5. \A m \in Mutants : runs'[m] = IF step'[m] \in StartedSteps THEN 1 ELSE 0
  BY <1>1, <1>2, <1>3, <1>4 DEF PoolUseInv
<1>6. ASSUME NEW m \in Mutants, step'[m] \in HeldSteps
      PROVE  \E v \in Workers : worker'[v] = "executing" /\ executor'[v] = m
  <2>1. m # x
    BY <1>2, <1>4, <1>6
  <2>2. PICK v \in Workers : worker[v] = "executing" /\ executor[v] = m
    BY <1>2, <1>6, <2>1 DEF PoolUseInv
  <2>3. QED
    BY <1>3, <2>1, <2>2
<1>7. QED
  BY <1>5, <1>6 DEF PoolUseInv

(* Every step of the engine keeps the use of the pool.                     *)
LEMMA NextPoolUse ==
    ASSUME EngineInv, PoolInv, PoolUseInv, [Next]_vars
    PROVE  PoolUseInv'
<1>a. TypeOK
  BY DEF EngineInv
<1> USE <1>a
<1>1. CASE Walker
  <2>1. ASSUME NEW m \in Mutants, NEW covered, NEW changed, FindMutation(m, covered, changed)
        PROVE  PoolUseInv'
    BY <2>1, MoveKeepsPoolUse
    DEF FindMutation, poolVars, StartedSteps, HeldSteps, ExecutorSteps
  <2>2. CASE WalkEnd
    BY <2>2 DEF WalkEnd, poolVars, PoolUseInv
  <2>3. QED
    BY <1>1, <2>1, <2>2 DEF Walker
<1>2. CASE Feeder
  <2> USE DEF poolVars, StartedSteps, HeldSteps, ExecutorSteps
  <2>1. CASE FeederReceive
    BY <2>1, MoveKeepsPoolUse DEF FeederReceive, EngineInv, WalkerInv
  <2>2. CASE FeederAccept
    BY <2>2, MoveKeepsPoolUse DEF FeederAccept, EngineInv, FeederInv
  <2>3. CASE FeederAppend
    BY <2>3, MoveKeepsPoolUse DEF FeederAppend, AppendExecutor, EngineInv, FeederInv
  <2>4. CASE FeederStop
    BY <2>4, MoveKeepsPoolUse DEF FeederStop, Stop, EngineInv, FeederInv
  <2>5. CASE FeederStopped \/ FeederEnd
    BY <2>5 DEF FeederStopped, StopReturn, FeederEnd, PoolUseInv
  <2>6. QED
    BY <1>2, <2>1, <2>2, <2>3, <2>4, <2>5 DEF Feeder
<1>3. CASE Closer \/ Return \/ Cancel \/ UNCHANGED vars
  BY <1>3 DEF Closer, CloserWaited, CloserClose, Return, Cancel, vars, engineVars, poolVars,
     PoolUseInv
<1>4. CASE ExecuteTests
  <2>1. \A w \in Workers : worker[w] = "created"
    BY <1>4 DEF ExecuteTests, Start, PoolInv
  <2>2. \A m \in Mutants : step[m] \notin HeldSteps
    BY <2>1 DEF PoolUseInv
  <2>3. QED
    BY <1>4, <2>2 DEF ExecuteTests, Start, PoolUseInv
<1>5. ASSUME NEW w \in Workers, Worker(w) PROVE PoolUseInv'
  <2>1. ASSUME worker[w] = "executing" PROVE executor[w] \in Mutants
    BY <2>1 DEF EngineInv, WorkerInv
  <2>2. CASE GetWorkdir(w) \/ GetWorkdirFails(w) \/ PanicDone(w) \/ Apply(w) \/ ApplyFails(w)
    BY <2>1, <2>2, MoveKeepsPoolUse DEF GetWorkdir, GetWorkdirFails, PanicDone, Apply, ApplyFails,
       At, poolVars, StartedSteps, HeldSteps, ExecutorSteps
  <2>3. CASE Send(w) \/ \E outcome \in TestedStatus : RunTests(w, outcome)
    BY <2>1, <2>3, MoveKeepsPoolUse DEF Send, RunTests,
       At, poolVars, StartedSteps, HeldSteps, ExecutorSteps
  <2>4. CASE Crash(w)
    BY <2>4 DEF Crash, poolVars, PoolUseInv
  <2>5. CASE WorkerStops(w)
    <3>1. /\ step' = step /\ runs' = runs /\ executor' = executor
          /\ \A v \in Workers : worker[v] = "executing" => worker'[v] = "executing"
      BY <2>5 DEF WorkerStops, QueueDrained, Acknowledge, engineVars, TypeOK, PoolTypeOK
    <3>2. QED
      BY <3>1 DEF PoolUseInv
  <2>6. QED
    BY <1>5, <2>2, <2>3, <2>4, <2>5, ReceiveKeepsPoolUse, ReturnKeepsPoolUse DEF Worker
<1>6. QED
  BY <1>1, <1>2, <1>3, <1>4, <1>5 DEF Next, Goroutines, Terminated, Collector

(* Each step of the engine is one of the pool's or its client's, or leaves *)
(* the pool alone.                                                         *)
LEMMA EngineIsPoolClient ==
    ASSUME EngineInv, PoolUseInv, [Next]_vars
    PROVE  [PoolNext]_poolVars
<1>1. CASE FeederAppend
  <2>1. feeding \in Mutants /\ step[feeding] = "accepted"
    BY <1>1 DEF FeederAppend, EngineInv, FeederInv
  <2>2. pool \in {"initialized", "started"}
    BY <1>1 DEF FeederAppend, EngineInv, TypeOK, PoolTypeOK, PoolStates, PhaseInv
  <2>3. runs[feeding] = 0
    BY <2>1 DEF PoolUseInv, StartedSteps, HeldSteps, ExecutorSteps
  <2>4. ~Given(feeding)
    BY <2>1, <2>3 DEF Given, EngineInv, QueueInv
  <2>5. QED
    BY <1>1, <2>1, <2>2, <2>4 DEF FeederAppend, ClientAppend, PoolNext
<1>2. CASE ExecuteTests \/ FeederStop \/ FeederStopped
  BY <1>2 DEF ExecuteTests, FeederStop, FeederStopped, PoolNext
<1>3. ASSUME NEW w \in Workers, WorkerReceive(w) \/ ExecutorReturn(w) \/ WorkerStops(w)
      PROVE  PoolNext
  BY <1>3 DEF WorkerReceive, ExecutorReturn, WorkerStops, PoolNext, PoolWorkerStep
<1>4. CASE UNCHANGED poolVars
  BY <1>4
<1>5. QED
  BY <1>1, <1>2, <1>3, <1>4 DEF Next, Goroutines, Terminated, Walker, FindMutation, WalkEnd, Feeder,
     FeederReceive, FeederAccept, FeederEnd, Closer, CloserWaited, CloserClose, Collector, Return,
     Worker, GetWorkdir, GetWorkdirFails, PanicDone, Crash, Apply, ApplyFails, RunTests, Send,
     Cancel, vars

(* The two invariants together: what the engine promises the pool, and     *)
(* what the pool then promises it.                                         *)
LEMMA PoolUseInvariance == Spec => [](EngineInv /\ PoolInv /\ PoolUseInv)
<1> DEFINE I == EngineInv /\ PoolInv /\ PoolUseInv
<1>1. Init => I
  BY InitEngineInv, InitPoolInv, InitPoolUse DEF Init
<1>2. I /\ [Next]_vars => I'
  BY NextEngineInv, EngineIsPoolClient, NextPoolInv, NextPoolUse
<1>3. QED
  BY <1>1, <1>2, PTL DEF Spec, Safety

(* executeTests keeps the pool's rules: it appends no executor twice and   *)
(* none after Stop, which would panic, and stops the pool once.  So all    *)
(* that is proved of PoolSpec holds of the pool in the engine, panicking   *)
(* executors included.                                                     *)
THEOREM EngineUsesThePool == Spec => PoolSafety
<1>1. Spec => Init /\ [](EngineInv /\ PoolInv /\ PoolUseInv) /\ [][Next]_vars
  BY PoolUseInvariance, PTL DEF Spec, Safety
<1>2. Init => PoolInit
  BY DEF Init
<1>3. EngineInv /\ PoolInv /\ PoolUseInv /\ [Next]_vars => [PoolNext]_poolVars
  BY EngineIsPoolClient
<1>4. QED
  BY <1>1, <1>2, <1>3, PTL DEF PoolSafety

(* A worker that is inside an executor can go on as long as the collector  *)
(* listens.                                                                *)
LEMMA BusyWorkerIsReady ==
    ASSUME EngineInv, run = "collecting", closer # "closed",
           NEW w \in Workers, worker[w] = "executing"
    PROVE  WorkerReady(w)
BY DEF EngineInv, WorkerInv, WorkerReady, At

(* Something in the queue: any worker takes it, or is busy.                *)
LEMMA QueueIsServed ==
    ASSUME EngineInv, PoolInv, run = "collecting", closer # "closed", Len(queue) # 0
    PROVE  \E w \in Workers : WorkerReady(w)
<1>1. PICK w \in Workers : TRUE
  BY WorkersExist
<1>2. worker[w] \in {"receiving", "executing"}
  BY DEF PoolInv, PoolTypeOK, WorkerStates, EngineInv, PhaseInv
<1>3. CASE worker[w] = "receiving"
  <2>1. queue # <<>>
    BY EmptySeq DEF PoolInv, PoolTypeOK
  <2>2. QED
    BY <1>3, <2>1 DEF WorkerReady
<1>4. CASE worker[w] = "executing"
  BY <1>4, BusyWorkerIsReady
<1>5. QED
  BY <1>2, <1>3, <1>4

(* Mutants, workers, feeder, closer and collector never all wait for each  *)
(* other, whatever fails and whenever the run is cancelled: for every      *)
(* number of workers and mutants.                                          *)
THEOREM EngineNeverStuck == Spec => []NobodyStuck
<1>1. ASSUME EngineInv, PoolInv, PoolUseInv PROVE NobodyStuck
  <2> USE <1>1
  <2> SUFFICES ASSUME ~crashed, run # "returned" PROVE NobodyStuck
    BY DEF NobodyStuck
  <2>1. CASE run = "called"
    BY <2>1 DEF EngineInv, PhaseInv, CollectorReady, NobodyStuck
  <2>2. CASE run = "collecting" /\ (closer # "waiting" \/ wg = 0)
    BY <2>2 DEF EngineInv, TypeOK, PhaseInv, CloserReady, CollectorReady, NobodyStuck
  <2>3. CASE run = "collecting" /\ closer = "waiting" /\ wg # 0
    <3> USE <2>3
    <3>1. CASE feeder \in {"ranging", "checking"}
      BY <3>1 DEF EngineInv, TypeOK, PoolTypeOK, PoolStates, PhaseInv, FeederReady, NobodyStuck
    <3>2. CASE feeder = "appending" /\ Len(queue) < QueueCap
      BY <3>2 DEF EngineInv, TypeOK, PoolTypeOK, PhaseInv, FeederReady, NobodyStuck
    <3>3. CASE feeder = "appending" /\ ~(Len(queue) < QueueCap)
      <4>1. Len(queue) # 0
        BY <3>3 DEF QueueCap
      <4>2. QED
        BY <4>1, QueueIsServed DEF NobodyStuck
    <3>4. CASE feeder = "stopping"
      <4>1. pool = "stopping" /\ queueClosed
        BY <3>4 DEF EngineInv, PhaseInv
      <4>2. CASE \A w \in Workers : worker[w] = "ended"
        BY <3>4, <4>1, <4>2 DEF FeederReady, NobodyStuck
      <4>3. ASSUME NEW w \in Workers, worker[w] # "ended" PROVE WorkerReady(w)
        <5>1. worker[w] \in {"receiving", "executing", "signalling"}
          BY <4>1, <4>3 DEF PoolInv, PoolTypeOK, WorkerStates
        <5>2. QED
          BY <4>1, <5>1, BusyWorkerIsReady DEF WorkerReady
      <4>4. QED
        BY <4>2, <4>3 DEF NobodyStuck
    <3>5. CASE feeder = "done"
      <4>1. Outstanding # {}
        BY <3>5, FS_EmptySet DEF EngineInv, CountInv
      <4>2. PICK m \in Mutants : step[m] \in {"accepted", "queued"} \cup ExecutorSteps
        BY <4>1 DEF Outstanding
      <4>3. step[m] # "accepted"
        BY <3>5 DEF EngineInv, FeederInv
      <4>4. CASE step[m] = "queued"
        <5>1. Len(queue) # 0
          BY <4>4 DEF EngineInv, QueueInv
        <5>2. QED
          BY <5>1, QueueIsServed DEF NobodyStuck
      <4>5. CASE step[m] \in ExecutorSteps
        <5>1. PICK w \in Workers : worker[w] = "executing"
          BY <4>5 DEF PoolUseInv, HeldSteps
        <5>2. QED
          BY <5>1, BusyWorkerIsReady DEF NobodyStuck
      <4>6. QED
        BY <4>2, <4>3, <4>4, <4>5
    <3>6. QED
      BY <3>1, <3>2, <3>3, <3>4, <3>5 DEF EngineInv, TypeOK, PhaseInv
  <2>4. QED
    BY <2>1, <2>2, <2>3 DEF EngineInv, TypeOK
<1>2. QED
  BY <1>1, PoolUseInvariance, PTL
=============================================================================
