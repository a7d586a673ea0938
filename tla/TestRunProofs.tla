---------------------------- MODULE TestRunProofs ----------------------------
(***************************************************************************)
(* Proofs about TestRun.tla, for every set of workers, pids and exit codes *)
(* and every setting of the timeouts.                                      *)
(***************************************************************************)
EXTENDS TestRun, TLAPS

(* The errors of run, and which of them carry a code.                      *)
LEMMA ErrorsOfRun ==
    /\ {Nil, CtxErr, StartErr} \subseteq Errors
    /\ \A c \in ExitCodes \cup {Signaled} : ExitError(c) \in Errors
    /\ Nil.kind # "exit" /\ CtxErr.kind # "exit" /\ StartErr.kind # "exit"
    /\ \A c : ExitError(c).kind = "exit" /\ ExitError(c).code = c
BY DEF Errors, Nil, CtxErr, StartErr, ExitError

(* Every verdict is a status of a tested mutant.                           *)
LEMMA VerdictType ==
    ASSUME NEW e, NEW late \in BOOLEAN
    PROVE  Verdict(e, late) \in TestedStatus
BY DEF Verdict, TestedStatus, getTestFailedStatus

(* Durations wrap: what is in range stays, what is less than twice the     *)
(* range too long comes out shorter by it.                                 *)
LEMMA WrapsAround ==
    ASSUME NEW n \in Int
    PROVE  /\ Wrap(n) \in Int /\ Wrap(n) >= -Limit /\ Wrap(n) < Limit
           /\ n >= -Limit /\ n < Limit => Wrap(n) = n
           /\ n >= Limit /\ n < 3 * Limit => Wrap(n) = n - 2 * Limit
BY TestRunAssumption DEF Wrap, Second

(* The deadline is an integer of the range.                                *)
LEMMA DeadlineType ==
    ASSUME NEW s \in Settings
    PROVE  /\ testExecutionTime(s) \in Int
           /\ testExecutionTime(s) >= -Limit /\ testExecutionTime(s) < Limit
<1> DEFINE coefficient == IF s.tCoefficient # 0 THEN s.tCoefficient ELSE DefaultTimeoutCoefficient
           baseTime    == IF s.elapsed < Second THEN Second ELSE s.elapsed
<1>1. baseTime * coefficient \in Int
  BY TestRunAssumption DEF Second, DefaultTimeoutCoefficient
<1>2. testExecutionTime(s) = Wrap(baseTime * coefficient)
  BY DEF testExecutionTime
<1> HIDE DEF coefficient, baseTime
<1>3. QED
  BY <1>1, <1>2, WrapsAround

(* getTestArgs: if the deadline is in the future, an alarm that is set at  *)
(* all comes after it, even where adding the two seconds overflows.        *)
THEOREM AlarmFollowsDeadline ==
    ASSUME NEW s \in Settings, testExecutionTime(s) > 0, testTimeout(s) > 0
    PROVE  testTimeout(s) > testExecutionTime(s)
<1> DEFINE t == testExecutionTime(s)
<1>1. t \in Int /\ t < Limit /\ t > 0
  BY DeadlineType
<1>2. Limit \in Nat /\ Limit > 4
  BY TestRunAssumption DEF Second
<1>3. testTimeout(s) = Wrap(4 + t)
  BY DEF testTimeout, Second
<1> HIDE DEF t
<1>4. Wrap(4 + t) = 4 + t \/ Wrap(4 + t) = 4 + t - 2 * Limit
  <2>1. CASE 4 + t < Limit
    BY <1>1, <1>2, <2>1, WrapsAround
  <2>2. CASE 4 + t >= Limit
    BY <1>1, <1>2, <2>2, WrapsAround
  <2>3. QED
    BY <1>1, <1>2, <2>1, <2>2
<1>5. QED
  BY <1>1, <1>2, <1>3, <1>4 DEF t

(* NewExecutorDealer: a coefficient that is neither negative nor near the  *)
(* overflow leaves the time of the unmutated tests, and a second.          *)
THEOREM ModerateDeadline ==
    ASSUME NEW s \in Settings, Moderate(s)
    PROVE  testExecutionTime(s) >= Second /\ testExecutionTime(s) >= s.elapsed
<1> DEFINE coefficient == IF s.tCoefficient # 0 THEN s.tCoefficient ELSE DefaultTimeoutCoefficient
           baseTime    == IF s.elapsed < Second THEN Second ELSE s.elapsed
<1>1. /\ s.elapsed \in Nat /\ s.tCoefficient \in Nat /\ Limit \in Nat
      /\ (s.elapsed + Second) * (s.tCoefficient + DefaultTimeoutCoefficient) < Limit
  BY TestRunAssumption DEF Moderate
<1>2. /\ coefficient \in Nat /\ coefficient >= 1
      /\ coefficient <= s.tCoefficient + DefaultTimeoutCoefficient
  BY <1>1 DEF DefaultTimeoutCoefficient
<1>3. /\ baseTime \in Nat /\ baseTime >= Second /\ baseTime >= s.elapsed
      /\ baseTime <= s.elapsed + Second
  BY <1>1 DEF Second
<1>4. testExecutionTime(s) = Wrap(baseTime * coefficient)
  BY DEF testExecutionTime
<1>5. Second \in Nat /\ DefaultTimeoutCoefficient \in Nat
  BY DEF Second, DefaultTimeoutCoefficient
<1> HIDE DEF coefficient, baseTime
<1>6. \A a, b, c, d \in Nat : a <= b /\ c <= d => a * c <= b * d
  OBVIOUS
<1>7. \A a, c \in Nat : c >= 1 => a * c \in Nat /\ a * c >= a
  OBVIOUS
<1>8. baseTime * coefficient \in Nat /\ baseTime * coefficient >= baseTime
  BY <1>2, <1>3, <1>7
<1>9. baseTime * coefficient < Limit
  <2>1. baseTime * coefficient <= (s.elapsed + Second) * (s.tCoefficient + DefaultTimeoutCoefficient)
    BY <1>1, <1>2, <1>3, <1>5, <1>6
  <2>2. QED
    BY <1>1, <1>5, <1>8, <2>1
<1>10. testExecutionTime(s) = baseTime * coefficient
  BY <1>1, <1>4, <1>8, <1>9, WrapsAround
<1>11. QED
  BY <1>1, <1>3, <1>5, <1>8, <1>10

(* Every step keeps the types.                                             *)
LEMMA TypeStep == TestRunInv /\ [Next]_vars => TypeOK'
<1> SUFFICES ASSUME TestRunInv, [Next]_vars PROVE TypeOK'
  OBVIOUS
<1>a. TypeOK /\ ProcessInv /\ RunInv
  BY DEF TestRunInv
<1> USE TestRunAssumption, <1>a DEF TypeOK
<1>1. ASSUME NEW w \in Workers, SpawnChild(w) PROVE TypeOK'
  BY <1>1 DEF SpawnChild
<1>2. ASSUME NEW w \in Workers, ChildExits(w) PROVE TypeOK'
  BY <1>2 DEF ChildExits
<1>3. ASSUME NEW w \in Workers, Alarm(w) PROVE TypeOK'
  BY <1>3 DEF Alarm
<1>4. ASSUME NEW w \in Workers, NEW c \in ExitCodes \cup {Signaled}, LeaderEnds(w, c) PROVE TypeOK'
  BY <1>4 DEF LeaderEnds
<1>5. ASSUME NEW w \in Workers, WatchCtx(w) PROVE TypeOK'
  BY <1>5 DEF WatchCtx
<1>6. ASSUME NEW w \in Workers, StartTest(w) PROVE TypeOK'
  <2>1. pid' \in [Workers -> Pids \cup {None}]
    BY <1>6 DEF StartTest, FreePids
  <2>2. QED
    BY <1>6, <2>1 DEF StartTest, Goto
<1>7. ASSUME NEW w \in Workers, StartFails(w) PROVE TypeOK'
  BY <1>7, ErrorsOfRun DEF StartFails, Goto
<1>8. ASSUME NEW w \in Workers, StartTooLate(w) PROVE TypeOK'
  BY <1>8, ErrorsOfRun DEF StartTooLate, Goto
<1>9. ASSUME NEW w \in Workers, Expire(w) PROVE TypeOK'
  BY <1>9 DEF Expire
<1>10. ASSUME NEW w \in Workers, WaitReturns(w) PROVE TypeOK'
  <2>1. code[w] \in ExitCodes \cup {Signaled}
    BY <1>10 DEF WaitReturns, ProcessInv
  <2>2. done' \in [Workers -> Errors \cup {None}]
    BY <1>10, <2>1, ErrorsOfRun DEF WaitReturns
  <2>3. QED
    BY <1>10, <2>2 DEF WaitReturns
<1>11. ASSUME NEW w \in Workers, SelectTimeout(w) PROVE TypeOK'
  BY <1>11 DEF SelectTimeout, Goto, KillGroup
<1>12. ASSUME NEW w \in Workers, AwaitDone(w) PROVE TypeOK'
  BY <1>12, ErrorsOfRun DEF AwaitDone, Goto
<1>13. ASSUME NEW w \in Workers, SelectDone(w) PROVE TypeOK'
  BY <1>13 DEF SelectDone, Goto
<1>14. ASSUME NEW w \in Workers, Cleanup(w) PROVE TypeOK'
  BY <1>14 DEF Cleanup, Goto, KillGroup
<1>15. ASSUME NEW w \in Workers, Judge(w) PROVE TypeOK'
  <2>1. Verdict(err[w], expired[w]) \in TestedStatus
    BY VerdictType
  <2>2. QED
    BY <1>15, <2>1 DEF Judge, Goto
<1>16. CASE UNCHANGED vars
  BY <1>16 DEF vars
<1>17. QED
  BY <1>1, <1>2, <1>3, <1>4, <1>5, <1>6, <1>7, <1>8,
     <1>9, <1>10, <1>11, <1>12, <1>13, <1>14, <1>15, <1>16 DEF Next, Environment, Runner, Terminated

(* Every step keeps the processes.                                         *)
LEMMA ProcessStep == TestRunInv /\ [Next]_vars => ProcessInv'
<1> SUFFICES ASSUME TestRunInv, [Next]_vars PROVE ProcessInv'
  OBVIOUS
<1>a. TypeOK /\ ProcessInv /\ RunInv
  BY DEF TestRunInv
<1> USE TestRunAssumption, <1>a DEF ProcessInv, Lives
<1>1. ASSUME NEW w \in Workers, SpawnChild(w) PROVE ProcessInv'
  BY <1>1 DEF SpawnChild
<1>2. ASSUME NEW w \in Workers, ChildExits(w) PROVE ProcessInv'
  BY <1>2 DEF ChildExits
<1>3. ASSUME NEW w \in Workers, Alarm(w) PROVE ProcessInv'
  <2>1. /\ leader[w] = "alive" /\ leader'[w] = "zombie" /\ code'[w] \in ExitCodes \cup {Signaled}
        /\ \A v \in Workers \ {w} : leader'[v] = leader[v] /\ code'[v] = code[v]
        /\ \A v \in Workers : child'[v] => child[v]
        /\ UNCHANGED <<setting, pid, done>>
    BY <1>3 DEF Alarm, TypeOK
  <2>2. \A v \in Workers : Lives(v)' => Lives(v)
    BY <2>1
  <2>3. QED
    BY <2>1, <2>2
<1>4. ASSUME NEW w \in Workers, NEW c \in ExitCodes \cup {Signaled}, LeaderEnds(w, c) PROVE ProcessInv'
  <2>1. /\ leader[w] = "alive" /\ leader'[w] = "zombie" /\ code'[w] \in ExitCodes \cup {Signaled}
        /\ \A v \in Workers \ {w} : leader'[v] = leader[v] /\ code'[v] = code[v]
        /\ \A v \in Workers : child'[v] => child[v]
        /\ UNCHANGED <<setting, pid, done>>
    BY <1>4 DEF LeaderEnds, TypeOK
  <2>2. \A v \in Workers : Lives(v)' => Lives(v)
    BY <2>1
  <2>3. QED
    BY <2>1, <2>2
<1>5. ASSUME NEW w \in Workers, WatchCtx(w) PROVE ProcessInv'
  <2>1. /\ leader[w] = "alive" /\ leader'[w] = "zombie" /\ code'[w] \in ExitCodes \cup {Signaled}
        /\ \A v \in Workers \ {w} : leader'[v] = leader[v] /\ code'[v] = code[v]
        /\ \A v \in Workers : child'[v] => child[v]
        /\ UNCHANGED <<setting, pid, done>>
    BY <1>5 DEF WatchCtx, TypeOK
  <2>2. \A v \in Workers : Lives(v)' => Lives(v)
    BY <2>1
  <2>3. QED
    BY <2>1, <2>2
<1>6. ASSUME NEW w \in Workers, StartTest(w) PROVE ProcessInv'
  <2>1. PICK p \in FreePids : pid' = [pid EXCEPT ![w] = p]
    BY <1>6 DEF StartTest
  <2>2. /\ testExecutionTime(setting) > 0
        /\ pid'[w] = p /\ leader'[w] = "alive"
        /\ \A v \in Workers \ {w} : pid'[v] = pid[v] /\ leader'[v] = leader[v]
        /\ UNCHANGED <<setting, child, code, done>>
    BY <1>6, <2>1 DEF StartTest, TypeOK
  <2>3. leader[w] = "none"
    BY <1>6 DEF StartTest, Goto, RunInv
  <2>4. \A v \in Workers : pid[v] = p => ~Lives(v)
    BY <2>1 DEF FreePids, InUse
  <2>5. \A v, u \in Workers : (Lives(v) /\ Lives(u) /\ pid[v] = pid[u] => v = u)'
    BY <2>2, <2>4
  <2>6. QED
    BY <2>2, <2>3, <2>5
<1>7. ASSUME NEW w \in Workers, StartFails(w) PROVE ProcessInv'
  BY <1>7 DEF StartFails, Goto
<1>8. ASSUME NEW w \in Workers, StartTooLate(w) PROVE ProcessInv'
  BY <1>8 DEF StartTooLate, Goto
<1>9. ASSUME NEW w \in Workers, Expire(w) PROVE ProcessInv'
  BY <1>9 DEF Expire
<1>10. ASSUME NEW w \in Workers, WaitReturns(w) PROVE ProcessInv'
  <2>1. /\ leader[w] = "zombie" /\ leader'[w] = "reaped"
        /\ done'[w] = IF code[w] = 0 THEN Nil ELSE ExitError(code[w])
        /\ \A v \in Workers \ {w} : leader'[v] = leader[v] /\ done'[v] = done[v]
        /\ UNCHANGED <<setting, pid, child, code>>
    BY <1>10 DEF WaitReturns, TypeOK
  <2>2. \A v \in Workers : Lives(v)' => Lives(v)
    BY <2>1
  <2>3. QED
    BY <2>1, <2>2
<1>11. ASSUME NEW w \in Workers, SelectTimeout(w) PROVE ProcessInv'
  BY <1>11 DEF SelectTimeout, Goto, KillGroup
<1>12. ASSUME NEW w \in Workers, AwaitDone(w) PROVE ProcessInv'
  BY <1>12 DEF AwaitDone, Goto
<1>13. ASSUME NEW w \in Workers, SelectDone(w) PROVE ProcessInv'
  BY <1>13 DEF SelectDone, Goto
<1>14. ASSUME NEW w \in Workers, Cleanup(w) PROVE ProcessInv'
  BY <1>14 DEF Cleanup, Goto, KillGroup
<1>15. ASSUME NEW w \in Workers, Judge(w) PROVE ProcessInv'
  BY <1>15 DEF Judge, Goto
<1>16. CASE UNCHANGED vars
  BY <1>16 DEF vars
<1>17. QED
  BY <1>1, <1>2, <1>3, <1>4, <1>5, <1>6, <1>7, <1>8,
     <1>9, <1>10, <1>11, <1>12, <1>13, <1>14, <1>15, <1>16 DEF Next, Environment, Runner, Terminated

(* Every step keeps the runs.                                              *)
LEMMA RunStep == TestRunInv /\ [Next]_vars => RunInv'
<1> SUFFICES ASSUME TestRunInv, [Next]_vars PROVE RunInv'
  OBVIOUS
<1>a. TypeOK /\ ProcessInv /\ RunInv
  BY DEF TestRunInv
<1> USE TestRunAssumption, <1>a DEF RunInv, TypeOK
<1>1. ASSUME NEW w \in Workers, SpawnChild(w) PROVE RunInv'
  BY <1>1 DEF SpawnChild
<1>2. ASSUME NEW w \in Workers, ChildExits(w) PROVE RunInv'
  BY <1>2 DEF ChildExits
<1>3. ASSUME NEW w \in Workers, Alarm(w) PROVE RunInv'
  BY <1>3 DEF Alarm
<1>4. ASSUME NEW w \in Workers, NEW c \in ExitCodes \cup {Signaled}, LeaderEnds(w, c) PROVE RunInv'
  BY <1>4 DEF LeaderEnds
<1>5. ASSUME NEW w \in Workers, WatchCtx(w) PROVE RunInv'
  BY <1>5 DEF WatchCtx
<1>6. ASSUME NEW w \in Workers, StartTest(w) PROVE RunInv'
  BY <1>6 DEF StartTest, Goto
<1>7. ASSUME NEW w \in Workers, StartFails(w) PROVE RunInv'
  BY <1>7, ErrorsOfRun DEF StartFails, Goto, ProcessInv
<1>8. ASSUME NEW w \in Workers, StartTooLate(w) PROVE RunInv'
  BY <1>8, ErrorsOfRun DEF StartTooLate, Goto, ProcessInv
<1>9. ASSUME NEW w \in Workers, Expire(w) PROVE RunInv'
  BY <1>9 DEF Expire
<1>10. ASSUME NEW w \in Workers, WaitReturns(w) PROVE RunInv'
  BY <1>10 DEF WaitReturns
<1>11. ASSUME NEW w \in Workers, SelectTimeout(w) PROVE RunInv'
  BY <1>11 DEF SelectTimeout, Goto, KillGroup
<1>12. ASSUME NEW w \in Workers, AwaitDone(w) PROVE RunInv'
  <2>1. leader[w] = "reaped"
    BY <1>12 DEF AwaitDone, ProcessInv
  <2>2. /\ pc'[w] = "cleanup" /\ err'[w] = CtxErr
        /\ \A v \in Workers \ {w} : pc'[v] = pc[v] /\ err'[v] = err[v]
        /\ UNCHANGED <<expired, leader, code, child, status>>
    BY <1>12 DEF AwaitDone, Goto
  <2>3. QED
    BY <2>1, <2>2, ErrorsOfRun
<1>13. ASSUME NEW w \in Workers, SelectDone(w) PROVE RunInv'
  <2>1. leader[w] = "reaped" /\ done[w] = IF code[w] = 0 THEN Nil ELSE ExitError(code[w])
    BY <1>13 DEF SelectDone, ProcessInv
  <2>2. done[w] \in Errors /\ (done[w].kind = "exit" => done[w].code = code[w])
    BY <1>13, <2>1, ErrorsOfRun DEF SelectDone
  <2>3. /\ pc'[w] = "cleanup" /\ err'[w] = done[w]
        /\ \A v \in Workers \ {w} : pc'[v] = pc[v] /\ err'[v] = err[v]
        /\ UNCHANGED <<expired, leader, code, child, status>>
    BY <1>13 DEF SelectDone, Goto
  <2>4. QED
    BY <2>1, <2>2, <2>3
<1>14. ASSUME NEW w \in Workers, Cleanup(w) PROVE RunInv'
  BY <1>14 DEF Cleanup, Goto, KillGroup
<1>15. ASSUME NEW w \in Workers, Judge(w) PROVE RunInv'
  BY <1>15 DEF Judge, Goto
<1>16. CASE UNCHANGED vars
  BY <1>16 DEF vars
<1>17. QED
  BY <1>1, <1>2, <1>3, <1>4, <1>5, <1>6, <1>7, <1>8,
     <1>9, <1>10, <1>11, <1>12, <1>13, <1>14, <1>15, <1>16 DEF Next, Environment, Runner, Terminated

(* Every step keeps the deadline.                                          *)
LEMMA DeadlineStep == TestRunInv /\ [Next]_vars => DeadlineInv'
<1> SUFFICES ASSUME TestRunInv, [Next]_vars PROVE DeadlineInv'
  OBVIOUS
<1>a. TypeOK /\ ProcessInv /\ RunInv /\ DeadlineInv
  BY DEF TestRunInv
<1> USE TestRunAssumption, <1>a DEF DeadlineInv, TypeOK
<1>1. ASSUME NEW w \in Workers, SpawnChild(w) PROVE DeadlineInv'
  BY <1>1 DEF SpawnChild
<1>2. ASSUME NEW w \in Workers, ChildExits(w) PROVE DeadlineInv'
  BY <1>2 DEF ChildExits
<1>3. ASSUME NEW w \in Workers, Alarm(w) PROVE DeadlineInv'
  <2>1. testExecutionTime(setting) > 0
    BY <1>3 DEF Alarm, ProcessInv
  <2>2. expired[w]
    BY <1>3, <2>1, AlarmFollowsDeadline DEF Alarm
  <2>3. QED
    BY <1>3, <2>2 DEF Alarm
<1>4. ASSUME NEW w \in Workers, NEW c \in ExitCodes \cup {Signaled}, LeaderEnds(w, c) PROVE DeadlineInv'
  BY <1>4 DEF LeaderEnds
<1>5. ASSUME NEW w \in Workers, WatchCtx(w) PROVE DeadlineInv'
  BY <1>5 DEF WatchCtx
<1>6. ASSUME NEW w \in Workers, StartTest(w) PROVE DeadlineInv'
  BY <1>6 DEF StartTest, Goto
<1>7. ASSUME NEW w \in Workers, StartFails(w) PROVE DeadlineInv'
  BY <1>7 DEF StartFails, Goto
<1>8. ASSUME NEW w \in Workers, StartTooLate(w) PROVE DeadlineInv'
  BY <1>8 DEF StartTooLate, Goto
<1>9. ASSUME NEW w \in Workers, Expire(w) PROVE DeadlineInv'
  BY <1>9 DEF Expire
<1>10. ASSUME NEW w \in Workers, WaitReturns(w) PROVE DeadlineInv'
  BY <1>10 DEF WaitReturns
<1>11. ASSUME NEW w \in Workers, SelectTimeout(w) PROVE DeadlineInv'
  BY <1>11 DEF SelectTimeout, Goto, KillGroup
<1>12. ASSUME NEW w \in Workers, AwaitDone(w) PROVE DeadlineInv'
  BY <1>12 DEF AwaitDone, Goto
<1>13. ASSUME NEW w \in Workers, SelectDone(w) PROVE DeadlineInv'
  BY <1>13 DEF SelectDone, Goto
<1>14. ASSUME NEW w \in Workers, Cleanup(w) PROVE DeadlineInv'
  <2>1. leader[w] = "reaped"
    BY <1>14 DEF Cleanup, Goto, RunInv
  <2>2. \A v \in Workers : killer'[v] = v => killer[v] = v
    BY <1>14, <2>1 DEF Cleanup, KillGroup
  <2>3. QED
    BY <1>14, <2>2 DEF Cleanup
<1>15. ASSUME NEW w \in Workers, Judge(w) PROVE DeadlineInv'
  BY <1>15 DEF Judge, Goto
<1>16. CASE UNCHANGED vars
  BY <1>16 DEF vars
<1>17. QED
  BY <1>1, <1>2, <1>3, <1>4, <1>5, <1>6, <1>7, <1>8,
     <1>9, <1>10, <1>11, <1>12, <1>13, <1>14, <1>15, <1>16 DEF Next, Environment, Runner, Terminated

(* Before any test run has begun.                                          *)
LEMMA InitTestRunInv == Init => TestRunInv
<1> SUFFICES ASSUME Init PROVE TestRunInv
  OBVIOUS
<1> USE TestRunAssumption DEF Init
<1>1. TypeOK
  BY DEF TypeOK
<1>2. ProcessInv
  BY DEF ProcessInv, Lives
<1>3. RunInv
  BY DEF RunInv
<1>4. DeadlineInv
  BY DEF DeadlineInv
<1>5. QED
  BY <1>1, <1>2, <1>3, <1>4 DEF TestRunInv

(* The inductive invariant holds of any number of concurrent test runs.    *)
THEOREM TestRunInvariance == Spec => []TestRunInv
<1>1. TestRunInv /\ [Next]_vars => TestRunInv'
  BY TypeStep, ProcessStep, RunStep, DeadlineStep DEF TestRunInv
<1>2. QED
  BY InitTestRunInv, <1>1, PTL DEF Spec

(* When runTests returns its `go test` has been waited for and no test     *)
(* binary of the group is left, whatever races there were.                 *)
THEOREM NothingOutlivesRunTests == Spec => []NoOrphans
<1>1. TestRunInv => NoOrphans
  BY DEF TestRunInv, RunInv, NoOrphans
<1>2. QED
  BY <1>1, TestRunInvariance, PTL

(* KILLED and NOT VIABLE are what `go test` itself said in time, and tests *)
(* that the deadline killed are TIMED OUT.                                 *)
THEOREM SoundVerdicts == Spec => []VerdictsAreSound
<1>1. TestRunInv => VerdictsAreSound
  <2> SUFFICES ASSUME TestRunInv, NEW w \in Workers, pc[w] = "returned"
               PROVE  /\ status[w] = Killed => code[w] = 1 /\ ~expired[w]
                      /\ status[w] = NotViable => code[w] = 2 /\ ~expired[w]
                      /\ killer[w] = w => status[w] = TimedOut
    BY DEF VerdictsAreSound
  <2>1. /\ status[w] = Verdict(err[w], expired[w])
        /\ err[w].kind = "exit" => err[w].code = code[w]
    BY DEF TestRunInv, RunInv
  <2>2. CASE expired[w]
    BY <2>1, <2>2 DEF Verdict, TimedOut, Killed, NotViable
  <2>3. CASE ~expired[w]
    <3>1. killer[w] # w
      BY <2>3 DEF TestRunInv, DeadlineInv
    <3>2. QED
      BY <2>1, <2>3, <3>1 DEF Verdict, getTestFailedStatus, Killed, NotViable, Lived
  <2>4. QED
    BY <2>2, <2>3
<1>2. QED
  BY <1>1, TestRunInvariance, PTL

(* "It's gremlins that catches the test timeout and not the test itself",  *)
(* for every setting of the two timeouts that wraps or not, and a mutant   *)
(* that timed out had its time unless the coefficient forbids it.          *)
THEOREM OwnTimeouts == Spec => []TimeoutsAreOurs
<1>1. TestRunInv => TimeoutsAreOurs
  <2> SUFFICES ASSUME TestRunInv, NEW w \in Workers, pc[w] = "returned"
               PROVE  /\ alarmed[w] => status[w] = TimedOut
                      /\ Moderate(setting) => /\ testExecutionTime(setting) >= Second
                                              /\ testExecutionTime(setting) >= setting.elapsed
    BY DEF TimeoutsAreOurs
  <2>1. alarmed[w] => expired[w]
    BY DEF TestRunInv, DeadlineInv
  <2>2. status[w] = Verdict(err[w], expired[w])
    BY DEF TestRunInv, RunInv
  <2>3. setting \in Settings
    BY DEF TestRunInv, TypeOK
  <2>4. QED
    BY <2>1, <2>2, <2>3, ModerateDeadline DEF Verdict
<1>2. QED
  BY <1>1, TestRunInvariance, PTL
===============================================================================
