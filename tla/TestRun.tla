------------------------------- MODULE TestRun -------------------------------
(***************************************************************************)
(* runTests and run (executor.go), with the process group handling of      *)
(* process_unix.go: `go test` is started as the leader of a process group  *)
(* of its own, a goroutine waits for it, the select takes its result or    *)
(* the deadline, whichever it sees, the whole group is killed on the way   *)
(* out in every case, and the outcome becomes the mutant's status.  The    *)
(* deadline, and the -timeout that `go test` gets, are NewExecutorDealer's *)
(* and getTestArgs'.                                                       *)
(*                                                                         *)
(* The processes, the kernel's pids, os/exec's own watcher of the context  *)
(* and the alarm of the test binary are external: modelled as far as the   *)
(* code can tell.                                                          *)
(***************************************************************************)
EXTENDS MutantStatus, FiniteSets

CONSTANTS
    Workers,
    Pids,      \* the pids the kernel can give out
    ExitCodes, \* how `go test` may exit by itself
    Faults,    \* "start": the command may fail to start;
               \* "oom": somebody else may kill the process
    Settings,  \* pairs of the coverage run's duration and the coefficient
    Limit,     \* bound: the first time.Duration that is too long
    None

-----------------------------------------------------------------------------
(* The dealer's arithmetic, on integers that wrap; in half seconds.        *)

Second == 2
DefaultTimeoutCoefficient == 5

ASSUME TestRunAssumption ==
    /\ Limit \in Nat /\ Limit > 2 * Second
    /\ \A s \in Settings : s.elapsed \in Nat /\ s.tCoefficient \in Int
    /\ ExitCodes \subseteq Nat /\ 1 \in ExitCodes
    /\ Faults \subseteq {"start", "oom"}
    /\ None \notin Pids \cup Workers

Wrap(n) == ((n + Limit) % (2 * Limit)) - Limit

testExecutionTime(s) ==
    LET coefficient == IF s.tCoefficient # 0 THEN s.tCoefficient ELSE DefaultTimeoutCoefficient
        baseTime    == IF s.elapsed < Second THEN Second ELSE s.elapsed
    IN  Wrap(baseTime * coefficient)

(* Faulty variant: the deadline itself.                                    *)
testTimeoutAtDeadline(s) == testExecutionTime(s)

(* getTestArgs: the -timeout of `go test`, two seconds after the deadline. *)
testTimeout(s) == Wrap(2 * Second + testExecutionTime(s))

-----------------------------------------------------------------------------
(* ExitError.ExitCode() of a process that a signal ended.                  *)
Signaled == -1

(* What run returns: nil, an ExitError's code, ctx.Err(), Start's error.   *)
Nil      == [kind |-> "nil"]
CtxErr   == [kind |-> "ctx"]
StartErr == [kind |-> "start"]
ExitError(c) == [kind |-> "exit", code |-> c]
Errors == {Nil, CtxErr, StartErr} \cup {ExitError(c) : c \in ExitCodes \cup {Signaled}}

VARIABLES
    setting,  \* what the dealer computes with; never changes
    pc,       \* each worker in runTests
    expired,  \* its context's deadline has passed
    pid,      \* cmd.Process.Pid
    leader,   \* `go test`: "none", "alive", "zombie" (not yet waited for), "reaped"
    code,     \* how it ended: an exit code, Signaled, or None
    child,    \* a test binary in the same group is alive
    done,     \* the buffered channel of the waiting goroutine
    err,      \* what run returns
    status,   \* what runTests returns
    killer,   \* history: the worker whose kill ended the leader
    alarmed   \* history: the test binary ended itself at its -timeout

vars == <<setting, pc, expired, pid, leader, code, child, done, err, status, killer, alarmed>>

TypeOK ==
    /\ setting \in Settings
    /\ pc \in [Workers -> {"idle", "select", "await", "cleanup", "judge", "returned"}]
    /\ expired \in [Workers -> BOOLEAN]
    /\ pid \in [Workers -> Pids \cup {None}]
    /\ leader \in [Workers -> {"none", "alive", "zombie", "reaped"}]
    /\ code \in [Workers -> ExitCodes \cup {Signaled, None}]
    /\ child \in [Workers -> BOOLEAN]
    /\ done \in [Workers -> Errors \cup {None}]
    /\ err \in [Workers -> Errors \cup {None}]
    /\ status \in [Workers -> TestedStatus \cup {None}]
    /\ killer \in [Workers -> Workers \cup {None}]
    /\ alarmed \in [Workers -> BOOLEAN]

Init ==
    /\ setting \in Settings
    /\ pc = [w \in Workers |-> "idle"]
    /\ expired = [w \in Workers |-> FALSE]
    /\ pid = [w \in Workers |-> None]
    /\ leader = [w \in Workers |-> "none"]
    /\ code = [w \in Workers |-> None]
    /\ child = [w \in Workers |-> FALSE]
    /\ done = [w \in Workers |-> None]
    /\ err = [w \in Workers |-> None]
    /\ status = [w \in Workers |-> None]
    /\ killer = [w \in Workers |-> None]
    /\ alarmed = [w \in Workers |-> FALSE]

Goto(w, from, to) == pc[w] = from /\ pc' = [pc EXCEPT ![w] = to]

-----------------------------------------------------------------------------
(* The operating system *)

(* A process that was not waited for, or a group that has a member.        *)
Lives(w) == leader[w] \in {"alive", "zombie"} \/ child[w]

InUse(p) == \E w \in Workers : pid[w] = p /\ Lives(w)

FreePids == {p \in Pids : ~InUse(p)}

(* SIGKILL, sent by worker k, to every process of group p.                 *)
KillGroup(p, k) ==
    LET hit(v) == pid[v] = p /\ leader[v] = "alive"
    IN  /\ leader' = [v \in Workers |-> IF hit(v) THEN "zombie" ELSE leader[v]]
        /\ code' = [v \in Workers |-> IF hit(v) THEN Signaled ELSE code[v]]
        /\ killer' = [v \in Workers |-> IF hit(v) THEN k ELSE killer[v]]
        /\ child' = [v \in Workers |-> child[v] /\ pid[v] # p]

(* `go test` runs a test binary, which may outlive it or end before it.    *)
SpawnChild(w) ==
    /\ leader[w] = "alive" /\ ~child[w]
    /\ child' = [child EXCEPT ![w] = TRUE]
    /\ UNCHANGED <<setting, alarmed, pc, expired, pid, leader, code, done, err, status, killer>>

ChildExits(w) ==
    /\ child[w]
    /\ child' = [child EXCEPT ![w] = FALSE]
    /\ UNCHANGED <<setting, alarmed, pc, expired, pid, leader, code, done, err, status, killer>>

LeaderEnds(w, c) ==
    /\ leader[w] = "alive"
    /\ leader' = [leader EXCEPT ![w] = "zombie"]
    /\ code' = [code EXCEPT ![w] = c]
    /\ UNCHANGED <<setting, alarmed, pc, expired, pid, child, done, err, status, killer>>

(* The test binary's alarm: it panics, and `go test` exits with 1.  The    *)
(* binary started after the deadline was set, so the alarm is the later of *)
(* the two when -timeout is the longer; it is off when not positive.       *)
Alarm(w) ==
    /\ child[w] /\ leader[w] = "alive"
    /\ testTimeout(setting) > 0
    /\ testTimeout(setting) > testExecutionTime(setting) => expired[w]
    /\ child' = [child EXCEPT ![w] = FALSE]
    /\ leader' = [leader EXCEPT ![w] = "zombie"]
    /\ code' = [code EXCEPT ![w] = 1]
    /\ alarmed' = [alarmed EXCEPT ![w] = TRUE]
    /\ UNCHANGED <<setting, pc, expired, pid, done, err, status, killer>>

(* exec.CommandContext kills the leader, and only it, at the deadline.     *)
WatchCtx(w) ==
    /\ expired[w] /\ leader[w] = "alive"
    /\ leader' = [leader EXCEPT ![w] = "zombie"]
    /\ code' = [code EXCEPT ![w] = Signaled]
    /\ killer' = [killer EXCEPT ![w] = w]
    /\ UNCHANGED <<setting, alarmed, pc, expired, pid, child, done, err, status>>

-----------------------------------------------------------------------------
(* runTests and run *)

(* cmd.Start() in a new process group.                                     *)
StartTest(w) ==
    /\ testExecutionTime(setting) > 0
    /\ Goto(w, "idle", "select")
    /\ \E p \in FreePids : pid' = [pid EXCEPT ![w] = p]
    /\ leader' = [leader EXCEPT ![w] = "alive"]
    /\ UNCHANGED <<setting, alarmed, expired, code, child, done, err, status, killer>>

StartFails(w) ==
    /\ "start" \in Faults
    /\ Goto(w, "idle", "judge")
    /\ err' = [err EXCEPT ![w] = StartErr]
    /\ UNCHANGED <<setting, alarmed, expired, pid, leader, code, child, done, status, killer>>

(* The deadline passes before cmd.Start() looks at the context, as it has  *)
(* from the outset when it is not positive.                                *)
StartTooLate(w) ==
    /\ Goto(w, "idle", "judge")
    /\ expired' = [expired EXCEPT ![w] = TRUE]
    /\ err' = [err EXCEPT ![w] = CtxErr]
    /\ UNCHANGED <<setting, alarmed, pid, leader, code, child, done, status, killer>>

(* Faulty variant: a context without a timeout.                            *)
ExpireNever(w) ==
    /\ FALSE
    /\ UNCHANGED vars

(* context.WithTimeout: the deadline passes, until cancel() is called.     *)
Expire(w) ==
    /\ pc[w] \notin {"idle", "returned"}
    /\ ~expired[w]
    /\ expired' = [expired EXCEPT ![w] = TRUE]
    /\ UNCHANGED <<setting, alarmed, pc, pid, leader, code, child, done, err, status, killer>>

(* done <- cmd.Wait(): the leader is reaped; children are not waited for.  *)
WaitReturns(w) ==
    /\ leader[w] = "zombie"
    /\ leader' = [leader EXCEPT ![w] = "reaped"]
    /\ done' = [done EXCEPT ![w] = IF code[w] = 0 THEN Nil ELSE ExitError(code[w])]
    /\ UNCHANGED <<setting, alarmed, pc, expired, pid, code, child, err, status, killer>>

(* select, case <-ctx.Done(): kill the group, then wait for the result.    *)
SelectTimeout(w) ==
    /\ Goto(w, "select", "await")
    /\ expired[w]
    /\ KillGroup(pid[w], w)
    /\ UNCHANGED <<setting, alarmed, expired, pid, done, err, status>>

AwaitDone(w) ==
    /\ Goto(w, "await", "cleanup")
    /\ done[w] # None
    /\ done' = [done EXCEPT ![w] = None]
    /\ err' = [err EXCEPT ![w] = CtxErr]
    /\ UNCHANGED <<setting, alarmed, expired, pid, leader, code, child, status, killer>>

(* select, case err := <-done; either case may be taken when both can.     *)
SelectDone(w) ==
    /\ Goto(w, "select", "cleanup")
    /\ done[w] # None
    /\ done' = [done EXCEPT ![w] = None]
    /\ err' = [err EXCEPT ![w] = done[w]]
    /\ UNCHANGED <<setting, alarmed, expired, pid, leader, code, child, status, killer>>

(* Faulty variant: the group is killed at the deadline only.               *)
CleanupNothing(w) ==
    /\ Goto(w, "cleanup", "judge")
    /\ UNCHANGED <<setting, alarmed, expired, pid, leader, code, child, done, err, status, killer>>

(* The deferred killProcessGroup(cmd) and Release.                         *)
Cleanup(w) ==
    /\ Goto(w, "cleanup", "judge")
    /\ KillGroup(pid[w], w)
    /\ UNCHANGED <<setting, alarmed, expired, pid, done, err, status>>

(* Faulty variant: the error is looked at before the deadline, so a killed *)
(* `go test` counts as an ordinary exit.                                   *)
VerdictErrorFirst(e, late) ==
    IF e.kind = "exit" THEN getTestFailedStatus(e.code)
    ELSE IF late THEN TimedOut
    ELSE Lived

(* Faulty variant: the status is left alone when no exit code is at hand.  *)
VerdictUnset(e, late) ==
    IF late THEN TimedOut
    ELSE IF e.kind = "exit" THEN getTestFailedStatus(e.code)
    ELSE IF e.kind = "nil" THEN Lived
    ELSE Runnable

(* What runTests makes of run's error and of ctx.Err().                    *)
Verdict(e, late) ==
    IF late THEN TimedOut
    ELSE IF e.kind = "exit" THEN getTestFailedStatus(e.code)
    ELSE Lived

Judge(w) ==
    /\ Goto(w, "judge", "returned")
    /\ status' = [status EXCEPT ![w] = Verdict(err[w], expired[w])]
    /\ UNCHANGED <<setting, alarmed, expired, pid, leader, code, child, done, err, killer>>

-----------------------------------------------------------------------------
Environment(w) ==
    \/ SpawnChild(w)
    \/ ChildExits(w)
    \/ Alarm(w)
    \/ \E c \in ExitCodes : LeaderEnds(w, c)
    \/ "oom" \in Faults /\ LeaderEnds(w, Signaled)

(* The goroutines of one runTests.                                         *)
Runner(w) ==
    \/ StartTest(w) \/ StartFails(w) \/ StartTooLate(w)
    \/ SelectTimeout(w) \/ SelectDone(w) \/ AwaitDone(w)
    \/ Cleanup(w)
    \/ Judge(w)

Terminated ==
    /\ \A w \in Workers : pc[w] = "returned"
    /\ UNCHANGED vars

Next ==
    \/ \E w \in Workers : Environment(w) \/ Runner(w) \/ WaitReturns(w) \/ Expire(w) \/ WatchCtx(w)
    \/ Terminated

(***************************************************************************)
(* Goroutines and timers are fair; the tests are not: a mutant may make    *)
(* them run for ever.                                                      *)
(***************************************************************************)
Fairness ==
    \A w \in Workers :
        WF_vars(Runner(w)) /\ WF_vars(WaitReturns(w)) /\ WF_vars(Expire(w)) /\ WF_vars(WatchCtx(w))

Spec == Init /\ [][Next]_vars /\ Fairness

-----------------------------------------------------------------------------
(* Properties *)

(* No process of a test run outlives runTests, whether the tests ended, hit*)
(* the deadline, or left a binary behind when they ended: killProcessGroup *)
(* "prevents orphaned processes from accumulating" (process_unix.go:39).   *)
NoOrphans ==
    \A w \in Workers : pc[w] = "returned" => leader[w] \in {"none", "reaped"} /\ ~child[w]

(* A mutant counts as KILLED or NOT VIABLE only when `go test` said so by  *)
(* itself, never because the deadline's kill, from run or from os/exec,    *)
(* got in first; tests that the deadline has killed count as TIMED OUT.    *)
VerdictsAreSound ==
    \A w \in Workers : pc[w] = "returned" =>
        /\ status[w] = Killed => code[w] = 1 /\ ~expired[w]
        /\ status[w] = NotViable => code[w] = 2 /\ ~expired[w]
        /\ killer[w] = w => status[w] = TimedOut

(* Neither negative nor near the overflow.                                 *)
Moderate(s) ==
    /\ s.tCoefficient >= 0
    /\ (s.elapsed + Second) * (s.tCoefficient + DefaultTimeoutCoefficient) < Limit

(* "It's gremlins that catches the test timeout and not the test itself"   *)
(* (executor.go:234): tests that their own -timeout ends count as TIMED    *)
(* OUT, never as a failure that kills the mutant, even where the two       *)
(* timeouts overflow; and unless the coefficient is negative or overflows, *)
(* the deadline leaves the time the unmutated tests took, or a second.     *)
TimeoutsAreOurs ==
    \A w \in Workers : pc[w] = "returned" =>
        /\ alarmed[w] => status[w] = TimedOut
        /\ status[w] = TimedOut /\ Moderate(setting) =>
               testExecutionTime(setting) >= Second /\ testExecutionTime(setting) >= setting.elapsed

(* Groups that live have pids of their own; a child was started by a       *)
(* leader; a leader that has ended has left its code, and only one that    *)
(* has been waited for is reported.                                        *)
ProcessInv ==
    /\ \A v, w \in Workers : Lives(v) /\ Lives(w) /\ pid[v] = pid[w] => v = w
    /\ \A w \in Workers :
          /\ leader[w] = "none" => ~child[w]
          /\ leader[w] # "none" => testExecutionTime(setting) > 0
          /\ leader[w] \in {"zombie", "reaped"} => code[w] \in ExitCodes \cup {Signaled}
          /\ done[w] # None =>
                leader[w] = "reaped" /\ done[w] = IF code[w] = 0 THEN Nil ELSE ExitError(code[w])

(* Where a worker in run is, its processes are; what run returns of an     *)
(* exit is the code of its own leader.                                     *)
RunInv ==
    \A w \in Workers :
        /\ pc[w] = "idle" => leader[w] = "none" /\ ~expired[w]
        /\ pc[w] \in {"select", "await"} => leader[w] # "none"
        /\ pc[w] = "cleanup" => leader[w] = "reaped"
        /\ pc[w] \in {"judge", "returned"} => leader[w] \in {"none", "reaped"} /\ ~child[w]
        /\ pc[w] \in {"cleanup", "judge", "returned"} =>
              err[w] \in Errors /\ (err[w].kind = "exit" => err[w].code = code[w])
        /\ pc[w] = "returned" => status[w] = Verdict(err[w], expired[w])

(* Nothing of ours ends the leader, and it does not end itself at its      *)
(* -timeout, before the deadline.                                          *)
DeadlineInv ==
    \A w \in Workers : killer[w] = w \/ alarmed[w] => expired[w]

(* The inductive invariant: why the properties above hold of any number of *)
(* workers, pids, exit codes and settings.                                 *)
TestRunInv == TypeOK /\ ProcessInv /\ RunInv /\ DeadlineInv

(* runTests returns, even of tests that never end.                         *)
TestsEnd == \A w \in Workers : <>(pc[w] = "returned")
=============================================================================
