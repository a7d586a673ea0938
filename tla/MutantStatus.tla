---------------------------- MODULE MutantStatus ----------------------------
(***************************************************************************)
(* The life of a mutant's Status (internal/mutator/mutator.go), the status *)
(* the engine gives a mutant when it finds it, and the one it derives from *)
(* the exit code of the tests.                                             *)
(***************************************************************************)
EXTENDS Integers

NotCovered == "NOT COVERED"
Runnable   == "RUNNABLE"
Skipped    == "SKIPPED"
Lived      == "LIVED"
Killed     == "KILLED"
NotViable  == "NOT VIABLE"
TimedOut   == "TIMED OUT"

Status == {NotCovered, Runnable, Skipped, Lived, Killed, NotViable, TimedOut}

(* What findMutations can give a mutant, and what runTests can.            *)
FoundStatus  == {NotCovered, Runnable, Skipped}
TestedStatus == {Lived, Killed, NotViable, TimedOut}

(* Engine.mutationStatus: NotCovered is the zero value; an unchanged line  *)
(* is skipped whether covered or not.                                      *)
mutationStatus(covered, changed) ==
    IF ~changed THEN Skipped
    ELSE IF covered THEN Runnable ELSE NotCovered

(* `go test` exits with 1 when tests fail and with 2 when the build fails. *)
getTestFailedStatus(exitCode) ==
    CASE exitCode = 1 -> Killed
      [] exitCode = 2 -> NotViable
      [] OTHER        -> Lived
=============================================================================
