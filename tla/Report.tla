------------------------------- MODULE Report -------------------------------
(***************************************************************************)
(* internal/report: what Do makes of the results of a run (the counters,   *)
(* the percentages, the quality gate) and the exit codes of                *)
(* internal/execution.  Percentages are exact fractions here; the rounding *)
(* of float64 is not modelled.                                             *)
(***************************************************************************)
EXTENDS MutantStatus, Configuration, FiniteSets

(* reportMutationStatus, over all mutants: one counter per Status.  The    *)
(* results are the statuses of the mutants here.                           *)
countStatus(results, s) ==
    Cardinality({i \in DOMAIN results : results[i] = s})

(* A percentage num / den; nothing to divide leaves Go's zero value.       *)
Fraction(num, den) == [num |-> num, den |-> den]
Zero == Fraction(0, 1)

(* Faulty variant: the efficacy guarded by the wrong counter.              *)
tEfficacyUnguarded(results, dryRun) ==
    LET killed == countStatus(results, Killed)
        lived  == countStatus(results, Lived)
    IN  IF ~dryRun THEN Fraction(killed, killed + lived) ELSE Zero

(* Faulty variant: killed and lived swapped.                               *)
tEfficacySwapped(results, dryRun) ==
    LET killed == countStatus(results, Killed)
        lived  == countStatus(results, Lived)
    IN  IF ~dryRun /\ lived > 0 THEN Fraction(lived, killed + lived) ELSE Zero

(* Faulty variant: a mutant that does not build counts as a survivor.      *)
tEfficacyOfTested(results, dryRun) ==
    LET killed == countStatus(results, Killed)
        tested == killed + countStatus(results, Lived) + countStatus(results, NotViable)
    IN  IF ~dryRun /\ killed > 0 THEN Fraction(killed, tested) ELSE Zero

tEfficacy(results, dryRun) ==
    LET killed == countStatus(results, Killed)
        lived  == countStatus(results, Lived)
    IN  IF ~dryRun /\ killed > 0 THEN Fraction(killed, killed + lived) ELSE Zero

mCovered(results, dryRun) ==
    LET covered    == IF dryRun THEN countStatus(results, Runnable)
                      ELSE countStatus(results, Killed) + countStatus(results, Lived)
        notCovered == countStatus(results, NotCovered)
    IN  IF covered > 0 THEN Fraction(covered, covered + notCovered) ELSE Zero

-----------------------------------------------------------------------------
(* Faulty variant: an integer, as YAML has it, is not looked for.          *)
thresholdFloatOnly(value) == GetAs("float64", value)

(* A threshold may be given as a float64 or as an int.                     *)
threshold(value) ==
    LET float == GetAs("float64", value)
    IN  IF float = 0 THEN GetAs("int", value) ELSE float

(* The fraction, in percent, is at most n.                                 *)
AtMost(fraction, n) == fraction.num * 100 <= n * fraction.den

(* What the process ends with: errorMapping, and main's codes.             *)
ExitOK == 0
ExitFailure == 1
ExitEfficacyThreshold == 10
ExitMutantCoverageThreshold == 11

assess(results, dryRun, et, ct) ==
    IF dryRun THEN ExitOK
    ELSE IF threshold(et) > 0 /\ AtMost(tEfficacy(results, dryRun), threshold(et))
         THEN ExitEfficacyThreshold
    ELSE IF threshold(ct) > 0 /\ AtMost(mCovered(results, dryRun), threshold(ct))
         THEN ExitMutantCoverageThreshold
    ELSE ExitOK

(* Do: no results are no failure.                                          *)
Do(results, dryRun, et, ct) ==
    IF results = <<>> THEN ExitOK ELSE assess(results, dryRun, et, ct)
=============================================================================
