------------------------------ MODULE ReportDo ------------------------------
(***************************************************************************)
(* A run as its user sees it: the configuration is read, every mutant that *)
(* the collector receives is logged and kept, and Do reports on all of     *)
(* them, writes the output file and judges.  A mutant is its file, its     *)
(* type and its status.                                                    *)
(***************************************************************************)
EXTENDS Report, SequencesExt

CONSTANTS
    Sources,     \* where the settings come from, and which they are
    Mutants,     \* the file and the type of a mutant
    MaxMutants   \* bound on the length of the results

(* viper (v1.21.0) has no case for a float64 flag and hands out a string:  *)
(* so are the thresholds, given or not.  The environment is strings, too,  *)
(* and a file may have anything; what is neither a number nor TRUE counts  *)
(* as 0.  Only a module has a file in its root.                            *)
FloatValue  == [type : {"float64"}, n : Int]
IntValue    == [type : {"int"}, n : Int]
BoolValue   == [type : {"bool"}, n : 0 .. 1]
StringValue == [type : {"string"}, n : Int]

ASSUME ReportAssumption ==
    /\ MaxMutants \in Nat
    /\ \A source \in Sources :
           /\ source.home \in BOOLEAN /\ source.module \in BOOLEAN
           /\ source.config \in [given : BOOLEAN, ext : BOOLEAN, isFile : BOOLEAN]
           /\ source.outputFault \in {"none", "create", "write"}
           /\ \A key \in DOMAIN source.flag :
                  source.flag[key] \in IF key = "dryrun" THEN BoolValue ELSE StringValue
           /\ \A key \in DOMAIN source.env : source.env[key] \in StringValue
           /\ \A path \in DOMAIN source.disk : \A key \in DOMAIN source.disk[path].values :
                  source.disk[path].values[key] \in FloatValue \cup IntValue \cup BoolValue \cup StringValue
           /\ "root" \in DOMAIN source.disk => source.module

VARIABLES
    src,         \* the sources of the configuration; never change
    settings,    \* viper's registry; empty before Init
    results,     \* report.Results.Mutants
    printed,     \* the results that are on the console
    diffs,       \* the results whose diff is, too
    outputFile,  \* what is in the output file
    exitCode     \* what main exits with; -1 before

vars == <<src, settings, results, printed, diffs, outputFile, exitCode>>

(* setFlagsOnCmd: the defaults of the flags, as viper hands them out.      *)
Text(n)  == [type |-> "string", n |-> n]
Bool(n)  == [type |-> "bool", n |-> n]
Defaults == [efficacy |-> Text(0), mcoverage |-> Text(0), dryrun |-> Bool(0)]

Configured == settings # <<>>
dryRun == Configured /\ GetAs("bool", settings.dryrun) = 1

Before    == [run |-> "before"]     \* a file that an earlier run has left
Truncated == [run |-> "truncated"]

Init ==
    /\ src \in Sources
    /\ settings = <<>>
    /\ results = <<>> /\ printed = {} /\ diffs = {}
    /\ outputFile = Before
    /\ exitCode = -1

(* gremlinsCmd.execute: configuration.Init, before the command runs.       *)
Configure ==
    /\ exitCode = -1 /\ ~Configured
    /\ ~InitError(src)
    /\ settings' = Registry(src, Defaults)
    /\ UNCHANGED <<src, results, printed, diffs, outputFile, exitCode>>

ConfigureFails ==
    /\ exitCode = -1 /\ ~Configured
    /\ InitError(src)
    /\ exitCode' = ExitFailure
    /\ UNCHANGED <<src, settings, results, printed, diffs, outputFile>>

-----------------------------------------------------------------------------
(* MutantLogger *)

Letters == [l |-> Lived, c |-> NotCovered, t |-> TimedOut, k |-> Killed, v |-> NotViable,
            s |-> Skipped, r |-> Runnable]

(* Faulty variant: what was read before a wrong letter still counts.       *)
ParseFilterInPart(letters) ==
    IF letters = {} THEN Status ELSE {Letters[c] : c \in letters \cap DOMAIN Letters}

(* ParseFilter: no filter, and one with a wrong letter, let all through.   *)
ParseFilter(letters) ==
    IF letters = {} \/ ~(letters \subseteq DOMAIN Letters) THEN Status
    ELSE {Letters[c] : c \in letters}

(* ParseDiffFilter: no filter, and one with a wrong letter, let none.      *)
ParseDiffFilter(letters) ==
    IF letters \subseteq {"l", "k"} THEN {Letters[c] : c \in letters} ELSE {}

(* log.Infof: nothing when silent.                                         *)
Infof(out, line) == IF src.silent THEN out ELSE out \cup {line}

(* MutantLogger.Mutant: the i-th result, which has status s, and its diff. *)
LogMutant(i, s) ==
    LET passes == s \in ParseFilter(src.statuses)
    IN  /\ printed' = IF passes THEN Infof(printed, i) ELSE printed
        /\ diffs' = IF passes /\ s \in ParseDiffFilter(src.diffStatuses)
                    THEN Infof(diffs, i) ELSE diffs

(* executeTests: log the mutant, and append it to the results.             *)
Collect(m, s) ==
    /\ exitCode = -1 /\ Configured
    /\ Len(results) < MaxMutants
    /\ LogMutant(Len(results) + 1, s)
    /\ results' = Append(results, [file |-> m.file, type |-> m.type, status |-> s])
    /\ UNCHANGED <<src, settings, outputFile, exitCode>>

(* A real run reports no RUNNABLE mutant, a dry run no tested one.         *)
ReportedStatus == IF dryRun THEN FoundStatus ELSE TestedStatus \cup {NotCovered, Skipped}

-----------------------------------------------------------------------------
(* Do *)

Statuses(mutants) == [i \in DOMAIN mutants |-> mutants[i].status]

(* Faulty variant: the mutants of a file replace each other.               *)
AddMutationAlone(files, m) ==
    [file \in DOMAIN files \cup {m.file} |-> IF file = m.file THEN <<m>> ELSE files[file]]

(* One round of newReport's loop: the mutant goes last in its file.        *)
AddMutation(files, m) ==
    [file \in DOMAIN files \cup {m.file} |->
        LET before == IF file \in DOMAIN files THEN files[file] ELSE <<>>
        IN  IF file = m.file THEN Append(before, m) ELSE before]

(* newReport: the mutations of each file, in the order they came in.       *)
newReport(mutants) ==
    LET files[n \in 0 .. Len(mutants)] ==
            IF n = 0 THEN <<>> ELSE AddMutation(files[n - 1], mutants[n])
    IN  files[Len(mutants)]

(* reportMutatorType                                                       *)
Statistics(mutants) ==
    [type \in {m.type : m \in Mutants} |->
        Cardinality({i \in DOMAIN mutants : mutants[i].type = type})]

fileReport(mutants) ==
    LET counts == Statuses(mutants)
    IN  [run |-> "this",
         TestEfficacy      |-> tEfficacy(counts, dryRun),
         MutationsCoverage |-> mCovered(counts, dryRun),
         MutantsTotal      |-> countStatus(counts, Lived) + countStatus(counts, Killed)
                               + countStatus(counts, NotViable),
         MutantsKilled     |-> countStatus(counts, Killed),
         MutantsLived      |-> countStatus(counts, Lived),
         MutantsNotViable  |-> countStatus(counts, NotViable),
         MutantsNotCovered |-> countStatus(counts, NotCovered),
         MutatorStatistics |-> Statistics(mutants),
         Files             |-> newReport(mutants)]

(* Report, then judge; nothing is written when there are no results, and   *)
(* errors of the output file are only logged.                              *)
ReportAndAssess ==
    /\ exitCode = -1 /\ Configured
    /\ outputFile' = IF results = <<>> \/ ~src.output \/ src.outputFault = "create" THEN outputFile
                     ELSE IF src.outputFault = "write" THEN Truncated
                     ELSE fileReport(results)
    /\ exitCode' = Do(Statuses(results), dryRun, settings.efficacy, settings.mcoverage)
    /\ UNCHANGED <<src, settings, results, printed, diffs>>

Terminated == exitCode # -1 /\ UNCHANGED vars

Next ==
    \/ Configure \/ ConfigureFails
    \/ \E m \in Mutants, s \in ReportedStatus : Collect(m, s)
    \/ ReportAndAssess
    \/ Terminated

Spec == Init /\ [][Next]_vars

-----------------------------------------------------------------------------
(* Properties *)

(* The percentages are percentages: nothing is divided by zero (newReport  *)
(* would put NaN in the report, and NaN passes every threshold) and none   *)
(* exceeds 100, whatever mixture of statuses comes in.                     *)
PercentagesAreDefined ==
    \A p \in {tEfficacy(Statuses(results), dryRun), mCovered(Statuses(results), dryRun)} :
        p.den > 0 /\ p.num \in 0 .. p.den

Verdict(statuses) == Do(statuses, dryRun, settings.efficacy, settings.mcoverage)

(* Better tests never fail a gate that worse tests pass: if Do accepts the *)
(* results, it still does when one LIVED or NOT COVERED mutant is KILLED   *)
(* instead.                                                                *)
KillingMoreNeverFails ==
    exitCode = ExitOK =>
        \A i \in DOMAIN results :
            ~dryRun /\ results[i].status \in {Lived, NotCovered} =>
                Verdict([Statuses(results) EXCEPT ![i] = Killed]) = ExitOK

(* "NOT VIABLE mutants are excluded from all the calculations"             *)
(* (docs/docs/usage/commands/unleash/index.md:346): a report with others   *)
(* has the same verdict without one.  And only KILLED and LIVED mutants    *)
(* decide whether the efficacy fails (index.md:397, src/cmd/unleash.go:98).*)
(* Which mutants the coverage is of besides, index.md:410 and              *)
(* unleash.go:99, "over the total mutants", do not agree on; the property  *)
(* says nothing of it.                                                     *)
OnlyCountedMutantsDecide ==
    \A i \in DOMAIN results :
        LET without == Verdict(RemoveAt(Statuses(results), i))
        IN  exitCode # -1 /\ Len(results) > 1 =>
                /\ results[i].status = NotViable => without = exitCode
                /\ results[i].status \notin {Killed, Lived} =>
                       (without = ExitEfficacyThreshold <=> exitCode = ExitEfficacyThreshold)

(* The files with settings: the one that --config names and no other       *)
(* (configuration.md:36), or else those in the locations.                  *)
Usable == "config" \in DOMAIN src.disk /\ src.config.isFile = src.config.ext /\ src.disk["config"].ok

Locations == {"etc", "xdg", "home", "root", "."}

ConfigFiles ==
    IF src.config.given THEN {f \in {"config"} : Usable} ELSE DOMAIN src.disk \cap Locations

(* The numbers that are asked for, by the flag before the environment      *)
(* before the files (configuration.md:3-7).                                *)
NumbersIn(f, key) ==
    IF src.disk[f].ok /\ key \in DOMAIN src.disk[f].values
       /\ src.disk[f].values[key] \in FloatValue \cup IntValue
    THEN {src.disk[f].values[key].n} ELSE {}

Asked(key) ==
    IF key \in DOMAIN src.flag THEN {src.flag[key].n}
    ELSE IF key \in DOMAIN src.env THEN {src.env[key].n}
    ELSE UNION {NumbersIn(f, key) : f \in ConfigFiles}

(* What the thresholds are for, by index.md:397 and :410.                  *)
Share(key) ==
    LET n(s) == countStatus(Statuses(results), s)
    IN  IF key = "efficacy" THEN Fraction(n(Killed), n(Killed) + n(Lived))
        ELSE Fraction(n(Killed) + n(Lived), n(Killed) + n(Lived) + n(NotCovered))

Missed(share, n)   == n > 0 /\ 100 * share.num < n * share.den
Exceeded(share, n) == n <= 0 \/ 100 * share.num > n * share.den

RunJudged == exitCode # -1 /\ Configured /\ ~dryRun /\ results # <<>>

(* There is at most one file, and no location that is not looked at.       *)
OneFile == (\A f \in ConfigFiles, g \in ConfigFiles : f = g) /\ (src.config.given \/ src.home)

(* A threshold in a file, as an integer or not, is a gate, and none fails  *)
(* that nobody asked for: from all sources of the settings to the exit     *)
(* code, a gate fails only for a number that is asked for and that its     *)
(* share does not exceed; a number in the only file that is missed fails   *)
(* the run, unless a flag or the environment hides it; and a file named by *)
(* --config is obeyed, and nothing but it, or the process fails.           *)
(* Left open is what the documents do not agree on: a threshold met        *)
(* exactly (report_test.go:208 expects no error), which of several files   *)
(* comes first (configuration.md:20-26), and a coverage above the number   *)
(* by index.md:410 but not by the help at unleash.go:99.  That a flag or   *)
(* the environment sets no gate, and hides the file's, is not excused: see *)
(* ThresholdFlagIsObeyed.                                                  *)
GateIsTheConfiguredOne ==
    LET code(key) == IF key = "efficacy" THEN ExitEfficacyThreshold ELSE ExitMutantCoverageThreshold
    IN  /\ exitCode # -1 => (exitCode = ExitFailure <=> isSpecificFile(src) /\ ~Usable)
        /\ \A key \in {"efficacy", "mcoverage"} :
               /\ exitCode = code(key) => RunJudged /\ \E n \in Asked(key) : ~Exceeded(Share(key), n)
               /\ RunJudged /\ OneFile /\ key \notin DOMAIN src.flag \cup DOMAIN src.env =>
                      \A n \in Asked(key) :
                          Missed(Share(key), n) => exitCode \in {ExitEfficacyThreshold, code(key)}

(* "When set, it makes Gremlins exit with an error (code 10) if the _test  *)
(* efficacy_ threshold is not met" (index.md:393, of the flag).  viper     *)
(* hands a float64 flag out as a string, and both Get[float64] and         *)
(* Get[int] make zero of it: the flag sets no gate, and hides the file's.  *)
ThresholdFlagIsObeyed ==
    RunJudged /\ "efficacy" \in DOMAIN src.flag /\ Missed(Share("efficacy"), src.flag["efficacy"].n) =>
        exitCode = ExitEfficacyThreshold

(* Every mutant is on the console, silent runs apart, unless a filter      *)
(* without a wrong letter leaves its status out, and no diff is there      *)
(* without its mutant.                                                     *)
ConsoleTellsTheRun ==
    /\ \A i \in DOMAIN results :
           ~src.silent /\ i \notin printed =>
               src.statuses \subseteq DOMAIN Letters
               /\ \A c \in src.statuses : Letters[c] # results[i].status
    /\ diffs \subseteq printed

(* The mutants of the output file, as pairs of a file and a place in it,   *)
(* and the place where the i-th result belongs.                            *)
Listing(files) == UNION {{file} \X DOMAIN files[file] : file \in DOMAIN files}
Place(mutants, i) == Cardinality({j \in 1 .. i : mutants[j].file = mutants[i].file})

(* These are exactly the mutants, each once, under its file and in order.  *)
ListsAll(files, mutants) ==
    /\ DOMAIN files = {mutants[i].file : i \in DOMAIN mutants}
    /\ Cardinality(Listing(files)) = Len(mutants)
    /\ \A i \in DOMAIN mutants :
           LET of == files[mutants[i].file]
           IN  Place(mutants, i) \in DOMAIN of /\ of[Place(mutants, i)] = mutants[i]

(* Nothing is in the output file before the report.  A file of this run is *)
(* complete, whatever the verdict: it lists every mutant, once, and        *)
(* whoever counts in that list gets the counters and the efficacy beside   *)
(* it.  Where there are no results, or no file could be created or         *)
(* written, what is there is the file of an earlier run, or a truncated    *)
(* one, and the exit code does not tell.  (What MutantsTotal is of, is     *)
(* left open: report.go:179 and the example at index.md:318 do not agree.) *)
FileTellsTheRun ==
    LET files  == outputFile.Files
        n(s)   == Cardinality({p \in Listing(files) : files[p[1]][p[2]].status = s})
        report == src.output /\ results # <<>> /\ exitCode \notin {-1, ExitFailure}
    IN  /\ report /\ src.outputFault = "none" =>
               /\ outputFile.run = "this"
               /\ ListsAll(files, results)
               /\ outputFile.MutantsKilled = n(Killed) /\ outputFile.MutantsLived = n(Lived)
               /\ outputFile.MutantsNotViable = n(NotViable)
               /\ outputFile.MutantsNotCovered = n(NotCovered)
               /\ ~dryRun => outputFile.TestEfficacy.num * (n(Killed) + n(Lived))
                             = n(Killed) * outputFile.TestEfficacy.den
        /\ report /\ src.outputFault # "none" => outputFile \in {Before, Truncated}
        /\ ~report => outputFile = Before

(* Console and output file agree with the results.                         *)
OutputsTellTheRun == ConsoleTellsTheRun /\ FileTellsTheRun
=============================================================================
