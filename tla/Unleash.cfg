SPECIFICATION Spec
CONSTANTS
    Idfs = {w1, w2}
    Dirs = {d1, d2}
    None = None
    Mutants = {m1, m2}
    Outcomes = {"KILLED", "LIVED", "NOT COVERED"}
    DryRun = FALSE
    ET <- MCET
    CT <- MCCT
    MaxSignals = 2
    DealerFaults = {"mkdir", "copy", "remove"}
    Faults = {"init", "prepare", "apply"}
INVARIANTS
    UnleashInv
    OwnCompleteCopies
    JudgedWhenSettled
    UninterruptedIsJudgedInFull
    ExitsClean
PROPERTY
    ProcessEnds
