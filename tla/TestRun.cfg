SPECIFICATION Spec
CONSTANTS
    Workers = {w1, w2}
    Pids = {p1, p2}
    ExitCodes = {0, 1, 2, 3}
    Faults = {"start", "oom"}
    None = None
    Settings <- MCSettings
    Limit = 128
INVARIANTS
    TestRunInv
    NoOrphans
    VerdictsAreSound
    TimeoutsAreOurs
PROPERTY
    TestsEnd
