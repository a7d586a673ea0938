SPECIFICATION Spec
CONSTANTS
    WNum = 2
    IntMode = FALSE
    NumCPU = 1
    Executors = {m1, m2, m3}
    None = None
    DryRun = FALSE
    Faults = {"get", "apply"}
INVARIANTS
    NobodyStuck
    EngineInv
    NoSendOnClosedChannel
    NothingLost
    ReportedOnceAndFinal
PROPERTIES
    StatusMovesForward
    RunReturns
    ImplementsMutationRun
