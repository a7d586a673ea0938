SPECIFICATION PoolSpec
CONSTANTS
    WNum = 6
    IntMode = TRUE
    NumCPU = 1
    Executors = {e1, e2, e3, e4}
    None = None
INVARIANTS
    PoolInv
    StopDrains
PROPERTIES
    StopReturns
    AllPickedUp
