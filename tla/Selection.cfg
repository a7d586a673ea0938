SPECIFICATION Spec
CONSTANTS
    Worlds <- MCWorlds
    EndsWith <- MCEndsWith
    MaxLine = 3
    MaxCol = 2
    Budget = 4
INVARIANTS
    StatusIsDeserved
    OnlyCoveredAreTested
    WalksWhereItWasCalled
    ConventionalPackagesAreTested
