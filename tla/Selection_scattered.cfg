SPECIFICATION Spec
CONSTANTS
    Worlds <- MCTop
    EndsWith <- MCEndsWith
    MaxLine = 3
    MaxCol = 2
    Budget = 4
INVARIANT ExactlyTheChangesAreTested
