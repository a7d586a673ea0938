SPECIFICATION Spec
CONSTANTS
    Sources <- MCSources
    Mutants <- MCMutants
    MaxMutants = 3
INVARIANTS
    PercentagesAreDefined
    KillingMoreNeverFails
    OnlyCountedMutantsDecide
    
    OutputsTellTheRun
