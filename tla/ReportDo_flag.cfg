SPECIFICATION Spec
CONSTANTS
    Sources <- MCFlag
    Mutants <- MCMutants
    MaxMutants = 3
INVARIANT ThresholdFlagIsObeyed
