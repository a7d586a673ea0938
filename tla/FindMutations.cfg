SPECIFICATION Spec
CONSTANTS
    MaxNodes = 2
    Configurations <- MCConfigurations
INVARIANTS
    SentExactly
    MutantsAreMutations
