SPECIFICATION Spec
CONSTANTS
    Workers = {w1, w2}
    Faults = {"read", "open", "write", "rollback"}
    None = None
    lss = lss
    add = add
    inc = inc
    boundary = boundary
    negation = negation
    plus = plus
    incr = incr
    Nodes <- MCNodes
    Mutants <- MCMutants
    NodeOf <- MCNodeOf
    TypeOf <- MCTypeOf
    FileOf <- MCFileOf
    OrigTok <- MCOrigTok
INVARIANTS
    MutatorInv
    TestsOnlyOwnMutation
    AstIntactWhenUnlocked
    WorkdirPristineWhenIdle
    LocksExclude
PROPERTY
    EveryMutantIsDealtWith
