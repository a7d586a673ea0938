SPECIFICATION Spec
CONSTANTS
    Workers = {w1, w2}
    Faults = {"open"}
    None = None
    lss = lss
    add = add
    inc = inc
    boundary = boundary
    negation = negation
    plus = plus
    incr = incr
    Nodes <- MCNodes
    Mutants <- MCMutants
    NodeOf <- MCNodeOf
    TypeOf <- MCTypeOf
    FileOf <- MCFileOf
    OrigTok <- MCOrigTok
INVARIANT
    TestsExactlyOneMutation
