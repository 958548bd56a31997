CONSTANTS
    n = n
    q = q
    dq = dq
    qc = qc
    p = p
    p2 = p2
    l = l
    Transforms <- MCTransforms
    Requirement <- MCRequirement
    Kind <- MCKind
    Dependent <- MCDependent
    InitialLists <- MCBuiltLists
    MaxLen = 5
SPECIFICATION Spec
INVARIANTS
    PositionPartition
    StableInsertion
    QuantChainValid
    ParamsFresh
    StripRoundTrip
PROPERTIES
    SecondLastRejected
CHECK_DEADLOCK FALSE
