CONSTANTS
    n = n
    q = q
    dq = dq
    qc = qc
    p = p
    p2 = p2
    l = l
    Transforms <- MCTransforms
    Requirement <- MCRequirement
    Kind <- MCKind
    Dependent <- MCDependent
    InitialLists <- MCParsedLists
    MaxLen = 5
SPECIFICATION Spec
PROPERTIES
    SecondLastRejected
CHECK_DEADLOCK FALSE
