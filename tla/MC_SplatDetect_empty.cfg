CONSTANTS
    Bytes = {0, 1}
    ElemSizes = {1, 2, 3}
    MaxElems = 4
SPECIFICATION Spec
INVARIANTS
    EmptyBufferRejected
CHECK_DEADLOCK FALSE
