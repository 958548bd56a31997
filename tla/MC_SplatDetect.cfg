CONSTANTS
    Bytes = {0, 1}
    ElemSizes = {1, 2, 3}
    MaxElems = 4
SPECIFICATION Spec
INVARIANTS
    SplatViewFaithful
    ResourceSplatComplete
\* A pure function: every behaviour ends after its one step.
CHECK_DEADLOCK FALSE
