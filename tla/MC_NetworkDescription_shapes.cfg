CONSTANTS
    x = x
    y = y
    Bases <- MCBases
    MaxNodes = 2
    MaxTensors = 2
    MaxProfiling = 1
    Repeats = FALSE
SPECIFICATION Spec
INVARIANT
    ShapeDescriptorPerName
\* getNetworkMetadata returns or throws: its result is a final state.
CHECK_DEADLOCK FALSE
