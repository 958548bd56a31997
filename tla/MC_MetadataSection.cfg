CONSTANT MaxOps = 4
SPECIFICATION Spec
INVARIANT ExactlyOneSerialized
\* serialize returns or throws: a finished loop is a final state.
CHECK_DEADLOCK FALSE
