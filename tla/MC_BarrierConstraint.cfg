CONSTANTS
    BARR_MAX_VARIANT_SUM = BARR_MAX_VARIANT_SUM
    BARR_MAX_VARIANT_COUNT = BARR_MAX_VARIANT_COUNT
    ConstraintNames <- MCConstraintNames
    Unset = Unset
    OptionDefaultPWM = TRUE
    MaxRuns = 3
SPECIFICATION Spec
INVARIANTS
    ConstraintsConsistent
    RollbackUsesNonWLMValues
\* A VPUX_THROW ends compilation, and at most MaxRuns instances are run.
CHECK_DEADLOCK FALSE
