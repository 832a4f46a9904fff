SPECIFICATION Spec
CONSTANTS
    Families <- MCOneStep
    KnownGaps = {"ends"}
INVARIANT RangesSound
CHECK_DEADLOCK FALSE
