SPECIFICATION Spec
CONSTANTS
    Families <- MCBranches
    KnownGaps = {"join"}
INVARIANT VerdictsSound
CHECK_DEADLOCK FALSE
