SPECIFICATION Spec
CONSTANTS
    Families <- MCBranches
    KnownGaps = {"unsigned"}
INVARIANT VerdictsSound
CHECK_DEADLOCK FALSE
