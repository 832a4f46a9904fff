SPECIFICATION Spec
CONSTANTS
    Families <- MCFamilies
    KnownGaps = {}
INVARIANTS
    TypeOK
    RangesSound
    BoundsSound
    VerdictsSound
    CoversSmallest
CHECK_DEADLOCK FALSE
