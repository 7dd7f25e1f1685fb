CHECK_DEADLOCK FALSE
SPECIFICATION Spec
SYMMETRY AnyCall
CONSTANTS
    Calls = {c, d}
    Tokens <- MCTokens
    MaxKey = 2
    MaxTime = 5
    Lifespan = 1
    FetchTime = 1
    Leeway = 1
INVARIANTS
    RotationRecovers
PROPERTIES
    WithdrawnKeyDies
    OnlyTimeIsTighter
