CHECK_DEADLOCK FALSE
SPECIFICATION FairSpec
CONSTANTS
    Workers = {v, w}
    Companions = {m}
    Subjects = {s, t}
    None = None
    MaxPairing = 2
    MaxPolls = 2
INVARIANTS
    BindingsAgree
    AnswersAreKept
PROPERTIES
    BindingIsForGood
    EveryPairingEnds
