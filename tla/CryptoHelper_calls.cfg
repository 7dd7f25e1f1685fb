CHECK_DEADLOCK FALSE
SPECIFICATION FairSpec
CONSTANTS
    a = a
    b = b
    Clients = {a, b}
    Nobody = Nobody
    Casts <- MCCasts
    MaxInstance = 2
    Backlog = 1
    IoTimeout = 3
    CredsTimeout = 2
    CallTimeout = 3
INVARIANTS
    AnswersAreTrue
    TimeoutNeedsQueue
    SuccessorIsReachable
PROPERTIES
    HelperComesFree
