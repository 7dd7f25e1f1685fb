SPECIFICATION FairSpec
CONSTANTS
    Subjects = {s1, s2}
    Workers = {w1, w3}
    Processes = {p1, p2}
    w1 = w1
    w2 = w2
    w3 = w3
    p1 = p1
    p2 = p2
    ProcessOf <- MCProcessOf
    Tokens = {t1, t2}
    NoBlob = NoBlob
    Unreadable = Unreadable
    NoAuth = NoAuth
    Faults = {"lockfile", "open", "mkhome", "body", "spoil", "seal", "put", "crash"}
INVARIANTS
    FailureChangesNothing
PROPERTIES
    NoLostRefresh
    NoResurrection
    EveryCallReturns
