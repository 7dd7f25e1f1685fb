SPECIFICATION Spec
CONSTANTS
    Subjects = {s1}
    Workers = {w1, w2, w3}
    Processes = {p1, p2}
    w1 = w1
    w2 = w2
    w3 = w3
    p1 = p1
    p2 = p2
    ProcessOf <- MCProcessOf
    Tokens = {t1, t2, t3}
    NoBlob = NoBlob
    Unreadable = Unreadable
    NoAuth = NoAuth
    Faults = {"lockfile", "open", "mkhome", "write", "body", "spoil", "seal", "put", "sync", "rmtree", "crash"}
SYMMETRY MCSymmetry
INVARIANTS
    NoOrphanedHome
    Exclusive
    NoAbandonedLease
    AcknowledgedIsStored
PROPERTIES
    ImplementsRegister
