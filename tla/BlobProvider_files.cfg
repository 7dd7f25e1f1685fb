SPECIFICATION Spec
CONSTANTS
    w1 = w1
    w2 = w2
    w3 = w3
    p1 = p1
    p2 = p2
    Keys = {k1}
    Workers = {w1, w2, w3}
    Processes = {p1, p2}
    ProcessOf <- MCProcessOf
    Values = {v1, v2}
    NoBlob = NoBlob
    Damaged = Damaged
    Faults = {"create", "write", "replace", "sync", "crash", "power"}
SYMMETRY MCSymmetry
INVARIANTS
    ReadsAreWhole
    ConfirmedIsDurable
