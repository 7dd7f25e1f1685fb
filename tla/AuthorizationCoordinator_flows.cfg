SPECIFICATION Spec
CONSTANTS
    Subjects = {s1}
    Callers = {c1, c2}
    Flows = {f1, f2}
    NoFlow = NoFlow
    Calls = {"begin", "cancel", "revoke"}
    Faults = {"thread", "client", "exit", "sync", "restart"}
SYMMETRY MCSymmetry
INVARIANTS
    OneLiveFlow
    RevokeStopsOlderFlows
