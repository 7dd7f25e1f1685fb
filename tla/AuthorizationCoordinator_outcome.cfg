SPECIFICATION FairSpec
CONSTANTS
    Subjects = {s1}
    Callers = {c1}
    Flows = {f1, f2}
    NoFlow = NoFlow
    Calls = {"begin", "cancel", "revoke", "close"}
    Faults = {"client", "exit", "restart"}
INVARIANTS
    StateTellsPersistence
PROPERTIES
    CancelEnds
