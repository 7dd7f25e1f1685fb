SPECIFICATION Spec
CONSTANTS
    Readers = {r1, r2}
    MaxRetries = 1
    Faults = {"lease", "io", "crypto", "codex", "spoil", "payload", "logout", "rotate"}
INVARIANTS
    ReauthIsJustified
    MissingIsReported
PROPERTIES
    EveryReadAnswers
