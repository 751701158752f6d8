SPECIFICATION Spec
CONSTANTS
    Workers = {w1, w2}
    Keys = {a, b}
    Nobody = Nobody
    NoKey = NoKey
    MaxAttempts = 2
    Lease = 2
    Backoff = 1
    MaxAge = 1
    MaxRetries = 1
SYMMETRY Symmetry
INVARIANTS TypeOK OneRunning JobsInv AttemptsBounded
PROPERTIES ProgressIsKept StaleWorkersAreFenced
