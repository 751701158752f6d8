SPECIFICATION FairWindowsSpec
CONSTANTS
    w1 = w1
    w2 = w2
    Workers = {w1, w2}
    Keys <- MCKeys
    Nobody = Nobody
    NoKey = NoKey
    MaxAttempts = 2
    Lease = 1
    Backoff = 1
    MaxAge = 1
    MaxRetries = 1
    MaxSeq = 2
    Ttl = 3
    Backoffs <- MCBackoffs
    Scenarios <- MCScenarios
INVARIANTS WindowsTypeOK NothingSkipped
PROPERTIES CapturesSettle Settles
