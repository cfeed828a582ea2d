\* Two replicas, late PUTs, and an object that can no longer be parsed among the
\* initial ones.
SPECIFICATION FairSpec
CONSTANTS
    Calls = {c1, c2}
    Procs = {p1, p2}
    None = None
    StoredEvents <- MCStoredFar
    Extracted <- MCExtracted
    Hour = 1
    TTL = 1
    FirstInstant <- MCFirstInstant
    LastInstant = 8
    FirstTime = 2
    LastTime = 2
    LateCommit = TRUE
PROPERTIES
    KeepsCalendarPromise
    EveryCallReturns
