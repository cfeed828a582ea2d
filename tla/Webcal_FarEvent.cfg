\* Events that begin before year 0 or end after year 9999, in UTC.
SPECIFICATION Spec
CONSTANTS
    Calls = {c1, c2}
    Procs = {p1}
    None = None
    StoredEvents <- MCStoredLive
    Extracted <- MCExtractedFar
    Hour = 1
    TTL = 1
    FirstInstant <- MCFirstInstant
    LastInstant = 8
    FirstTime = 2
    LastTime = 3
    LateCommit = FALSE
INVARIANTS
    OwnOutputParses
