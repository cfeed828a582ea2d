\* Two replicas, as during a rolling update.
SPECIFICATION Spec
CONSTANTS
    Calls = {c1, c2}
    Procs = {p1, p2}
    None = None
    StoredEvents <- MCStoredLive
    Extracted <- MCExtracted
    Hour = 1
    TTL = 1
    FirstInstant <- MCFirstInstant
    LastInstant = 8
    FirstTime = 2
    LastTime = 3
    LateCommit = FALSE
PROPERTIES
    OnlyExpiredRemoved
