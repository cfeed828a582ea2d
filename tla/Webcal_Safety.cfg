\* One replica, three calls, crashes and cancellations.
SPECIFICATION Spec
SYMMETRY CallSymmetry
CONSTANTS
    Calls = {c1, c2, c3}
    Procs = {p1}
    None = None
    StoredEvents <- MCStored
    Extracted <- MCExtracted
    Hour = 1
    TTL = 1
    FirstInstant <- MCFirstInstant
    LastInstant = 8
    FirstTime = 2
    LastTime = 3
    LateCommit = FALSE
INVARIANTS
    TypeOK
    LockDiscipline
    AckedDurable
PROPERTIES
    OnlyExpiredRemoved
    ExpiredRemoved
    ImplementsFeed
