\* Three requests of any shape; handlers without fairness.
SPECIFICATION FairSpec
CONSTANTS
    Requests = {r1, r2, r3}
    Shapes <- MCShapes
    AuthRequired = TRUE
    Ends = {1, 2}
    TTL = 0
    LastTime = 2
    None = None
INVARIANTS
    TypeOK
    CreatedIsThere
    RejectedHasNoEffect
    NoWorkUnauthorized
    CleanExit
PROPERTIES
    StopsEventually
