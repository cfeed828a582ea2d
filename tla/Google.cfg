\* Two calls, two token lifetimes; a tick is one HTTP timeout.
SPECIFICATION FairSpec
CONSTANTS
    Calls = {c1, c2}
    None = None
    Answers <- MCAnswers
    Buffer = 2
    Timeout = 1
    LastTime = 8
INVARIANTS
    LockDiscipline
    TokenFreshOnArrival
    OneTokenPerLifetime
PROPERTIES
    KeepsCalendarPromise
    EveryCallReturns
