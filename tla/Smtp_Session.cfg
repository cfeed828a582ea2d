\* Every configuration, every reply, three challenges.
SPECIFICATION Spec
CONSTANTS
    MaxAnswers = 3
INVARIANTS
    OfferedMeansSecured
    ErrorMeansUndelivered
    SessionsEnd
PROPERTIES
    CommandsInSequence
    KeepsSubmissionPromise
