\* Every configuration, every reply, two challenges.
SPECIFICATION Spec
CONSTANTS
    MaxAnswers = 2
INVARIANTS
    SuccessMeansAccepted
