\* Every answer of up to three lines, and the likelier ones of up to five.
SPECIFICATION Spec
CONSTANT
    Contents <- MCContents
INVARIANTS
    EventIsTheAnswer
    AnswerIsTaken
