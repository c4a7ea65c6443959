SPECIFICATION TextSpec
CONSTANTS
    TextStringSize = 10
    Texts <- MCTexts
INVARIANTS
    InsideBuffer
    Unpacked
    MovesBytesTaken
CHECK_DEADLOCK FALSE
