SPECIFICATION Spec
CONSTANTS
    Entries <- MCEntries
    Black = {0}
    Clear <- Undrawn
    Padding = 18
    BufSize = 100
INVARIANTS
    ShowsThePicture
    StaysInTheFrame
    SeesEveryFrame
CHECK_DEADLOCK FALSE
