SPECIFICATION FairSpec
CONSTANTS
    Scripts <- MCScripts
    MaxMenu = 2
    MaxSearchStack = 2
    TextStringSize = 5
INVARIANTS
    Decoded
    StopsForACause
PROPERTIES
    Ends
CHECK_DEADLOCK FALSE
