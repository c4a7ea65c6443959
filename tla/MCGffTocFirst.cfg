SPECIFICATION Spec
CONSTANTS
    Type = {"CACT"}
    Id = {1, 2}
    Payload = {"tiny", "large"}
    Length <- MCLength
    ExistingFiles <- MCTocFirst
    NoHandle = NoHandle
    MaxCrashes = 0
PROPERTIES
    NewChunkIsLast
CHECK_DEADLOCK FALSE
