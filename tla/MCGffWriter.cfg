SPECIFICATION Spec
CONSTANTS
    Type = {"CACT", "TILE"}
    Id = {1}
    Payload = {"empty", "tiny", "small", "large"}
    Length <- MCLength
    ExistingFiles <- MCExisting
    NoHandle = NoHandle
    MaxCrashes = 1
INVARIANTS
    WriterInv
    DataNeverLost
    OpensAsListed
PROPERTIES
    RefinesImage
CHECK_DEADLOCK FALSE
