SPECIFICATION FairSpec
CONSTANTS
    Type = {"CACT"}
    Id = {1, 2, 3}
    Payload = {"empty", "tiny", "large"}
    Length <- MCLength
    ExistingFiles <- MCTocLast
    NoHandle = NoHandle
    MaxCrashes = 0
INVARIANTS
    TocEndsFile
    HandleStaysValid
PROPERTIES
    AddedIsPublished
CHECK_DEADLOCK FALSE
