SPECIFICATION Spec
CONSTANTS
    Files <- MCFiles
    Reopened <- MCReopened
    Names <- MCNames
    MaxRegions = 2
    Wild = 255
    Core <- MCCore
    Segobjex <- MCSegobjex
    Games <- MCGames
    None = None
    MaxHandles = 3
INVARIANTS
    SlotsOwnHandles
    FreedOnce
    FaultsHaveACause
    ObjectsOfTheTable
CHECK_DEADLOCK FALSE
