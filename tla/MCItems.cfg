SPECIFICATION Spec
CONSTANTS
    m1 = m1
    m2 = m2
    p1 = p1
    p2 = p2
    b1 = b1
    b2 = b2
    b3 = b3
    None = None
    Managers <- MCManagers
    Pointers <- MCPointers
    Blocks <- MCBlocks
    Lengths <- MCLengths
    Sizes <- MCSizes
    StructSize = 2
    ButtonSize = 1
    EntrySize = 2
    RowSize = 2
    NameSize = 1
    SizeMax = 63
    ItemFiles <- MCItemFiles
    Indices <- MCIndices
    RdffChunks <- MCRdffChunks
    Scripts <- MCScripts
    FontChunks <- MCFontChunks
SYMMETRY Alike
VIEW Seen
CONSTRAINT NothingLost
INVARIANTS
    HeldIsWhole
    ReadIsWhole
    LostForCause
    AnswersOwnTable
    ObjectOfItsBlock
    DelayAsPlayed
    SheetShowsCharacters
CHECK_DEADLOCK FALSE
