SPECIFICATION ToolSpec
CONSTANTS
    Ordinary = {"GFFI", "CHAR", "WIND", "BUTN", "TEXT", "ETME", "SPIN", "RDAT", "MONR",
                "FONT", "MERR", "CSEQ", "GSEQ", "PSEQ", "LSEQ", "BVOC", "ACCL", "EBOX",
                "APFM", "ICON", "BMP", "NAME", "IT1R", "PORT", "ETAB", "GMAP", "RMAP",
                "RDFF", "SCMD", "OJFF", "MAS", "GPL", "GPLX", "PSIN", "PSST", "SPST", "OTHR"}
    Segmented = {"TILE", "WALL"}
    Asked = {"GFFI", "CHAR", "TILE", "WALL", "OTHR"}
    NewId = {3, 4}
    MaxChunks = 2
    MaxFirst = 5
    Files <- MCFiles
    None = None
    NotFound = NotFound
    Garbage = Garbage
    TextRoom = 5
    NamesRoom = 4
    StructSize = 4
    ButtonSize = 2
    FlagsRoom = 5
    HeadSize = 2
    ImageRoom = 4
    EntrySize = 2
    MonsterSize = 1
    RegionSize = 2
    NameSize = 2
    RowSize = 2
    ScmdMax = 4
    FontSize = 2
    AcclSize = 2
    AcclEntry = 1
    RdffType = 2
    ObjectIds = {0, 1}
    Jobs <- MCJobs
    NoJob = NoJob
    IdsRoom = 3
INVARIANTS
    ListedIdHasItsRow
    ListStaysGood
    ShowsItsChunk
    ExtractsTheFile
    DiesForACause
CHECK_DEADLOCK FALSE
