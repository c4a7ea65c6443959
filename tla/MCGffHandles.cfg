SPECIFICATION Spec
CONSTANTS
    NumSlots = 1
    RestIndex = 0
    Own = {own}
    MCPath = {"segobjex.gff", "D/A.GFF"}
    Path <- MCPath
    Name <- MCName
    Raw <- MCRaw
    Base <- MCBase
    Reserved <- MCReserved
    StartDisk <- MCDisk
    None = None
    MaxTypes = 1
    MaxPals = 1
    MaxIds = 2
INVARIANTS
    PaletteIdsDisjoint
    TypesHaveEntries
    NamedIsOpen
