SPECIFICATION Spec
CONSTANTS
    SectorSize = 8
    Sectors = 4
    AddrSpace = 256
    Starts <- FromSecondSector
    ChunkLens <- Chunks
    MaxFed = 10
INVARIANTS
    StoredPrefix
    NeverMixed
    WholeAfterEnd
PROPERTIES
    CountersAgree
