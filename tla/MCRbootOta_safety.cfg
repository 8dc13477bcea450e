SPECIFICATION FairSpec
CONSTANTS
    c1 = c1
    c2 = c2
    c3 = c3
    Conns <- ThreeConns
    None = None
    ContentLens <- AnyLens
    ChunkLens <- SomeChunks
    MaxTotal = 13
    LateCallbacks = FALSE
INVARIANTS
    TypeOK
    Accounting
    Ownership
    FlagReleased
PROPERTIES
    EveryAttemptEnds
