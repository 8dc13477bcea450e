SPECIFICATION Spec
CONSTANTS
    c1 = c1
    c2 = c2
    c3 = c3
    Conns <- TwoConns
    None = None
    ContentLens <- WordLens
    ChunkLens <- SomeChunks
    MaxTotal = 13
    LateCallbacks = FALSE
INVARIANTS
    ConnectAndRecvTimed
