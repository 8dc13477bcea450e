SPECIFICATION FairSpec
CONSTANTS
    c1 = c1
    c2 = c2
    None = None
    Conns <- TwoConns
    MaxConn = 1
    MaxAllowed = 1
    MaxTx = 6
    Lens <- TwoLens
    MaxPieces = 4
    SendErrors = TRUE
    Resets = TRUE
INVARIANTS
    StreamInOrder
PROPERTIES
    OneSendAtATime
    OutputGoesOut
    SlotRecovered
