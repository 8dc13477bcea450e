SPECIFICATION Spec
CONSTANTS
    small = small
    full = full
    Sectors <- Boundaries
    Images <- TwoImages
    Size <- SizeOf
    Cuts <- SomeCuts
INVARIANTS
    RomIntact
    CodeMapped
PROPERTIES
    WritersApart
    RefinesAbUpdate
CHECK_DEADLOCK FALSE
