SPECIFICATION Spec
CONSTANTS
    Bauds <- TwoBauds
    Ports <- TwoPorts
    Framings <- SomeFramings
    Serial = Serial
    Erased = Erased
INVARIANTS
    BaudReported
    RestartKeepsSettings
    OkMeansStored
PROPERTIES
    SerialKept
    BaudKeepsFraming
