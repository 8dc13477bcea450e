SPECIFICATION BootSpec
CONSTANTS
    d1 = d1
    d2 = d2
    Unwritten = Unwritten
    Counts <- OneOrTwo
    UserData <- SomeData
INVARIANTS
    RestMaintained
    SelectionTakes
PROPERTIES
    SelectionChanges
