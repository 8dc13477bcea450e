SPECIFICATION Spec
CONSTANTS
    Ssids <- Names
    Passwords <- Words
    Accepting <- Around
    ApArgs <- SomeApArgs
    ModeArgs <- SomeModeArgs
INVARIANTS
    OneClient
    StationAsAsked
    StationWatched
PROPERTIES
    ApKept
