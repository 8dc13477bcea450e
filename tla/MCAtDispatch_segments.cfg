SPECIFICATION Spec
CONSTANTS
    Lines <- SomeLines
    MAX_ARGS = 3
    MaxLines = 2
INVARIANTS
    WholeLinesRun
    RunsOwnLine
    NothingLeaks
