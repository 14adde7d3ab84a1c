SPECIFICATION Spec
CONSTANTS
    a = a  b = b
    Tasks = {a, b}
    Deps <- PairDeps
    Talkative = {}
    BufferLimit = 2
    MaxRuns = 2
    MaxCrashes = 2
    Commands = {"runs"}
    OneEngine = TRUE
INVARIANTS
    FinishedRowsTrue
    RecoveredClean
PROPERTIES
    RunLifecycle
