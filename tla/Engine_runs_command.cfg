SPECIFICATION Spec
CONSTANTS
    a = a  b = b
    Tasks = {a, b}
    Deps <- PairDeps
    Talkative = {}
    BufferLimit = 2
    MaxRuns = 1
    MaxCrashes = 0
    Commands = {"cancel", "runs"}
    OneEngine = FALSE
PROPERTIES
    CancelNotRefused
