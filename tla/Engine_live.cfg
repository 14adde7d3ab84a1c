SPECIFICATION FairSpec
CONSTANTS
    a = a  b = b
    Tasks = {a, b}
    Deps <- NoDeps
    Talkative = {a, b}
    BufferLimit = 2
    MaxRuns = 1
    MaxCrashes = 0
    Commands = {"cancel", "status"}
    OneEngine = TRUE
INVARIANTS
    RecordExact
PROPERTIES
    CancelHonoured
    StatusConsistent
