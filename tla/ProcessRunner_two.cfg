SPECIFICATION Spec
CONSTANTS
    h1 = h1
    h2 = h2
    Handles = {h1, h2}
    Fds <- OneFd
    WritesTo <- OneFd
    HasTimeout = {}
    MaySpawnFail = {h2}
    MayClose = {}
    MayFork = {}
    Ends = {"exited_zero"}
    AsCancellation <- True
    MaxWrites = 0
    MaxPartial = 1
INVARIANTS
    NothingLost
PROPERTIES
    ImplementsContract
