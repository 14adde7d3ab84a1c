SPECIFICATION FairSpec
CONSTANTS
    h1 = h1
    h2 = h2
    Handles = {h1}
    Fds <- OneFd
    WritesTo <- OneFd
    HasTimeout = {}
    MaySpawnFail = {}
    MayClose = {}
    MayFork = {}
    Ends = {"exited_zero"}
    AsCancellation <- True
    MaxWrites = 1
    MaxPartial = 1
PROPERTIES
    TerminateHonoured
