SPECIFICATION FairSpec
CONSTANTS
    h1 = h1
    h2 = h2
    Handles = {h1}
    Fds <- BothFds
    WritesTo <- OneFd
    HasTimeout = {h1}
    MaySpawnFail = {}
    MayClose = {h1}
    MayFork = {h1}
    Ends = {"exited_zero"}
    AsCancellation <- Both
    MaxWrites = 1
    MaxPartial = 1
INVARIANTS
    ReportExact
PROPERTIES
    SignalsOnlyItsOwn
    TerminationEnds
