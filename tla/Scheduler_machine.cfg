SPECIFICATION CancelSpec
CONSTANTS
    a = a  b = b  c = c  d = d  e = e
    Tasks = {a, b, c, d, e}
    Deps <- LastDeps
    Priority <- CHighPriority
    ConfigConcurrency = 2
    Dims <- Gpu
    Capacity <- TwoGpu
    Req <- GpuReq
    MaxAttempts <- ATwice
    Backoff = {a}
    HasInputs = {}
    HasOutputs = {}
    Cacheable = {}
    Talkative = {a}
    Outcomes = {"exited_zero", "timed_out", "cancelled"}
    Callers = {"watcher"}
INVARIANTS
    SlotsAccounted
    ResourcesAccounted
    SafetyNetIsJust
    OneReportPerAttempt
    CancelReachesEveryChild
    FinishDropsNothing
    LogsBeforeResult
PROPERTIES
    CancelStopsRun
    Termination
