SPECIFICATION Spec
CONSTANTS
    a = a  b = b  c = c  d = d  e = e
    Tasks = {a, b, c, d}
    Deps <- DiamondDeps
    Priority <- CHighPriority
    ConfigConcurrency = 2
    Dims <- CpuMem
    Capacity <- CpuMemCapacity
    Req <- EachHalf
    MaxAttempts <- Twice
    Backoff = {b, c}
    HasInputs = {c}
    HasOutputs = {b}
    Cacheable = {b}
    Talkative = {}
    Outcomes = {"exited_zero", "exited_nonzero", "spawn_failed", "cancelled"}
    Callers = {"watcher", "other"}
INVARIANTS
    DependenciesExact
    ReadyExact
    AllTerminalWhenDone
    SkippedIffBlocked
    RetryBudget
PROPERTIES
    ImplementsRun
