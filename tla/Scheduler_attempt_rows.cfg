SPECIFICATION Spec
CONSTANTS
    a = a  b = b  c = c  d = d  e = e
    Tasks = {a, b}
    Deps <- PairDeps
    Priority <- Flat
    ConfigConcurrency = 2
    Dims <- CpuMem
    Capacity <- CpuMemCapacity
    Req <- EachHalf
    MaxAttempts <- Twice
    Backoff = {}
    HasInputs = {a}
    HasOutputs = {}
    Cacheable = {}
    Talkative = {}
    Outcomes = {"exited_zero", "exited_nonzero", "cancelled"}
    Callers = {"watcher"}
INVARIANTS
    AttemptNumbersUnique
