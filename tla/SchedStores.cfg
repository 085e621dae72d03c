SPECIFICATION SchedulerSpec
CONSTANTS
    None = None
    r1 = r1
    r2 = r2
    k1 = k1
    k2 = k2
    local = local
    s1 = s1
    s2 = s2
    Request = {r1}
    KeepsGoing = {}
    Client = {}
    Key = {k1}
    Store = {local, s1, s2}
    LocalStore = local
    MaxBuilds = 1
    MaxScopes = 3
    MaxStandalone = 0
    MaxRefs = 0
    MaxStoreRetries = 2
    MaxJobs <- NoJobsLimit
    NoLocalJobs = "remote-only"
    Supports <- EverySupport
    Limit <- OneSlot
    LastResort = {s2}
    HereOnly = {}
    PreferLocal = {}
    MemoryTight = {}
    Dynamic = {s1}
    Flaky = {s1}
    Pressured = {s1}
    Impatient = {r1}
    Faults = {"machine", "connection", "hold", "measure"}
INVARIANTS
    RunningStoreIsPresent
    OneLiveWorker
    RetryLimitHolds

    
CHECK_DEADLOCK FALSE
