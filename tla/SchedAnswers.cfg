SPECIFICATION FairScheduler
CONSTANTS
    None = None
    r1 = r1
    r2 = r2
    k1 = k1
    k2 = k2
    local = local
    s1 = s1
    s2 = s2
    Request = {r1}
    KeepsGoing = {}
    Client = {}
    Key = {k1, k2}
    Store = {local, s1}
    LocalStore = local
    MaxBuilds = 2
    MaxScopes = 4
    MaxStandalone = 0
    MaxRefs = 0
    MaxStoreRetries = 1
    MaxJobs <- OneJob
    NoLocalJobs = "remote-only"
    Supports <- EverySupport
    Limit <- TwoLocalSlots
    LastResort = {}
    HereOnly = {}
    PreferLocal = {k2}
    MemoryTight = {k1}
    Dynamic = {}
    Flaky = {}
    Pressured = {}
    Impatient = {}
    Faults = {"measure", "connection", "machine", "derivation", "pull"}
INVARIANTS
    SchedulerTypeOK
    NoBuildForgotten
    LimitRespected
    SuccessIsCollected
PROPERTIES
    EveryBuildIsAnswered
CHECK_DEADLOCK FALSE
