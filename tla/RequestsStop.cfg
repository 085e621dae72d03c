SPECIFICATION GoalSpec
CONSTANTS
    r1 = r1
    r2 = r2
    c1 = c1
    c2 = c2
    c3 = c3
    k1 = k1
    k2 = k2
    local = local
    Request = {r1}
    KeepsGoing = {}
    Client = {c1, c3}
    Key = {k1, k2}
    Store = {local}
    LocalStore = local
    None = None
    MaxBuilds = 3
    MaxScopes = 2
    MaxStandalone = 1
    MaxRefs = 1
    Owner <- OwnerOf
    Roots <- TwoRoots
    Needs <- NoNeeds
    OpKey <- OneOp
    Impatient = {c3}
    Stalled = {}
    Broken = {c1, c3}
    Cached = {}
    Fallible = {k1}
INVARIANTS
    GoalTypeOK
    WaitingIsHeld
    LeftGoalsAreQuiet
PROPERTIES
    CallsTheQueue
    CancelSparesListeners
CHECK_DEADLOCK FALSE
