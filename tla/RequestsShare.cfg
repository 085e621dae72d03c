SPECIFICATION GoalSpec
CONSTANTS
    r1 = r1
    r2 = r2
    c1 = c1
    c2 = c2
    c3 = c3
    k1 = k1
    k2 = k2
    local = local
    Request = {r1, r2}
    KeepsGoing = {r1, r2}
    Client = {c1, c2, c3}
    Key = {k1, k2}
    Store = {local}
    LocalStore = local
    None = None
    MaxBuilds = 3
    MaxScopes = 3
    MaxStandalone = 1
    MaxRefs = 1
    Owner <- OwnerOf
    Roots <- RootAndInput
    Needs <- SecondNeedsFirst
    OpKey <- OneOp
    Impatient = {}
    Stalled = {}
    Broken = {}
    Cached = {k1}
    Fallible = {k1}
INVARIANTS
    QueueDrains
CHECK_DEADLOCK FALSE
