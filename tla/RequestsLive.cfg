SPECIFICATION FairGoals
CONSTANTS
    r1 = r1
    r2 = r2
    c1 = c1
    c2 = c2
    c3 = c3
    k1 = k1
    k2 = k2
    local = local
    Request = {r1, r2}
    KeepsGoing = {}
    Client = {c1, c2}
    Key = {k1}
    Store = {local}
    LocalStore = local
    None = None
    MaxBuilds = 2
    MaxScopes = 2
    MaxStandalone = 1
    MaxRefs = 1
    Owner <- OwnerOf
    Roots <- SameRoot
    Needs <- NoNeeds
    OpKey <- NoOps
    Impatient = {c1}
    Stalled = {}
    Broken = {c1}
    Cached = {}
    Fallible = {k1}
PROPERTIES
    EveryRequestEnds
CHECK_DEADLOCK FALSE
