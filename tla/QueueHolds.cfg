SPECIFICATION Spec
CONSTANTS
    r1 = r1
    r2 = r2
    k1 = k1
    local = local
    Request = {r1, r2}
    KeepsGoing = {r2}
    c1 = c1
    Client = {c1}
    Key = {k1}
    Store = {local}
    LocalStore = local
    None = None
    MaxBuilds = 2
    MaxScopes = 1
    MaxStandalone = 1
    MaxRefs = 2
INVARIANTS
    StreamedIsQueued
    UnfinishedIsFound
    HoldsAgree
    UnfinishedIsWanted
    GaveUpForAReason
    LiveWorkerNotCancelled
PROPERTIES
    AnswerIsFinal
CHECK_DEADLOCK FALSE
