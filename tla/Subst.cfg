SPECIFICATION FairSubst
CONSTANTS
    a = a
    b = b
    path = path
    c1 = c1
    c2 = c2
    None = None
    Callers = {c1, c2}
    Paths = {path}
    Stores = {a, b}
    Http = {a, b}
    Sets <- Lists
    Rank <- RankOf
    Ops = {"can", "import", "race", "nar"}
    Window = 1
    MinEntries = 1
    Slots = 1
    MaxTroubles = 1
INVARIANT SubstTypeOK
PROPERTIES SharesImports EveryCallIsAnswered
CHECK_DEADLOCK FALSE
