SPECIFICATION BuildersSpec
CONSTANTS
    j1 = j1
    j2 = j2
    j3 = j3
    Jobs = {j1, j2}
    Systems = {1}
    MinBuilders = 1
    MaxBuilders = 1
    Faults = {"break","crash","failed","succeeded","unready","outdate","list","pods","create","delete","refused","template"}
    MaxTroubles = 1
    MaxAged = 1
SYMMETRY Names
INVARIANTS
    BuildersTypeOK
PROPERTIES
    SeenReadyIsSpared
    
    RetiredIsIdle
