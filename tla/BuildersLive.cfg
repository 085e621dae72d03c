SPECIFICATION FairBuilders
CONSTANTS
    j1 = j1
    j2 = j2
    j3 = j3
    Jobs = {j1, j2}
    Systems = {1}
    MinBuilders = 1
    MaxBuilders = 1
    Faults = {"blind", "crash", "slow", "failed"}
    MaxTroubles = 1
    MaxAged = 1
PROPERTIES
    GoneIsForgotten  MinimumIsServed
