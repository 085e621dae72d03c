SPECIFICATION FairRollout
CONSTANTS
    r1 = r1
    r2 = r2
    s0 = s0
    s1 = s1
    s2 = s2
    Nodes = {1}
    Systems = {s0, s1, s2}
    Kernel <- KernelOf
    BadSystems = {s2}
    Assessed = TRUE
    Faults = {"switch","crash","store","build","copy","ttl"}
    MaxBoots = 1
    Rollouts = {r1}
    SpecChoices <- Mixed
    First = s0
    MaxUnavailable = 1
    MaxGen = 2
    MaxFailures = 0
    None = None
INVARIANTS
    RolloutTypeOK
PROPERTIES
    
    EveryRolloutSettles
