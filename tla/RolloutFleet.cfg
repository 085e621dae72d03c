SPECIFICATION RolloutSpec
CONSTANTS
    r1 = r1
    r2 = r2
    s0 = s0
    s1 = s1
    s2 = s2
    Nodes = {1,2}
    Systems = {s0, s1, s2}
    Kernel <- KernelOf
    BadSystems = {s1}
    Assessed = TRUE
    Faults = {}
    MaxBoots = 1
    Rollouts = {r1}
    SpecChoices <- Fleet
    First = s0
    MaxUnavailable = 1
    MaxGen = 2
    MaxFailures = 1
    None = None
INVARIANTS
    DrainIsRemembered
    UnavailableBounded
PROPERTIES
    
    InFlightIsFinished
