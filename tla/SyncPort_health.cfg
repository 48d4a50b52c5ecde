SPECIFICATION Spec
CONSTANTS
    Apps = {a1, a2}
    Runners = {r1, r2}
    RunIds = {i1, i2}
    NoBlob = NoBlob
    NoApp = NoApp
    MaxOverlaps = 1
    MaxDrops = 0
    MaxCrashes = 0
    MaxLimits = 0
    MaxFaults = 0
INVARIANT QueueIsOwned
