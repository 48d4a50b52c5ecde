SPECIFICATION Spec
CONSTANTS
    Apps = {a1, a2}
    Runners = {r1}
    RunIds = {i1}
    NoBlob = NoBlob
    NoApp = NoApp
    MaxOverlaps = 0
    MaxDrops = 1
    MaxCrashes = 1
    MaxLimits = 1
    MaxFaults = 1
PROPERTIES
    RunGoesOn
