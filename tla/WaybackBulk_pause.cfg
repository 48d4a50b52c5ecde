SPECIFICATION Spec
CONSTANTS
    Apps = {a1, a2}
    Runners = {r1, r2}
    RunIds = {i1, i2}
    NoBlob = NoBlob
    NoApp = NoApp
    MaxCrashes = 0
    MaxLimits = 1
    MaxFaults = 0
SYMMETRY Symmetric
PROPERTY PauseIsKept
