SPECIFICATION FairSpec
CONSTANTS
    Apps = {a1, a2}
    Runners = {r1, r2}
    RunIds = {i1, i2}
    NoBlob = NoBlob
    NoApp = NoApp
    MaxCrashes = 1
    MaxLimits = 2
    MaxFaults = 1
INVARIANTS
    QueueIsOwned
    AttemptsMatchQueue
PROPERTIES
    NoAppAfterRequest
    RequestSurvivesRestart
    QueueSpec
    PauseSettles
