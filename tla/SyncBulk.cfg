SPECIFICATION FairSpec
CONSTANTS
    Apps = {a1, a2}
    Runners = {r1, r2}
    RunIds = {i1, i2}
    NoBlob = NoBlob
    NoApp = NoApp
    MaxCrashes = 1
    MaxLimits = 1
    MaxFaults = 1
INVARIANTS
    TypeOK
    OneRunner
    QueueIsOwned
    CountersMatchQueue
PROPERTIES
    QueueNeverDropped
    StampCoversEveryApp
    QueueSpec
    DueIsSynced
