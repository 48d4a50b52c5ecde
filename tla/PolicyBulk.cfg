SPECIFICATION Spec
CONSTANTS
    Apps = {a1, a2}
    Runners = {r1, r2}
    RunIds = {i1, i2}
    NoBlob = NoBlob
    NoApp = NoApp
    MaxBusyRetries = 3
    MaxCrashes = 2
    MaxFaults = 1
SYMMETRY Symmetric
INVARIANTS
    TypeOK
    OneRunner
    CountersMatchQueue
PROPERTIES
    WaitsItsTurn
    OffIsObeyed
    QueueSpec
