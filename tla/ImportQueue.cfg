SPECIFICATION FairSpec
CONSTANTS
    i1 = i1
    i3 = i3
    m1 = m1
    a1 = a1
    NoApp = NoApp
    Apps = {a1}
    Items = {i1, i3}
    Imports = {m1}
    ImportOf <- OneImport
    Target <- AppAndNone
    Ticks = {t1, t2}
    Clicks = {c1}
    Batch = 2
    MaxPresses = 1
    MaxLimits = 1
    MaxCrashes = 1
INVARIANTS
    NoDoubleGrab
    OpenOnlyByARemoval
PROPERTIES
    OutcomeKept
    CompletedStaysSettled
    QueueDrains
