SPECIFICATION Spec
CONSTANTS
    Runs = {r1, r2}
    Texts = {t1, t2, t3}
    NoRow = NoRow
    NoText = NoText
    Keep = 2
    MaxRuns = 3
    MaxCrashes = 1
    MaxFaults = 1
SYMMETRY Symmetric
INVARIANTS
    TypeOK
    SummaryMatchesText
    CurrentVersionIsShown
PROPERTIES
    ChangedMeansChanged
