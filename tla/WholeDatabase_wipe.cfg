SPECIFICATION Spec
CONSTANTS
    Apps = {a1}
    Workers = {w1, w2}
    Bulk = {"sync", "wayback"}
    MaxBackups = 1
    MaxCrashes = 1
    MaxFaults = 1
PROPERTIES
    NothingComesBack
