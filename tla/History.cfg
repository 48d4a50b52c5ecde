CONSTANTS
    Labels = {l1, l2}
    Blank = Blank
    NoBase = NoBase
    Importers = {w1}
    Captures <- EarlyAndLate
    Tabs = {t1}
    MaxNow = 8
    MaxPosted = 2
    MaxReviews = 2
SPECIFICATION Spec
SYMMETRY Symmetric
CHECK_DEADLOCK FALSE
INVARIANTS ArchiveIsChained GridMatchesHistory BadgeHasPending ReviewIsOnRecord
