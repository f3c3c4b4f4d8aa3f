SPECIFICATION Spec
CONSTANTS
    a = a
    b = b
    Track <- MCTrack
    Stem <- MCOwnStem
    NoTrack = NoTrack
    NoDownload = NoDownload
    Sizes <- MCSizes
    Limits = {2, 4}
    Gate = 2
    MaxIndex = 0
    MaxNow = 2
    MaxRequests = 1
    MaxRestarts = 1
INVARIANTS
    OrderIsPermutation
    TotalIsSum
    WithinLimit
    LruWithinGate
PROPERTIES
    FreshSurvives
    RestartKeeps
