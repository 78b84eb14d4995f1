SPECIFICATION MCSpec
CONSTANTS
    Writers = {w1, w2}
    Revisions <- TwoBranches
    AllowConflicts = TRUE
    ExternalBodies = TRUE
    HistoryLengths = {1, 2}
    RevsLimit = 2
    MaxUpdates = 4
    MaxFaults = 1
    User = u
    Roles = {r}
    Nil = Nil
    Channels = {A}
    Docs = {d1}
    Requests = {1, 2}
    MaxCasRetries = 2
    MaxSeq = 4
    MaxRequests = 3
    MaxFailures = 1
SYMMETRY WriterSymmetry
CHECK_DEADLOCK FALSE
INVARIANTS DocumentSafe AccessCurrent
PROPERTIES BranchesKept ExplicitKept
