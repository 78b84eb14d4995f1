SPECIFICATION MCSpec
CONSTANTS
    Nodes = {n1, n2}
    MaxSeq = 4
    MaxReserve = 2
    kMaxIncrRetries = 2
    Requests = {q1, q2}
    Capacity = 1
    MaxRev = 2
    MaxErrors = 1
    MaxEvents = 6
    Handlers = {h1, h2}
    maxProcesses = 1
    Ids = {i1, i2}
    Parameters = {p1, p2}
    MaxRuns = 3
    MaxOps = 2
    Kinds = {"add", "set", "delete", "writeCas", "update", "incr", "purge"}
    MaxSingleOps = 2
    MaxNumAttempts = 1
    MaxFaults = 2
    NumKeys = 4
    MaxBulkBatchSize = 3
    MaxBulkAttempts = 2
    Vbs = {0}
    Channels = {"A", "B"}
    Owned = {"A"}
    ChannelSets = {{"A", "B"}}
    UserVb = 0
    MaxMutations = 2
    HashFrequency = 1
    FeedOptions <- Continuous
    kMaxUnreadPollCount = 1
    MaxFeeds = 1
    None = None
CHECK_DEADLOCK FALSE
INVARIANTS NothingLost ReplicationsTracked UpdatesApplied SetBulkSettled
PROPERTIES NoDuplicateSequence RevisionCacheSafe ServicesEnd
