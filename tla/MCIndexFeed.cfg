CONSTANTS
    Vbs = {0, 1}
    Channels = {"A", "B"}
    Owned = {"A"}
    ChannelSets = {{"A"}, {"B"}}
    UserVb = 0
    MaxMutations = 3
    HashFrequency = 1
    FeedOptions <- ContinuousAndLimited
    kMaxUnreadPollCount = 1
    MaxFeeds = 2
    None = None
    Gateways = {g1, g2}
    HashRequests = {1, 2, 3}
    Clocks <- HashClocks
    Mod = 2
    CacheCapacity = 1
    MaxHashErrors = 1
    ClockWriters = {"w1", "w2"}
    VbNos <- TwoPartitions
    Owner <- OwnerOf
    Radix = 2
    MaxClockSeq = 2
    MaxClockWrites = 3
    MaxClockErrors = 1
    FeedVbs = {0, 1}
    MaxVbSeq <- VbSeqs
    MaxFailovers <- Failovers
    Word = 8
SPECIFICATION MCSpec
INVARIANTS IndexResumeSafe HashesKept ShardedClockSafe FeedComplete
CHECK_DEADLOCK FALSE
