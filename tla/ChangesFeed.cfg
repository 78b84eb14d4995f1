CONSTANTS
    Owned = {"A"}
    GrantedChannel = "B"
    MaxSeq = 4
    AdminSeqs = {3}
    ChannelSets = {{"A"}, {"B"}}
    MaxSkip = 2
    MaxRequests = 2
    MaxAhead = 1
SPECIFICATION MCSpec
INVARIANTS ResumeSafe LateEntriesKept
PROPERTY ImplementsDelivery
CHECK_DEADLOCK FALSE
