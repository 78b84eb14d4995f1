SPECIFICATION MCSpec
CONSTANTS
    Docs = {d1, d2, d3}
    Readers = {r1, r2}
    NoDoc = NoDoc
    MaxSeq = 4
    StartSeq = 2
    ChannelCacheMaxLength = 2
    ChannelCacheMinLength = 1
    Requests <- PlainRequests
    Activity = {TRUE}
    Purgeable = {d1, d2, d3}
    DelayedWrites = TRUE
SYMMETRY Symmetric
INVARIANTS CacheGuarantees ResultCorrect
PROPERTIES EntryNeverRegresses
