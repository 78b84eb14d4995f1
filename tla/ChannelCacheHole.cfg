SPECIFICATION MCSpec
CONSTANTS
    Docs = {d1, d2}
    Readers = {r1}
    NoDoc = NoDoc
    MaxSeq = 4
    StartSeq = 2
    ChannelCacheMaxLength = 2
    ChannelCacheMinLength = 1
    Requests <- UnlimitedRequests
    Activity = {TRUE}
    Purgeable = {}
    DelayedWrites = TRUE
SYMMETRY Symmetric
INVARIANTS CompletenessGuarantee
