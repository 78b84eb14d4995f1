SPECIFICATION MCSpec
CONSTANTS
    MaxSeq = 3
    StartSeq = 0
    CachePendingSeqMaxNum = 1
    SkippedSeqCleanViewBatch = 1
    DisableCleanSkippedQuery = FALSE
    MaxResync = 1
    Writers = {w1, w2}
    Docs = {d1}
    NoDoc = NoDoc
    MaxReserve = 2
    kMaxRecentSequences = 2
    Deduplicates = TRUE
    LocalWriters = {w1}
    MaxFaults = 1
INVARIANTS LowSequenceSafe Accounted PipelineSafe
PROPERTIES LateIsAnnounced Progress DocSequenceGrows
