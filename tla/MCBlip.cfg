SPECIFICATION MCSpec
CONSTANTS
    Docs = {d1, d2}
    Existing = {d1}
    Filtered = {d1}
    Digests = {x}
    Attachments <- MCAttachments
    MaxRev = 3
    MaxSeq = 3
    BatchSize = 2
    MaxHistories = {0, 2}
    Requests <- MCRequests
    MaxSubs = 2
    MaxFaults = 1
    RevsLimit = 10
    Handlers = {h1, h2}
    AttDigests = {x, y}
    NoDigest = NoDigest
    MaxPushes = 3
    MaxPushFaults = 1
CHECK_DEADLOCK FALSE
INVARIANTS PullSafe PushSafe
 
