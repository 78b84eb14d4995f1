CONSTANTS
    Vbs = {0, 1}
    Docs <- ThreeDocs
    Writers = {w1}
    EntrySize <- Sizes
    MaxBlockSize = 1
    MaxListBlockCount = 0
    MaxMutations = 3
    MaxBatch = 2
    MaxCrashes = 1
    SinceClocks <- TwoClocks
    MaxListWrites = 4
    Limits = {1}
SPECIFICATION Spec
INVARIANTS IndexSafe ResultCorrect
CHECK_DEADLOCK FALSE
