SPECIFICATION BulkSpec
CONSTANTS
    NumKeys = 4
    MaxBulkBatchSize = 3
    MaxBulkAttempts = 2
CHECK_DEADLOCK FALSE
INVARIANT GetBulkComplete
