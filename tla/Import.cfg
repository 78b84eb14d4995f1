CONSTANTS
    Clients = {p1}
    Contents = {1, 2, 3}
    Filtered = {2}
    Rejected = {3}
    MaxSdkOps = 2
    MaxRequests = 2
    MaxFaults = 1
SPECIFICATION Spec
INVARIANT ImportedOnce
PROPERTY NothingOverwritten EventuallyImported
