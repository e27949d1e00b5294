SPECIFICATION Spec
CONSTANTS
    single = single
    triple = triple
    lone = lone
    reader = reader
    a = a
    b = b
    c = c
    d = d
    e = e
    Requests <- ThreeRequests
    Endpoint <- ThreeEndpoints
    Files <- ThreeFiles
    Photos <- FivePhotos
    Bodies <- ValidBodies
    MinBatchSize = 2
    MaxBatchSize = 3
    MaxFileSize = 2
    BatchMaxTotal = 6
    PoolSize = 3
    FaultKinds <- OnlyCommit
    MaxFaults = 1
CHECK_DEADLOCK FALSE
INVARIANTS
    FailedCommitIsCompensated
