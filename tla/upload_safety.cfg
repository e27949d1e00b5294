SPECIFICATION FairSpec
CONSTANTS
    single = single
    triple = triple
    lone = lone
    reader = reader
    a = a
    b = b
    c = c
    d = d
    e = e
    Requests <- FourRequests
    Endpoint <- FourEndpoints
    Files <- FourFiles
    Photos <- FivePhotos
    Bodies <- FourBodies
    MinBatchSize = 2
    MaxBatchSize = 3
    MaxFileSize = 2
    BatchMaxTotal = 6
    PoolSize = 1
    FaultKinds <- EveryFault
    MaxFaults = 3
CHECK_DEADLOCK FALSE
INVARIANTS
    TypeOK
    RowHasObject
    AnswerTellsTheTruth
    OnlyValidFilesAreStored
    CompensationIsComplete
    RefusalHasACause
PROPERTIES
    ImplementsContract
    EveryRequestIsAnswered
