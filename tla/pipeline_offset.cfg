SPECIFICATION Spec
CONSTANTS
    p1 = p1
    p2 = p2
    w1 = w1
    w2 = w2
    poison = poison
    Nobody = Nobody
    NoMessage = NoMessage
    AnalyzerErrors <- TwoErrors
    Photos <- TwoPhotos
    Uploads <- TwoSingles
    CreatedAt <- TwoCreated
    Messages <- TwoAndPoison
    Workers <- OneWorker
    MaxAttempts = 2
    OutboxBatchSize = 2
    FaultKinds <- OnlyWorkerDbError
    MaxFaults = 1
INVARIANTS
    OffsetFollowsOutcome
CHECK_DEADLOCK FALSE
