SPECIFICATION FairSpec
CONSTANTS
    p1 = p1
    p2 = p2
    w1 = w1
    w2 = w2
    poison = poison
    Nobody = Nobody
    NoMessage = NoMessage
    AnalyzerErrors <- TwoErrors
    Photos <- TwoPhotos
    Uploads <- OneBatch
    CreatedAt <- BatchCreated
    Messages <- TwoAndPoison
    Workers <- TwoWorkers
    MaxAttempts = 2
    OutboxBatchSize = 2
    FaultKinds <- ClaimFaults
    MaxFaults = 2
INVARIANTS
    NoAbandonedClaim
    OffsetFollowsOutcome
PROPERTIES
    EveryPhotoIsDecided
CHECK_DEADLOCK FALSE
