SPECIFICATION FairSpec
CONSTANTS
    p1 = p1
    p2 = p2
    w1 = w1
    w2 = w2
    poison = poison
    Nobody = Nobody
    NoMessage = NoMessage
    AnalyzerErrors <- TwoErrors
    Photos <- TwoPhotos
    Uploads <- TwoSingles
    CreatedAt <- TwoCreated
    Messages <- TwoAndPoison
    Workers <- TwoWorkers
    MaxAttempts = 1
    OutboxBatchSize = 1
    FaultKinds <- DeliveryFaults
    MaxFaults = 2
INVARIANTS
    NothingLost
    DeliveryInv
PROPERTIES
    EveryPhotoIsClaimed
CHECK_DEADLOCK FALSE
