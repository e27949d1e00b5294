SPECIFICATION Spec
CONSTANTS
    p1 = p1
    p2 = p2
    w1 = w1
    w2 = w2
    poison = poison
    Nobody = Nobody
    NoMessage = NoMessage
    AnalyzerErrors <- ThreeErrors
    Photos <- TwoPhotos
    Uploads <- TwoSingles
    CreatedAt <- TwoCreated
    Messages <- TwoAndPoison
    Workers <- TwoWorkers
    MaxAttempts = 2
    OutboxBatchSize = 2
    FaultKinds <- EveryFault
    MaxFaults = 2
INVARIANTS
    TypeOK
    ClaimIsExclusive
    SentIsInTopic
    DuplicatesNeedFaults
    RecordedAttempts
    StuckPhotosNeedFaults
PROPERTIES
    TerminalIsFinal
    ImplementsLifecycle
CHECK_DEADLOCK FALSE
