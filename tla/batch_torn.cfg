SPECIFICATION Spec
CONSTANTS
    p1 = p1
    p2 = p2
    p3 = p3
    r1 = r1
    r2 = r2
    NoPhoto = NoPhoto
    Photos <- ThreePhotos
    Batch <- TwoOfThree
    Readers <- TwoReaders
    Result <- Ties
    CreatedAt <- SameTime
    IdRank <- Ranks
CHECK_DEADLOCK FALSE
INVARIANTS
    AnalysisOnlyOnceDone
