SPECIFICATION Spec
CONSTANTS
    a = a
    b = b
    c = c
    d = d
    e = e
    f = f
    Photos <- SixPhotos
    Uploads <- FourUploads
    Limit = 2
    MaxTime = 2
CHECK_DEADLOCK FALSE
INVARIANTS
    TypeOK
    SkipsOnlyTies
    RepeatsHaveACause
