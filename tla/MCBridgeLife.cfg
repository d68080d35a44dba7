SPECIFICATION FairSpec
CONSTANTS
    Request = {r1, r2}
    Capacity = 2
    MayCrash = TRUE
PROPERTIES PromisesSettle EmitGoesOn BackendEnds
CHECK_DEADLOCK FALSE
