SPECIFICATION FairSpec
CONSTANTS
    v1 = v1
    None = None
    Viewers = {v1}
    MaxConns = 2
    MaxIce = 1
    SendCap = 3
INVARIANTS
    TypeOK
    NoStrandedCandidates
    SettledViewersLeaveNothing
    ReadySessionsArePresent
    CancelledDialsOnce
PROPERTIES
    OfferReachesViewer
    DeadConnectionIsReplaced
CHECK_DEADLOCK FALSE
