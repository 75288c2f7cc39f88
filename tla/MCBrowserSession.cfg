SPECIFICATION FairSpec
CONSTANTS
    MaxConnects = 2
    MaxInputs = 1
INVARIANTS
    TypeOK
    OneSessionLives
    InputGoesWhereShown
PROPERTIES
    OnlyUnansweredWaits
CHECK_DEADLOCK FALSE
