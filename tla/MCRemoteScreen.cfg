SPECIFICATION Spec
CONSTANTS
    Keys <- MCKeys
    Unknown <- MCUnknown
    MaxHeld = 3
INVARIANTS
    TypeOK
    KeysFollowTheHand
    TouchDoesWhatItShows
CHECK_DEADLOCK FALSE
