SPECIFICATION FairSpec
CONSTANTS
    MaxRuns = 2
    MaxStarts = 2
    Base = 2
    Cap = 3
INVARIANTS
    TypeOK
    EncoderUsedAloneWhileOpen
    NothingLeftRunning
PROPERTIES
    CaptureIsRetried
    CancelledPumpsEnd
CHECK_DEADLOCK FALSE
