SPECIFICATION FairSpec
CONSTANTS
    f1 = f1
    f2 = f2
    Plain = Plain
    None = None
    Files = {f1, f2}
    MaxChunks = 3
    Window = 2
INVARIANTS
    TypeOK
    WhatIsReportedIsWhole
    WindowIsHandedOver
PROPERTIES
    EveryTransferSettles
    DoneReachesTheHost
CHECK_DEADLOCK FALSE
