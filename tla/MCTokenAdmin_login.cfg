SPECIFICATION FairSpec
CONSTANTS
    d1 = d1
    s1 = s1
    Devices = {d1}
    Secrets = {s1}
    None = None
    MaxFlight = 3
    MaxPolls = 1
    MaxWrites = 0
    MaxLogins = 3
    MaxExpiries = 3
    MaxRestarts = 1
PROPERTIES
    KnownLoginStays
    DeadSessionIsNoticed
CHECK_DEADLOCK FALSE
