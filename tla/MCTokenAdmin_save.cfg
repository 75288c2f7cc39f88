SPECIFICATION Spec
CONSTANTS
    d1 = d1
    s1 = s1
    Devices = {d1}
    Secrets = {s1}
    None = None
    MaxFlight = 3
    MaxPolls = 0
    MaxWrites = 2
    MaxLogins = 1
    MaxExpiries = 0
    MaxRestarts = 0
INVARIANT OtherContentIsPreserved
CHECK_DEADLOCK FALSE
