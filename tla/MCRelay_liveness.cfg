SPECIFICATION FairSpec
CONSTANTS
    a1 = a1
    a2 = a2
    v1 = v1
    v2 = v2
    d1 = d1
    d2 = d2
    None = None
    Devices = {d1}
    Agents = {a1, a2}
    Viewers = {v1}
    AgentKinds = {"rtc_offer"}
    ViewerKinds = {}
    AgentCap = 1
    ViewerCap = 1
PROPERTIES
    DeadConnectionsDisappear
    MembersHearOffline
CHECK_DEADLOCK FALSE
