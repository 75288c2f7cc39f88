SPECIFICATION Spec
CONSTANTS
    a1 = a1
    a2 = a2
    v1 = v1
    v2 = v2
    d1 = d1
    d2 = d2
    None = None
    Devices = {d1}
    Agents = {a1}
    Viewers = {v1}
    AgentKinds = {}
    ViewerKinds = {}
    AgentCap = 3
    ViewerCap = 3
INVARIANTS
    EveryViewerHearsOffline
CHECK_DEADLOCK FALSE
