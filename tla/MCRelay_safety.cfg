SPECIFICATION Spec
CONSTANTS
    a1 = a1
    a2 = a2
    v1 = v1
    v2 = v2
    d1 = d1
    d2 = d2
    None = None
    Devices = {d1}
    Agents = {a1, a2}
    Viewers = {v1}
    AgentKinds = {"rtc_offer"}
    ViewerKinds = {"input_enc"}
    AgentCap = 2
    ViewerCap = 2
SYMMETRY AgentSymmetry
INVARIANTS
    TypeOK
    LiveAgentIsReachable
    SignallingIsIsolated
    ViewersAreHeardInOrder
    NoGhostViewers
    CountSettles
PROPERTIES
    ImplementsDirectory
CHECK_DEADLOCK FALSE
