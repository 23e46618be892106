\* One task resumes a word that carries rights of one label.
SPECIFICATION Spec
CONSTANTS
    Tasks = {1}
    InitTasks = {1}
    Root = {1}
    Addr <- MCAddr
    AddrTop = 3
    Group <- MCGroup
    NoTask = 0
    SegCaps = 1
    LabelMax = 1
    CapMax = 2
    MaxEntries = 2
    UserLabels = {}
    SetTypes = {}
    UserBufs <- MCClaimBufs
    Types <- MCTypes
    SelfSend = FALSE
INVARIANTS NoForgery
CHECK_DEADLOCK FALSE
