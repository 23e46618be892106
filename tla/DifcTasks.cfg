\* A thread and one that it clones: capabilities of one label, labels, exec.
SPECIFICATION Spec
CONSTANTS
    Tasks = {1, 2}
    InitTasks = {1}
    Root = {1}
    Addr <- MCAddr
    AddrTop = 3
    Group <- MCGroup
    NoTask = 0
    SegCaps = 1
    LabelMax = 1
    CapMax = 2
    MaxEntries = 2
    UserLabels <- MCLabels
    SetTypes = {"sec"}
    UserBufs <- MCBufs
    Types <- MCPlus
    SelfSend = FALSE
INVARIANTS TypeOK OnlyWordsForge WalkHoldsLocks NoSpinDeadlock
PROPERTIES NoRightLost LabelChangesBacked ImplementsAuthority
CHECK_DEADLOCK FALSE
