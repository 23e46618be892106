SPECIFICATION Spec
CONSTANTS
    Tasks = {t1, t2}
    Dirs = {d}
    Files = {}
    Socks = {}
    Fifos = {}
    Parents <- MCParents
    Tags = {"s"}
    TaskLabels = {}
    InodeLabels <- MCLabels
    Plus <- MCPlus
    Minus <- MCMinus
    Paths = {"readdir", "relabel"}
    PIPE_BUFFERS = 1
    Root = {}
    TCB = "tcb"
    MaxLeaks = 1
PROPERTY RelabelReturns
CHECK_DEADLOCK FALSE
