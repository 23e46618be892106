SPECIFICATION Spec
CONSTANTS
    Tasks = {t1, t2, t3}
    Dirs = {}
    Files = {f}
    Socks = {s}
    Fifos = {}
    Parents <- MCParents
    Tags = {"s", "tcb"}
    TaskLabels = {}
    InodeLabels <- MCInodeLabels
    Plus <- MCPlus
    Minus <- MCMinus
    Paths = {"read", "write", "sendfile", "exec", "relabel"}
    PIPE_BUFFERS = 1
    Root = {t1}
    TCB = "tcb"
    MaxLeaks = 0
INVARIANTS QuiescentFree FlowAllowed
PROPERTY CallsReturn
