SPECIFICATION Spec
CONSTANTS
    Tasks = {t1, t2}
    Dirs = {d}
    Files = {f}
    Socks = {s}
    Fifos = {p}
    Parents <- MCParents
    Tags = {"s"}
    TaskLabels <- MCLabels
    InodeLabels <- MCLabels
    Plus <- MCPlus
    Minus <- MCMinus
    Paths = {"read", "write", "sendfile", "sendfile_overflow", "readdir", "aio_fail", "exec", "relabel"}
    PIPE_BUFFERS = 1
    Root = {}
    TCB = "tcb"
    MaxLeaks = 1
INVARIANTS TypeOK FlowAllowed
CHECK_DEADLOCK FALSE
SYMMETRY MCSymmetry
