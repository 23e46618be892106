\* Two threads that share two objects and the label of the kernel task.
SPECIFICATION Spec
CONSTANTS
    Threads = {t1, t2}
    Objects = {o1, o2}
    MaxTag = 1
    MaxDepth = 2
    SecArgs = {{}, {1}}
    IntArgs = {{}}
    CapArgs = {{}, {1}}
    GiveArgs = {}
    CapTypes <- MCTypes
    AllocArgs = {}
INVARIANTS Grounded Contained NoLeftoverLabel
CHECK_DEADLOCK FALSE
SYMMETRY MCSymmetry
