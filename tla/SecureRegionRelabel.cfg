\* One thread that relabels an object.
SPECIFICATION Spec
CONSTANTS
    Threads = {t1}
    Objects = {o1, o2}
    MaxTag = 1
    MaxDepth = 2
    SecArgs = {{}, {1}}
    IntArgs = {{}}
    CapArgs = {{}, {1}}
    GiveArgs = {}
    CapTypes <- MCTypes
    AllocArgs = {}
INVARIANTS RelabelLabelsCopy
CHECK_DEADLOCK FALSE
SYMMETRY MCSymmetry
