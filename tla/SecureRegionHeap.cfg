\* One thread, nested regions and two objects; the tag can never be removed.
SPECIFICATION Spec
CONSTANTS
    Threads = {t1}
    Objects = {o1, o2}
    MaxTag = 1
    MaxDepth = 3
    SecArgs = {{}, {1}}
    IntArgs = {{}}
    CapArgs = {{}, {1}}
    GiveArgs = {{1}}
    CapTypes <- MCPlus
    AllocArgs = {{1}}
INVARIANTS TypeOK FlagMeansRegion Grounded Contained
CHECK_DEADLOCK FALSE
SYMMETRY MCSymmetry
