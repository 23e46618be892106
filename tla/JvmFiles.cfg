\* Two green threads on one kernel task, one stream behind a secret file.
SPECIFICATION Spec
CONSTANTS
    Threads = {"timed", "other"}
    Fds = {"f"}
    Tags = {"s"}
    FileSec <- MCFileSec
    Plus <- MCPlus
    Minus <- MCMinus
    OSPlus = {"s"}
    OSMinus = {"s"}
    Requests <- MCRequests
    Starts <- MCStarts
    Infinite = 99
    MaxWait = 1
    Capacity = 1
    MaxDepth <- MCDepth
INVARIANTS TypeOK OnlyOthersInterfere
PROPERTIES TimeoutsAreHonest TimedReadsReturn
