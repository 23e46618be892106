\* Methods of three blocks and four instructions, with a branch or a loop.
SPECIFICATION Spec
CONSTANTS
    N = 3
    Regs = {"p", "q"}
    Params = {"p"}
    Objects = {1, 2, 3}
    Const = "const"
    NoReg = "none"
    Null = 0
    Programs <- MCMethods
INVARIANTS TypeOK RemovedWasChecked
PROPERTIES SetsOnlyGrow AnalysisEnds
CHECK_DEADLOCK FALSE
