CONSTANTS
    Thread = {t1, t2}
    Obj = {o1, o2}
    Stripes = {{o1}, {o2}}
    Backends = {"llvm", "x64"}
    Main = t1
    Process = Process
    None = None
    MaxDepth = 4
    MaxPending = 1
    Nests = TRUE
    JumpsInTry = FALSE
    Reassigns = FALSE
    TasksThrow = FALSE
    RunsTasks = TRUE
SPECIFICATION Spec
INVARIANT HandlersExact
INVARIANT LandsAtHome
INVARIANT Serialized
CHECK_DEADLOCK FALSE
