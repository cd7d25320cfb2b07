CONSTANTS
    NumTasks = 3
    Worker = {w1, w2}
    Main = Main
    Region = {r1, r2, r3, r4, r5, r6}
    None = None
    MaxDepth = 2
    MaxBlocks = 2
    MainOps = {"spawn", "wait", "cancel", "drain"}
    TaskOps = {"spawn", "wait", "part", "block"}
    Capture = FALSE
SPECIFICATION FairSpec
INVARIANT NoLostWakeup
INVARIANT NoDanglingRecord
PROPERTY Termination
CHECK_DEADLOCK FALSE
