CONSTANTS
    NumTasks = 4
    Worker = {w1, w2}
    Main = Main
    Region = {r1, r2, r3}
    None = None
    MaxDepth = 1
    MaxBlocks = 2
    MainOps = {"part", "drain"}
    TaskOps = {"part", "block"}
    Capture = FALSE
SPECIFICATION Spec
INVARIANT RegionsExact
INVARIANT OnePlace
PROPERTY JoinIsBarrier
