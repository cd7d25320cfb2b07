CONSTANTS
    Line = {a, b, c}
    Cond = {a}
    Counted = {a, b}
    True = {2}
    MaxStops = 3
    MaxAsked = 4
    Sets = {{}, {b}, {c}, {a, b, c}}
    Odd = {}
    None = None
    Main = m
    Worker = {w1, w2}
    Hits = {w1, w2}
    MaxStopped = 2
    MaxCmds = 1
SPECIFICATION DebugSpec
INVARIANT SoleReader
INVARIANT StopsExact
INVARIANT RepliesMatch
INVARIANT ShownIsTrue
INVARIANT BreakpointsAsAsked
PROPERTY AllEnds
CHECK_DEADLOCK FALSE
