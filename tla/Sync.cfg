CONSTANTS
    Thread = {t1, t2, t3, t4}
    Need = 4
    Rounds = 3
    Sender = {s1}
    Receiver = {r1, r2}
    PerSender = 6
    ChannelCap = 1
    MaxCap = 4
    Zero = Zero
    Task = {k1, k2, k3, k4}
    NoTask = NoTask
    RingCap = 3
    MaxLive = 3
    Opener = {o1, o2}
    Handle = {h1, h2, h3, h4}
    TrackCap = 3
    None = None
    Key = {0, 4, 8}
    Value = {v1, v2}
    Hash <- KeyAsHash
    MapCap = 4
    MaxMapCap = 8
    Empty = Empty
    Tomb = Tomb
SPECIFICATION SyncSpec
INVARIANT NoLostWakeup
INVARIANT HandlesExact
PROPERTY ImplementsRounds
PROPERTY ChannelIsFifo
PROPERTY RingIsFifo
PROPERTY MapIsFunction
PROPERTY AllThrough
CHECK_DEADLOCK FALSE
