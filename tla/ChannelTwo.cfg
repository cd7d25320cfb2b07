CONSTANTS
    Sender = {s1, s2}
    Receiver = {r1}
    PerSender = 2
    InitCap = 1
    MaxCap = 8
    Zero = Zero
SPECIFICATION Spec
PROPERTY SendKeepsPending
CHECK_DEADLOCK FALSE
