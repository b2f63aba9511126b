SPECIFICATION Spec
CONSTANTS
    c1 = c1
    c2 = c2
    Channels = {c1}
    BROADCAST = BROADCAST
    None = None
    Lengths <- MCLengths
    InitData = 1
    ContData = 2
    MaxSequence = 1
    Timeout = 2
    Lossy = TRUE
    MaxNow = 3
    MaxMessages = 4
INVARIANT OffsetsKept
INVARIANT Fresh
INVARIANT SyncForgets
