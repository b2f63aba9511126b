SPECIFICATION Spec
CONSTANTS
    c1 = c1
    c2 = c2
    Channels = {c1, c2}
    BROADCAST = BROADCAST
    None = None
    Lengths <- MCLengths
    InitData = 1
    ContData = 2
    MaxSequence = 1
    Timeout = 2
    Lossy = FALSE
    MaxNow = 3
    MaxMessages = 4
SYMMETRY MCSymmetry
INVARIANT TypeOK
INVARIANT Intact
INVARIANT NoSpuriousError
PROPERTY CompleteInTime
