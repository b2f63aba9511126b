SPECIFICATION Spec
CONSTANTS
    c1 = c1
    c2 = c2
    Channels = {c1, c2}
    None = None
    MaxRequests = 2
    MaxInbox = 2
SYMMETRY MCSymmetry
INVARIANT SuccessShown
