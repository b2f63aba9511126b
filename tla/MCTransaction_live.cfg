SPECIFICATION Spec
CONSTANTS
    c1 = c1
    c2 = c2
    Channels = {c1, c2}
    None = None
    MaxRequests = 1
    MaxInbox = 3
PROPERTY NoOrphanModal
PROPERTY UserCancelEnds
PROPERTY HostCancelEnds
