SPECIFICATION Spec
CONSTANTS
    c1 = c1
    c2 = c2
    Clients = {c1, c2}
    Sizes <- MCSizes
    RingSize = 31
INVARIANT TypeOK
INVARIANT NothingDropped
PROPERTY RequestDispatched
