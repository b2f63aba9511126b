SPECIFICATION Spec
CONSTANTS
    None = None
    site = site
    blink = blink
    h1 = h1
    h2 = h2
    c1 = c1
    c2 = c2
    RpIds = {site, blink}
    DummyRpIds = {blink}
    Hashes = {h1, h2}
    CredIds = {c1, c2}
    AllowLists <- MCAllowLists
    cooldown_duration = 1
    cache_ttl = 2
    MaxNow = 3
    MaxServed = 2
SYMMETRY MCSymmetry
INVARIANT SilentNeverPrompts
