SPECIFICATION Spec
CONSTANTS
    Menu <- MCMenu
    DummyRpIds = {".dummy", "dummy", "make.me.blink"}
    Held = {"a", "c"}
INVARIANT TypeOK
INVARIANT CredentialsKept
INVARIANT AnswerIsListed
INVARIANT SameParty
INVARIANT PolicyKept
INVARIANT Canonical
