CONSTANTS
    None = None
    Texts = {"relay"}
    MaxLines = 3
    DismissAfter = 1
SPECIFICATION Spec
INVARIANT TypeOK
INVARIANT ExitCodeTells
PROPERTY DoneCloses
CHECK_DEADLOCK FALSE
