CONSTANTS
    None = None
    GetInfo = GetInfo
    Command = Command
    Answer = Answer
    MaxExtras = 2
    Capacity = 2
SPECIFICATION TaskSpec
INVARIANT TaskTypeOK
INVARIANT CommandUnderstood
PROPERTY KeepsRemoteCommand
PROPERTY NoSpuriousFailure
PROPERTY TaskEnds
 
CHECK_DEADLOCK FALSE
