SPECIFICATION Spec
CONSTANTS
    Sessions = {1, 2, 3}
    Locals <- McLocals
    Source = {a, b}
    Timeout = 1
    MaxTime = 3
    MaxCnt = 2
    Fails = {"open", "close"}
    Batch = 2
    Hdr = 2
    Limit = 8
    Lengths = {0, 2, 4}
    MaxMsgs = 3
    BufferSize = 12
    FileList <- McFiles
    MsgHdr = 2
    SetHdr = 1
    MsgSize = 6
    MaxSize = 10
    Record <- McRecord
    FileLen = 4
    NumFiles = 2
    Lifetime = 3
    Window = 1
    W = 16
    MaxNet = 1
    MaxStream = 3
    None = None
    Bad = Bad
INVARIANTS
    SessionsAreOwned
    DataIsIntact
    StreamInStep
    NumbersFollow
PROPERTY InputsKeepContract
