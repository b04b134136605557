SPECIFICATION Spec
CONSTANTS
    Block = {b1, b2}
    Inserter = {i1, i2}
    Threshold = 2
    MaxRows = 3
    Null = Null
    SetMax = 2
    ResendPkts = 2
    MaxSnap = 2
    Host = {h1, h2}
    Premade = 1
    MaxFuture = 2
    Exporter = {a, b, c}
    None = None
    MaxIpfix = 4
    MaxVersion = 1
    SesAddress = {1, 2}
    SnapAddress = {1, 2, 3}
    MaxLives = 3
    MaxDefs = 3
    Size = 2
    MaxRecords = 3
    MaxFd = 2
    MaxWindows = 2
    LnfSize = 2
    Day = 4
    LnfStart = 11
    LnfEnd = 16
    LnfTop = 7
    FirstEstimate = 4
    NoName = NoName
    UrInstance = {u1, u2}
    Bad = 99
    NoRecord = NoRecord
    MaxLogs = 4
    QueueMax = 2
    MaxProduced = 4
    MaxTexts = 3
    Byte = 2
    DevPast = 100
    DevFuture = 50
    MaxMessages = 3
INVARIANTS
    OutputsOwn
    ReceiversDecode
    NothingForgotten
