SPECIFICATION Spec
CONSTANTS
    NInter = 2
    NOut = 1
    NExt = 3
    Sizes = {4}
    Bits = 2
    RecDef = 1
    MaxRecs = 2
    MaxItems = 2
    Top = 3
    Empty = Empty
    Bad = Bad
    MaxTokens = 3
    NIn = 2
    NDest = 2
    NoValue = NoValue
    Wide = 8
    Worker1 = w1
    Worker2 = w2
    NoFile = NoFile
    Slots = 2
    FirstBlocks = 1
    Endless = 9
    MaxLoops = 3
    RpWidth = 32
    SeqNumInc = 3
    UdpMax = 2
    Refused = Refused
    Unreadable = Unreadable
INVARIANTS
    ExtensionsWhole
    FiltersExact
    OrderlyEnd
    AggregationExact
    OutputExact
    ConfigurationHolds
