SPECIFICATION FairSpec
CONSTANTS
    Producers = {w1}
    NSeq = 32
    NoMsg = NoMsg
    NoOne = NoOne
    Size = 16
    IdxMod = 32
    MwMode = FALSE
INVARIANTS
    TypeOK
    StoreIsExclusive
    ReadsOnlyCommitted
PROPERTY ImplementsQueue ReaderNotStuck PushEnds
