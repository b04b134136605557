SPECIFICATION SumSpec
CONSTANTS
    Writers = {parser, configurator}
    Reader = input
    Msg = {close, periodic}
    NoMsg = NoMsg
    NoOne = NoOne
    PipeCap = 2
    NSeq = 1
    Size = 3
    IdxMod = 6
INVARIANTS
    TypeOK
    ReadNeverBlocks
    CountIsLength
PROPERTIES
    ImplementsQueue
    WriteEnds
    TwoWriters
