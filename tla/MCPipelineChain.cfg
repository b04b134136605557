SPECIFICATION McSpec
CONSTANTS
    Scarcity = {FALSE}
    NIn = 1
    NInter = 1
    NOut = 2
    RingSize = 1
    Wants <- WantSome
    Failing <- Late
    MaxData = 1
    MaxPeriodic = 0
    MaxSignals = 0
    AllocFails = FALSE
    Asserts = TRUE
INVARIANTS
    TypeOK
    NoUseAfterFree
    CountIsUsers
    SlowKeepsData
PROPERTIES
    GarbageIsLast
