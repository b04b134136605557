SPECIFICATION McSpec
CONSTANTS
    Scarcity = {FALSE, TRUE}
    NIn = 2
    NInter = 0
    NOut = 1
    RingSize = 1
    Wants <- WantAll
    Failing <- Nobody
    MaxData = 1
    MaxPeriodic = 0
    MaxSignals = 1
    AllocFails = FALSE
    Asserts = TRUE
INVARIANTS
    NothingAfterTerm
    MergedDoneIsComplete
