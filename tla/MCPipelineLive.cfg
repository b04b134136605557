SPECIFICATION McFairSpec
CONSTANTS
    Scarcity = {FALSE}
    NIn = 1
    NInter = 0
    NOut = 1
    RingSize = 1
    Wants <- WantAll
    Failing <- InputOnly
    MaxData = 1
    MaxPeriodic = 1
    MaxSignals = 1
    AllocFails = FALSE
    Asserts = TRUE
PROPERTIES
    Terminates
