SPECIFICATION Spec
CONSTANTS
    NInter = 1
    NOut = 1
    Ext = {1, 2}
    Sizes = {4}
    Bits = 2
    RecDef = 1
    MaxRecs = 2
    MaxItems = 2
INVARIANT
    OnlyWhatWasFilled
