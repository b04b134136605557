SPECIFICATION Spec
CONSTANTS
    Addr = {1}
    Odid = {1, 2}
    Transports = {"tcp"}
    Kind = {"ok", "malformed", "nomem", "norec", "norequest"}
    DefRecs = 1
    MaxGen = 2
    MaxMsg = 3
    RingCap = 3
INVARIANT
    ClosesTheRequested
