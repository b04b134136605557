SPECIFICATION FairSpec
CONSTANTS
    Addr = {1}
    Odid = {1, 2}
    Transports = {"tcp", "udp", "file"}
    Kind = {"ok", "malformed", "nomem", "norec", "norequest"}
    DefRecs = 1
    MaxGen = 2
    MaxMsg = 3
    RingCap = 3
INVARIANTS
    TypeOK
    RefersToLiving
    NoStaleRecord
    ContextsAccounted
    TemplatesOutliveClose
PROPERTY BadSessionCloses
