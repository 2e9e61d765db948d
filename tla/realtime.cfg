SPECIFICATION FairSpec
CONSTANTS
    Titles = {t1}
    SessionIds = {s1, s2, s3}
    Handlers = {h1, h2}
    None = None
    outboundDepth = 1
    replayMaxLen = 1
    maxPending = 1
    MaxWrites = 2
    MaxDrops = 1
    MaxRestarts = 1
INVARIANTS
    FreshNotTornDown
    InOrder

    
CHECK_DEADLOCK FALSE
