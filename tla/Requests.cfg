SPECIFICATION FairSpec
CONSTANTS
    r1 = r1
    r2 = r2
    b1 = b1
    b2 = b2
    Ids <- FourCalls
    Background <- TwoBackground
    MaxActive = 2
    MaxBackground = 1
INVARIANTS
    RequestsInv
    CommitFence
PROPERTIES
    ReaderReturns
    WakesUp
