SPECIFICATION Spec
CONSTANTS
    t1 = t1
    t2 = t2
    NoTxn = NoTxn
    Txns <- TwoTxns
    Managed <- OneTxn
    MaxFaults = 1
    MaxCrashes = 1
INVARIANTS
    SessionExcludesUpdate
    OneUpdateAtATime
