SPECIFICATION FairSpec
CONSTANTS
    MaxFaults = 3
    MaxCrashes = 3
    MaxWrites = 2
INVARIANTS
    TransactionInv
    PreviousKeptUntilAccepted
    NeverATornInstallation
PROPERTIES
    NoSwapUnderRunningApplication
    HelperEnds
    SwapRecovers
