SPECIFICATION FairSpec
CONSTANTS
    MaxFaults = 0
    MaxCrashes = 1
    MaxWrites = 0
PROPERTY
    InterruptedReplacementRecovers
