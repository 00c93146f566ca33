SYMMETRY AccountSymmetry
SPECIFICATION Spec
CONSTANTS
    u1 = u1
    u2 = u2
    NoUser = NoUser
    Users <- TwoUsers
    MaxGrant = 3
    MaxFaults = 3
    MaxCrashes = 2
INVARIANTS
    SignedOutStaysOut
    SecureStoreSurvivesRestart
    RemovedIsCleaned
PROPERTIES
    StoreKeepsNewest
    LegacySourceKept
