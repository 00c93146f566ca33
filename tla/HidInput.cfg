SPECIFICATION FairSpec
CONSTANTS
    NumSlots = 2
    QueueLimit = 1
    DrainBudget = 3
    MaxIncarnation = 2
    MaxEpoch = 3
INVARIANTS
    PressedIsAttached
    AdmissionIsCurrent
PROPERTIES
    ReleaseReachesServer
    
