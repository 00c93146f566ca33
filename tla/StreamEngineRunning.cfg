SPECIFICATION Spec
CONSTANTS
    MaxGeneration = 3
    MaxExtras = 0
    RecoveryLimit = 1
CHECK_DEADLOCK FALSE
INVARIANT
    IdleAfterStop
