SPECIFICATION Spec
CONSTANTS
    c1 = c1
    c2 = c2
    u1 = u1
    u2 = u2
    None = None
    Calls <- TwoCalls
    Users <- TwoUsers
    MaxChanges = 1
    MaxFaults = 2
    MaxRestarts = 1
SYMMETRY Interchangeable
CHECK_DEADLOCK FALSE
INVARIANTS
    AllocationInv
PROPERTIES
    ImplementsLedger
    HandOverInItsScope
