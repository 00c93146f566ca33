SPECIFICATION FairSpec
CONSTANTS
    c1 = c1
    c2 = c2
    u1 = u1
    u2 = u2
    None = None
    Calls <- TwoCalls
    Users <- OneUser
    MaxChanges = 0
    MaxFaults = 1
    MaxRestarts = 0
CHECK_DEADLOCK FALSE
PROPERTIES
    CallsEnd
    CancelledSeatIsReleased
