SPECIFICATION ReceiverFairSpec
CONSTANTS
    SequenceModulus = 16
    ReplayPackets = 4
    Frames = 3
    Encodings <- StartOrMiddle
    Data = 2
    Parity = 1
    FirstIndex = 13
    WindowLimit = 4
    BlockLimit = 3
    RangeLimit = 2
    NackLimit = 2
    MaxResets = 1
CHECK_DEADLOCK FALSE
INVARIANTS
    WholeFrames
    ContiguousFollows
    NackOnlyMissing
PROPERTIES
    StallEscalates
