SPECIFICATION FairSpec
CONSTANTS
    ChannelLimit = 1
    QueueLimit = 1
    MaxFaults = 2
    MaxPauses = 1
INVARIANTS
    DecoderChain
    WaitingQueueIsServed
PROPERTIES
    PictureResumes
