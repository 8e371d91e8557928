SPECIFICATION FairSpec
CONSTANTS
    Size = 3
    MaxWrite = 4
    MaxRead = 3
    StreamLength = 6
INVARIANTS
    Fifo
    NoLostWakeup
    OneWaiter
    WriteResult
PROPERTIES
    IsChannel
    CloseReleases
    Delivered
