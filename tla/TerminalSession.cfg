SPECIFICATION FairSpec
CONSTANTS
    P2TSize = 1
    ReadSize = 1
    T2PSize = 2
    PtySize = 1
    MaxOutput = 2
    MaxInput = 3
INVARIANTS ExitRecorded OutputConserved InputConserved
PROPERTIES ScreenFrozen OutputShown  
CHECK_DEADLOCK FALSE
