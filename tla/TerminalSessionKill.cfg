SPECIFICATION Spec
CONSTANTS
    P2TSize = 1
    ReadSize = 1
    T2PSize = 1
    PtySize = 1
    MaxOutput = 1
    MaxInput = 2
INVARIANT KillsOnlyTheShell
CHECK_DEADLOCK FALSE
