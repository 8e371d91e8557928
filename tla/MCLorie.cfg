SPECIFICATION LorieSpec
CONSTANTS
    p1 = p1
    p2 = p2
    ShmProcs = {p1, p2}
    ShmKeys = {k1}
    MaxGets <- TwoAndOne
    MaxDeaths = 1
    MaxDrops = 1
    MaxLeaks = 1
    Capacity = 2
    IndexSize = 4
    Earlier = 3
    MaxCopies = 3
    MaxLosses = 1
    MaxRoots = 2
    MaxChanges = 2
    Requestors = {r1, r2}
    MaxTexts = 3
    MaxCuts = 1
INVARIANTS
    
    
    
    LockBalanced
    ShownIsMade
    
    AckedOnce
    BufferHeld
    
    
PROPERTIES
    IsQueue
    CallsReturn
    LockGranted
    
    FramesShown
    HandshakesReturn
    
CHECK_DEADLOCK FALSE
