SPECIFICATION Spec
CONSTANTS
    Threads = {i1}
    Entries = 2
    MaxCrashes = 2
    MaxFaults = 0
    MaxEvents = 1
INVARIANT AssumedCorrect
