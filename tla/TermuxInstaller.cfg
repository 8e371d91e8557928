SPECIFICATION FairSpec
CONSTANTS
    Threads = {i1}
    Entries = 3
    MaxCrashes = 2
    MaxFaults = 2
    MaxEvents = 2
 
PROPERTIES  ShellReached
