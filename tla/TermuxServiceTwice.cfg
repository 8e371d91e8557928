SPECIFICATION Spec
CONSTANTS
    Tasks = {t1}
    Sessions = {r1}
    Plugin = {t1, r1}
    Expecting = {t1, r1}
    Rejected = {r1}
    Namesakes = {}
    Named = {}
    MaxRestarts = 0
INVARIANT AllAnsweredOnce
CHECK_DEADLOCK FALSE
