SPECIFICATION Spec
CONSTANTS
    Tasks = {t1}
    Sessions = {s1}
    Plugin = {t1}
    Expecting = {t1}
    Rejected = {}
    Namesakes = {}
    Named = {}
    MaxRestarts = 0
PROPERTY TaskIsKilled
CHECK_DEADLOCK FALSE
