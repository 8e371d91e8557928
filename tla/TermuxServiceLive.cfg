SPECIFICATION FairSpec
CONSTANTS
    Tasks = {t1}
    Sessions = {s1, r1}
    Plugin = {t1, s1, r1}
    Expecting = {t1, s1, r1}
    Rejected = {r1}
    Namesakes = {}
    Named = {}
    MaxRestarts = 0
PROPERTIES  StopAnswers
CHECK_DEADLOCK FALSE
