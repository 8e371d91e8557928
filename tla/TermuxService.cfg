SPECIFICATION Spec
CONSTANTS
    Tasks = {t1}
    Sessions = {s1, n1}
    Plugin = {t1, n1}
    Expecting = {t1, n1}
    Rejected = {}
    Namesakes = {s1, n1}
    Named = {n1}
    MaxRestarts = 1
INVARIANTS AnsweredOnce CalledIsAnswered Lists SuccessIsReal
CHECK_DEADLOCK FALSE
