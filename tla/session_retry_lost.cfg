SPECIFICATION FairSpec
CONSTANTS
    Sessions = {s1}
    Subjects = {k1}
    Requests = {q1}
    Cancels = {}
    TaskIds = {t1, t2, t3}
    MaxRetries = 1
    Faults = {"crash"}
    MaxFaults = 1
    None = None
PROPERTIES ActiveEnds
CHECK_DEADLOCK FALSE
