\* Two trigger calls for one subject; nothing fails.
SPECIFICATION Spec
CONSTANTS
    Sessions = {s1, s2}
    Subjects = {k1}
    Requests = {q1, q2}
    Cancels = {}
    TaskIds = {t1, t2}
    MaxRetries = 1
    Faults = {}
    MaxFaults = 0
    None = None
SYMMETRY Symmetry
INVARIANTS OneActivePerSubject
CHECK_DEADLOCK FALSE
