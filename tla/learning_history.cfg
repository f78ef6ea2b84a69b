\* A review and a merge of one pull request, recorded by two workers.
SPECIFICATION Spec
CONSTANTS
    p1 = p1  p2 = p2  s1 = s1
    Plans = {p1}
    Sessions = {s1}
    Handlers = {h1, h2}
    Refreshers = {r1}
    Signs <- MCSigns
    MaxHead = 2
    Faults = {}
    MaxFaults = 0
    None = None
    SessionOf <- MCSessionOf
INVARIANTS HistoryComplete
CHECK_DEADLOCK FALSE
