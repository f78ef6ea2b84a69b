\* Two workers of each task, fair but for one fault.
SPECIFICATION FairSpec
CONSTANTS
    p1 = p1  p2 = p2  s1 = s1
    Plans = {p1, p2}
    Sessions = {s1}
    Handlers = {h1, h2}
    Refreshers = {r1, r2}
    Signs = {}
    MaxHead = 2
    Faults = {"crash", "lose", "queue", "error"}
    MaxFaults = 1
    None = None
    SessionOf <- MCSessionOf
PROPERTIES RefreshedUnlessMissed
CHECK_DEADLOCK FALSE
