\* One pull request, two workers of each task, any one fault.
SPECIFICATION Spec
CONSTANTS
    p1 = p1  p2 = p2  s1 = s1
    Plans = {p1}
    Sessions = {s1}
    Handlers = {h1, h2}
    Refreshers = {r1, r2}
    Signs <- MCSigns
    MaxHead = 2
    Faults = {"crash", "lose", "queue", "error", "redeliver", "reopen", "early"}
    MaxFaults = 1
    None = None
    SessionOf <- MCSessionOf
SYMMETRY Symmetry
INVARIANTS TypeOK LoggedOnce PlanAgreesWithLog HistoryFollowsLog CoveredUnlessMissed
CHECK_DEADLOCK FALSE
