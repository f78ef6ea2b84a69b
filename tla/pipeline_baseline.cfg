\* An automatic session, a manual one and a refresh overlap at will, on a
\* repository with or without a baseline; one of them is cut short.  Of the
\* three opportunities two share a path, and the cap is one plan.
SPECIFICATION Spec
CONSTANTS
    i = i  x = x  y = y
    s1 = s1  s2 = s2
    Sessions = {s1, s2}
    FirstScans = {}
    Manual = {s2}
    Refreshes = {r1}
    Opportunities = {i, x, y}
    Worse <- MCWorse
    Refused = {}
    Holds = {{}, {y}}
    Fixable = {i, x, y}
    Clashes <- MCClashes
    Cap = 1
    MaxHead = 3
    Faults = {"crash", "retry", "fail", "cancel"}
    MaxFaults = 1
    None = None
INVARIANTS TypeOK NothingSlips DriftLooksForward NoRepeatedPlan CapPerRun NothingUnreported
PROPERTIES BackOnlyWhenOvertaken
CHECK_DEADLOCK FALSE
