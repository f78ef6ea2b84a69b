\* A docs plan started over after its pull request was opened.
SPECIFICATION Spec
CONSTANTS
    planP = planP  planQ = planQ
    a = a  a2 = a2  a3 = a3  a22 = a22
    Plans = {planP}
    Executors = {e1, e2}
    Branches = {a, a2}
    Paths = {f, g}
    Foreign = {}
    Docs = {planP}
    Tier1 = {planP}
    Outsider = Outsider
    None = None
    Faults = {"crash"}
    SessionOf <- MCSessionOf
    Preferred <- MCPreferred
    Candidates <- MCCandidates
    Files <- MCFiles
PROPERTIES RerunFindsPullRequest
SYMMETRY Symmetry
CHECK_DEADLOCK FALSE
