\* Two sibling plans whose names collide with each other's and with a stranger's
\* branch, two workers that save in time.
SPECIFICATION Spec
CONSTANTS
    planP = planP  planQ = planQ
    a = a  a2 = a2  a3 = a3  a22 = a22
    Plans = {planP, planQ}
    Executors = {e1, e2}
    Branches = {a, a2, a3, a22}
    Paths = {f}
    Foreign = {a}
    Docs = {planP}
    Tier1 = {planP}
    Outsider = Outsider
    None = None
    Faults = {"crash", "error", "response", "policy"}
    SessionOf <- MCSessionOf
    Preferred <- MCPreferred
    Candidates <- MCCandidates
    Files <- MCFiles
INVARIANTS TypeOK BranchOwnership UniqueBranchNames NoEmptyPullRequest OneExecutor OnePRPerPlan
PROPERTIES ImplementsLedger
SYMMETRY Symmetry
CHECK_DEADLOCK FALSE
