\* Everything fails, and GitHub does not always wait for its answers.
SPECIFICATION Spec
CONSTANTS
    push1 = push1  push2 = push2  other = other
    Deliveries = {push2, other}
    Handlers = {h1, h2}
    Workers = {w1, w2}
    MaxCalls = 3
    Faults = {"crash", "lose", "queue", "enqueue", "error", "overlap"}
    Threshold = 2
    None = None
    Pushes <- MCPushes
    Risky <- MCRisky
    Commits <- MCCommits
SYMMETRY Symmetry
INVARIANTS TypeOK OneProcessor
PROPERTIES ImplementsPushLedger
CHECK_DEADLOCK FALSE
