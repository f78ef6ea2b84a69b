\* Nothing dies; the queue and the trigger service may raise.
SPECIFICATION FairSpec
CONSTANTS
    push1 = push1  push2 = push2  other = other
    Deliveries = {push1, push2}
    Handlers = {h1, h2}
    Workers = {w1, w2}
    MaxCalls = 2
    Faults = {"overlap", "queue", "enqueue"}
    Threshold = 2
    None = None
    Pushes <- MCPushes
    Risky <- MCRisky
    Commits <- MCCommits
INVARIANTS NoFullWindowLeft Attended
PROPERTIES EventHandled
CHECK_DEADLOCK FALSE
