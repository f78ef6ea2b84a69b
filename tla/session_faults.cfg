\* One session with everything that can meet on its row: a trigger call, two
\* tasks, a cancel, the beat task, and every fault.
SPECIFICATION FairSpec
CONSTANTS
    Sessions = {s1}
    Subjects = {k1}
    Requests = {q1}
    Cancels = {c1}
    TaskIds = {t1, t2}
    MaxRetries = 1
    Faults = {"crash", "lose", "publish", "revoke"}
    MaxFaults = 2
    None = None
INVARIANTS TypeOK FinishTime
PROPERTIES QuietCancelIsFinal QuietEndIsFinal StrandedIsForGood ActiveEndsUnlessRetryLost
CHECK_DEADLOCK FALSE
