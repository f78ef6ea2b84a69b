\* Three opportunities in any order, two categories, two paths, a group size
\* of two, one name for every branch; the session is run twice.
SPECIFICATION MCSpec
CONSTANTS
    Candidates = {c1, c2, c3}
    Concerns = {k1, k2}
    Paths = {a, b}
    Slugs = {t}
    GroupSizeLimit = 2
    MaxAttempts = 2
SYMMETRY Symmetry
INVARIANTS PlannerTypeOK PlannedOnce NoInterference OneConcern SelectionKept
PROPERTIES NothingDropped
CHECK_DEADLOCK FALSE
