------------------------- MODULE PullRequestLedger -------------------------
(***************************************************************************)
(* What the executor of maintenance PR plans promises, without branches    *)
(* names to negotiate, claims, crashes or retries: a plan opens at most    *)
(* one pull request, on a branch of its own that was nobody else's before, *)
(* and the plan is marked succeeded only for that pull request, for good.  *)
(***************************************************************************)
CONSTANTS Plans, Branches, Foreign, None

VARIABLES
    opened,   \* the branch of each plan's pull request
    recorded  \* the pull request each succeeded plan shows

Init ==
    /\ opened = [p \in Plans |-> None]
    /\ recorded = [p \in Plans |-> None]

Open(p, b) ==
    /\ opened[p] = None
    /\ b \notin Foreign
    /\ \A q \in Plans : opened[q] # b
    /\ opened' = [opened EXCEPT ![p] = b]
    /\ UNCHANGED recorded

Record(p) ==
    /\ opened[p] # None
    /\ recorded[p] = None
    /\ recorded' = [recorded EXCEPT ![p] = opened[p]]
    /\ UNCHANGED opened

Next == \E p \in Plans : (\E b \in Branches : Open(p, b)) \/ Record(p)

Spec == Init /\ [][Next]_<<opened, recorded>>

=============================================================================
