----------------------------- MODULE PushLedger -----------------------------
(***************************************************************************)
(* What the webhooks of a repository promise, without calls, queues,       *)
(* redeliveries or workers: every delivery gets one outcome, for good, and *)
(* the commits of a push are counted at most once, before its outcome; a   *)
(* push is not processed before its commits are counted, and what was      *)
(* counted is not ignored afterwards.  A delivery that has no outcome may  *)
(* be given back, its commits to be counted again.  Nothing is promised of *)
(* one that is called for twice at a time; that happens to none that has   *)
(* its commits counted or an outcome.                                      *)
(***************************************************************************)
EXTENDS Naturals

CONSTANTS Deliveries, Pushes, Commits, None

VARIABLES
    credited,  \* the pushes whose commits are counted
    outcome,   \* the outcome of each delivery
    waived     \* the deliveries nothing is promised of

Init ==
    /\ credited = {}
    /\ outcome = [d \in Deliveries |-> None]
    /\ waived = {}

Open(d) == d \notin waived /\ outcome[d] = None
Owed(d) == d \in Pushes /\ Commits[d] > 0 /\ d \notin credited

Credit(d) ==
    /\ Open(d)
    /\ Owed(d)
    /\ credited' = credited \cup {d}
    /\ UNCHANGED <<outcome, waived>>

Return(d) ==
    /\ Open(d)
    /\ credited' = credited \ {d}
    /\ UNCHANGED <<outcome, waived>>

Settle(d, o) ==
    /\ Open(d)
    /\ o = "processed" => ~Owed(d)
    /\ o = "ignored" => d \notin credited
    /\ outcome' = [outcome EXCEPT ![d] = o]
    /\ UNCHANGED <<credited, waived>>

Waive(d) ==
    /\ Open(d)
    /\ d \notin credited
    /\ waived' = waived \cup {d}
    /\ UNCHANGED <<credited, outcome>>

Next ==
    \E d \in Deliveries :
        \/ Credit(d) \/ Return(d) \/ Waive(d)
        \/ \E o \in {"processed", "ignored", "failed"} : Settle(d, o)

Spec == Init /\ [][Next]_<<credited, outcome, waived>>

=============================================================================
