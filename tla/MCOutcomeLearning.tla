------------------------- MODULE MCOutcomeLearning -------------------------
(* Values for the constants of OutcomeLearning: two plans of one session.  *)
EXTENDS OutcomeLearning, TLC

CONSTANTS p1, p2, s1

MCSessionOf == [p \in Plans |-> s1]
MCSigns == {[plan |-> p1, outcome |-> "failed"]}

Symmetry == Permutations(Handlers) \cup Permutations(Refreshers)

=============================================================================
