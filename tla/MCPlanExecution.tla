-------------------------- MODULE MCPlanExecution --------------------------
(* Plans and branch names for model checking PlanExecution.  The names are *)
(* "a" and what the suffixes make of it: a2 is "a-2", a22 is "a-2-2".      *)
(* Plans planP and planQ belong to one session.                            *)
EXTENDS PlanExecution, TLC

CONSTANTS planP, planQ, a, a2, a3, a22

MCSessionOf == [x \in Plans |-> "s1"]

MCPreferred == [x \in Plans |-> IF x = planQ THEN a2 ELSE a]

Suffixed == [b \in {a, a2, a3, a22} |->
    CASE b = a -> <<a, a2, a3>>
      [] b = a2 -> <<a2, a22>>
      [] OTHER -> <<b>>]

MCCandidates == [b \in Branches |-> SelectSeq(Suffixed[b], LAMBDA c : c \in Branches)]

MCFiles == [x \in Plans |-> Paths]

(* Workers are interchangeable. *)
Symmetry == Permutations(Executors)

=============================================================================
