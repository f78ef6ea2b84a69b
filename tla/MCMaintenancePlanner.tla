------------------------ MODULE MCMaintenancePlanner ------------------------
(* MaintenancePlanner with values for TLC.  One opportunity at most is     *)
(* refused, one concern at most is held.                                   *)
EXTENDS MaintenancePlanner, TLC

MCInit ==
    /\ PlannerInit
    /\ Cardinality(refused) <= 1
    /\ Cardinality(held) <= 1

MCSpec == MCInit /\ [][PlannerNext]_plannerVars

(* Opportunities and paths are interchangeable. *)
Symmetry == Permutations(Candidates) \cup Permutations(Paths)

=============================================================================
