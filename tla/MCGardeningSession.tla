------------------------- MODULE MCGardeningSession -------------------------
(* GardeningSession with values for TLC. *)
EXTENDS GardeningSession, TLC

(* Sessions, tasks, trigger calls and cancels are interchangeable. *)
Symmetry ==
    Permutations(Sessions) \cup Permutations(TaskIds)
      \cup Permutations(Requests) \cup Permutations(Cancels)

=============================================================================
