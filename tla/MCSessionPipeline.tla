------------------------- MODULE MCSessionPipeline -------------------------
(* Values for the constants of SessionPipeline.  Opportunity i came with   *)
(* the first commit, x and y with the second; they have a path in common,  *)
(* and the third commit made x worse.                                      *)
EXTENDS SessionPipeline, TLC

CONSTANTS i, x, y, s1, s2

MCWorse == (i :> {1}) @@ (x :> {2, 3}) @@ (y :> {2})

MCClashes == (i :> {}) @@ (x :> {y}) @@ (y :> {x})

=============================================================================
