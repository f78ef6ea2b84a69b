------------------------- MODULE MCWebhookDelivery -------------------------
(* Deliveries for model checking WebhookDelivery: two pushes, the second   *)
(* on a protected path, and one event of another kind.                     *)
EXTENDS WebhookDelivery, TLC

CONSTANTS push1, push2, other

MCPushes == Deliveries \ {other}

MCRisky == Deliveries \cap {push2}

MCCommits == [d \in Deliveries |-> CASE d = push1 -> 1 [] d = push2 -> 2 [] OTHER -> 0]

(* Web processes and workers are interchangeable. *)
Symmetry == Permutations(Handlers) \cup Permutations(Workers)

=============================================================================
