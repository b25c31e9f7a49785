---------------------------- MODULE MCWebhookQueue ----------------------------
(***************************************************************************)
(* WebhookQueue with two rows: the statistics of b1 may change once after  *)
(* they were queued, which is what the races are about.  Dispatchers are   *)
(* interchangeable; only the run without liveness uses the symmetry.       *)
(***************************************************************************)
EXTENDS WebhookQueue

CONSTANTS b1, b2

MCMaxEvents == [b \in {b1, b2} |-> IF b = b1 THEN 2 ELSE 1]

Symmetry == Permutations(Dispatchers)
=============================================================================
