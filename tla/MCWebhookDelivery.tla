-------------------------- MODULE MCWebhookDelivery --------------------------
(* Instances of WebhookDelivery for TLC. *)
EXTENDS WebhookDelivery, TLC

CONSTANTS i1, i2, c1, c2, d1, d2

Symmetry == Permutations({i1, i2}) \cup Permutations({c1, c2}) \cup Permutations({d1, d2})
=============================================================================
