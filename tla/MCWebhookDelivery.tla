------------------------- MODULE MCWebhookDelivery -------------------------
(* A small instance of WebhookDelivery: workers are interchangeable.       *)
EXTENDS WebhookDelivery, TLC

WorkerSymmetry == Permutations(Workers)

=============================================================================
