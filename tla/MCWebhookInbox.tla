--------------------------- MODULE MCWebhookInbox --------------------------
(* Small instances of WebhookInbox for TLC. *)
EXTENDS WebhookInbox
CONSTANTS m1, m2, q1, q2, w1, w2
============================================================================
