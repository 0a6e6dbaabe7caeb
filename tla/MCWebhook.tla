----------------------------- MODULE MCWebhook -----------------------------
(* Small instances of the webhook queue for TLC. *)
EXTENDS WebhookQueue, TLC

CONSTANTS e1, e2, r1, r2, w1, w2

MCEvents == {e1, e2}
MCWorkers == {w1, w2}

\* One batch of two events, and a redelivery of the second one alone.
MCRequests == {r1, r2}
MCBatchOf == (r1 :> <<e1, e2>>) @@ (r2 :> <<e2>>)
=============================================================================
