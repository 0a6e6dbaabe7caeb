----------------------------- MODULE MCPipeline -----------------------------
(* Two messages of one sender, in one batch, for TLC. *)
EXTENDS WebhookPipeline, TLC

CONSTANTS e1, e2, r1, w1, w2, alice

MCEvents == {e1, e2}
MCWorkers == {w1, w2}
MCRequests == {r1}
MCBatchOf == r1 :> <<e1, e2>>
MCPhones == {alice}
MCPhoneOf == [e \in MCEvents |-> alice]
MCSeconds == {1, 2}

\* One second apart, and within the same second.
MCApart == (e1 :> 1) @@ (e2 :> 2)
MCTogether == (e1 :> 1) @@ (e2 :> 1)

Symmetry == Permutations(MCWorkers)
=============================================================================
