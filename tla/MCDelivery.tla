----------------------------- MODULE MCDelivery -----------------------------
(* A message sent by two workers, and its receipts, for TLC. *)
EXTENDS DeliveryReceipts, TLC

CONSTANTS j1, w1, w2, h1, h2

MCJobs == {j1}
MCTemplateJobs == {}
MCWorkers == {w1, w2}
MCHandlers == {h1, h2}
MCReports == {"sent", "deleted"}
MCSuccesses == {"sent", "delivered", "read"}
MCSymmetry == Permutations(MCWorkers) \cup Permutations(MCHandlers)
=============================================================================
