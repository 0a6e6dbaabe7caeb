------------------------------ MODULE MCOutbox ------------------------------
(* Small instances of the outbox for TLC. *)
EXTENDS Outbox

CONSTANTS j1, j2, w1, w2

MCJobs == {j1, j2}
MCTemplateJobs == {j2}
MCWorkers == {w1, w2}
=============================================================================
