----------------------------- MODULE MCRealtime -----------------------------
(* A tab of one user, which reconnects, and two events of one aggregate, for TLC. *)
EXTENDS Realtime, TLC

CONSTANTS e1, e2, a1, p1, u1, b1, b2, c1, c2

MCEvents == {e1, e2}
MCAggregates == {a1}
MCAggregate == [e \in MCEvents |-> a1]
\* The event that is inserted first may be the newer one.
MCVersion == (e1 :> 1) @@ (e2 :> 2)
MCPages == {p1}
MCUsers == {u1}
MCUser == [p \in MCPages |-> u1]
MCAudience == [e \in MCEvents |-> MCPages]
MCPublishers == {b1, b2}
MCConnections == {c1, c2}
MCSymmetry == Permutations(MCPublishers) \cup Permutations(MCConnections)
=============================================================================
