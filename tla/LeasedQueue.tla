---------------------------- MODULE LeasedQueue ----------------------------
(***************************************************************************)
(* What the two durable queues of the CRM promise, workers left out: the   *)
(* outbox (outbox.js) and the webhook queue (webhook-worker.js).           *)
(*                                                                         *)
(* An item is submitted, handed out under a ticket (the lease token),      *)
(* given back after a failed attempt while its budget lasts, and settled   *)
(* once and for good.  When a ticket expires the outbox settles the item   *)
(* (delivery_unknown) and the webhook queue reissues it: Reissue says      *)
(* which.  One statement may move several items at once, so a step is a    *)
(* legal move, or none, of every item.                                     *)
(***************************************************************************)
EXTENDS Integers

CONSTANTS
  Items,
  MaxAttempts,  \* failed attempts an item is given up after
  Reissue       \* is an expired ticket replaced by a new one?

VARIABLE item  \* phase, failed attempts so far, and tickets issued so far

Phase == {"absent", "waiting", "held", "settled"}

Init == item = [i \in Items |-> [phase |-> "absent", attempts |-> 0, tickets |-> 0]]

-----------------------------------------------------------------------------
Submit(r, s) == r.phase = "absent" /\ s = [r EXCEPT !.phase = "waiting"]

Grant(r, s) ==
  /\ r.phase = "waiting"
  /\ r.attempts < MaxAttempts
  /\ s = [phase |-> "held", attempts |-> r.attempts, tickets |-> r.tickets + 1]

GiveBack(r, s) ==
  /\ r.phase = "held"
  /\ r.attempts + 1 < MaxAttempts
  /\ s = [phase |-> "waiting", attempts |-> r.attempts + 1, tickets |-> r.tickets]

Settle(r, s) ==
  /\ r.phase = "held"
  /\ \E failed \in {0, 1} :
       s = [phase |-> "settled", attempts |-> r.attempts + failed, tickets |-> r.tickets]

Expire(r, s) ==
  /\ r.phase = "held"
  /\ s = IF Reissue THEN [r EXCEPT !.tickets = @ + 1] ELSE [r EXCEPT !.phase = "settled"]

Move(r, s) == Submit(r, s) \/ Grant(r, s) \/ GiveBack(r, s) \/ Settle(r, s) \/ Expire(r, s)

Next ==
  /\ DOMAIN item' = Items
  /\ item' = [i \in Items |-> item'[i]]
  /\ \A i \in Items : item'[i] = item[i] \/ Move(item[i], item'[i])

Spec == Init /\ [][Next]_item
=============================================================================
