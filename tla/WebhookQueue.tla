---------------------------- MODULE WebhookQueue ----------------------------
(***************************************************************************)
(* The durable queue between the messaging providers and the CRM:          *)
(* receive() of channel-webhook-service.js, which a provider's POST enters *)
(* through, and the worker loop of webhook-worker.js that drains it.       *)
(*                                                                         *)
(* What a worker does with an event (webhook-processor.js) is left open    *)
(* here: it returns or it throws.  WebhookPipeline puts it in.             *)
(*                                                                         *)
(* As in Outbox, due is available_at <= now(), expired is locked_at older  *)
(* than two minutes, and a lease token counts the leases of its event.     *)
(* Nothing in the code limits how often an event's lease is lost, so the   *)
(* bound MaxExpiries does: neither a crash nor a slow worker costs an      *)
(* event more leases than that.                                            *)
(***************************************************************************)
EXTENDS Integers, Sequences

CONSTANTS
  Events,       \* (channel, provider_event_id): one row of webhook_events each
  Requests,     \* POST requests, a provider's redeliveries among them
  BatchOf,      \* the events a request carries, in order
  Workers,      \* webhook worker processes
  MaxAttempts,  \* max_attempts of every event
  MaxExpiries,  \* bound: leases of one event that may expire unfinished
  NoEvent,      \* the event of an idle worker
  NoWorker      \* locked_by = null

ASSUME WebhookAssumption ==
  /\ BatchOf \in [Requests -> Seq(Events)]
  /\ MaxAttempts \in Nat \ {0}
  /\ MaxExpiries \in Nat
  /\ NoEvent \notin Events
  /\ NoWorker \notin Workers

VARIABLES
  event,     \* webhook_events
  request,   \* the requests being served
  task,      \* what each worker's processOneWebhook() has in hand
  grants,    \* number of leases granted on each event
  expiries   \* number of leases of each event that expired

vars == <<event, request, task, grants, expiries>>

-----------------------------------------------------------------------------
EventStatus == {"absent", "pending", "processing", "processed", "failed", "dead_letter"}

Decided == {"processed", "dead_letter"}

EventRow ==
  [status : EventStatus, attempts : 0..MaxAttempts,
   locked_by : Workers \cup {NoWorker}, lease_token : Nat,
   due : BOOLEAN, expired : BOOLEAN]

\* next is the place in the batch of the event to insert next, and fresh whether an
\* insert of this request was not a duplicate.  "lost" is a request that failed.
Request ==
  [pc : {"open", "accepted", "duplicate", "lost"}, next : Nat \ {0}, fresh : BOOLEAN]

\* At "process" processEvent runs, at "processed" and "failed" a mark is next.
Task ==
  [pc : {"idle", "process", "processed", "failed"}, event : Events \cup {NoEvent},
   attempts : 0..(MaxAttempts - 1), lease_token : Nat]

Idle == [pc |-> "idle", event |-> NoEvent, attempts |-> 0, lease_token |-> 0]

Init ==
  /\ event = [e \in Events |-> [status |-> "absent", attempts |-> 0,
                                locked_by |-> NoWorker, lease_token |-> 0,
                                due |-> FALSE, expired |-> FALSE]]
  /\ request = [r \in Requests |-> [pc |-> "open", next |-> 1, fresh |-> FALSE]]
  /\ task = [w \in Workers |-> Idle]
  /\ grants = [e \in Events |-> 0]
  /\ expiries = [e \in Events |-> 0]

-----------------------------------------------------------------------------
(* Ingestion: one insert per event, each its own transaction, then the answer *)

\* The insert of receive()'s loop, `on conflict do nothing`.
InsertNext(r) ==
  LET q == request[r]
      e == BatchOf[r][q.next]
  IN /\ q.pc = "open"
     /\ q.next <= Len(BatchOf[r])
     /\ request' = [request EXCEPT ![r] = [pc |-> "open", next |-> q.next + 1,
                                           fresh |-> q.fresh \/ event[e].status = "absent"]]
     /\ event' = IF event[e].status = "absent"
                 THEN [event EXCEPT ![e].status = "pending", ![e].due = TRUE]
                 ELSE event
     /\ UNCHANGED <<task, grants, expiries>>

AnsweredEarly(r) == request[r].next > 1

\* Has the loop stored the whole batch?
Answered(r) == request[r].next > Len(BatchOf[r])

\* 202 if any event was new, else 200: either way the provider stops redelivering.
Answer(r) ==
  /\ request[r].pc = "open"
  /\ Answered(r)
  /\ request' = [request EXCEPT ![r].pc = IF request[r].fresh THEN "accepted"
                                          ELSE "duplicate"]
  /\ UNCHANGED <<event, task, grants, expiries>>

\* The server dies or an insert fails part-way: what was inserted stays, the provider
\* gets no 2xx and will redeliver the batch, as another request.
LoseRequest(r) ==
  /\ request[r].pc = "open"
  /\ request' = [request EXCEPT ![r].pc = "lost"]
  /\ UNCHANGED <<event, task, grants, expiries>>

-----------------------------------------------------------------------------
(* Claiming *)

ClaimableOnce(e) ==
  event[e].status \in {"pending", "failed"} /\ event[e].due /\ event[e].attempts < MaxAttempts

\* Due and waiting, or abandoned by a worker whose lease expired.
Claimable(e) ==
  /\ event[e].attempts < MaxAttempts
  /\ \/ event[e].status \in {"pending", "failed"} /\ event[e].due
     \/ event[e].status = "processing" /\ event[e].expired

FreshTokenReused(e) == IF grants[e] = 0 THEN 1 ELSE event[e].lease_token

\* gen_random_uuid() of the claim statement.
FreshToken(e) == grants[e] + 1

\* claimNextWebhook: the same statement leases a waiting event and takes over an
\* expired one; neither counts as an attempt.
ClaimWebhook(w, e) ==
  /\ task[w].pc = "idle"
  /\ Claimable(e)
  /\ event' = [event EXCEPT ![e].status = "processing", ![e].locked_by = w,
                            ![e].lease_token = FreshToken(e), ![e].expired = FALSE]
  /\ task' = [task EXCEPT ![w] = [pc |-> "process", event |-> e,
                                  attempts |-> event[e].attempts,
                                  lease_token |-> FreshToken(e)]]
  /\ grants' = [grants EXCEPT ![e] = @ + 1]
  /\ UNCHANGED <<request, expiries>>

-----------------------------------------------------------------------------
(* Processing and recording *)

\* processEvent() returns, or throws.
Finish(w, pc) ==
  /\ task[w].pc = "process"
  /\ task' = [task EXCEPT ![w].pc = pc]
  /\ UNCHANGED <<event, request, grants, expiries>>

HoldsLeaseByStatus(w) == event[task[w].event].status = "processing"

\* The fence of both marking statements.
HoldsLease(w) ==
  LET row == event[task[w].event] IN
  /\ row.status = "processing"
  /\ row.locked_by = w
  /\ row.lease_token = task[w].lease_token

ReleasedStillLocked(row, status) == [row EXCEPT !.status = status, !.expired = FALSE]

Released(row, status) ==
  [row EXCEPT !.status = status, !.locked_by = NoWorker, !.lease_token = 0,
              !.expired = FALSE]

RecordProcessed(w) ==
  event' = IF HoldsLease(w)
           THEN [event EXCEPT ![task[w].event] = Released(@, "processed")] ELSE event

\* markWebhookProcessed, fence held or not.
MarkProcessed(w) ==
  /\ task[w].pc = "processed"
  /\ RecordProcessed(w)
  /\ task' = [task EXCEPT ![w] = Idle]
  /\ UNCHANGED <<request, grants, expiries>>

\* It rejects, inside the try block: the catch block marks the event failed, though
\* its effects stand, and the lost statement may have committed.
MarkProcessedThrows(w) ==
  /\ task[w].pc = "processed"
  /\ RecordProcessed(w) \/ UNCHANGED event
  /\ task' = [task EXCEPT ![w].pc = "failed"]
  /\ UNCHANGED <<request, grants, expiries>>

FailedStatusOffByOne(w) ==
  IF task[w].attempts >= MaxAttempts THEN "dead_letter" ELSE "failed"

\* dead_letter once the attempt about to be charged exhausts the budget.
FailedStatus(w) == IF task[w].attempts + 1 >= MaxAttempts THEN "dead_letter" ELSE "failed"

\* The row of w's event, released with the attempt charged.
Charged(w) ==
  [Released(event[task[w].event], FailedStatus(w)) EXCEPT
     !.attempts = task[w].attempts + 1, !.due = FALSE]

\* markWebhookFailed: charge the attempt and back off, or give up.
MarkFailed(w) ==
  /\ task[w].pc = "failed"
  /\ event' = IF HoldsLease(w)
              THEN [event EXCEPT ![task[w].event] = Charged(w)] ELSE event
  /\ task' = [task EXCEPT ![w] = Idle]
  /\ UNCHANGED <<request, grants, expiries>>

\* Can the lease of e still run out, within the bound?
MayLapse(e) == event[e].expired \/ expiries[e] < MaxExpiries

\* The process dies with an event in hand, or markWebhookFailed itself does not reach
\* the database.  No attempt is charged.
Crash(w) ==
  /\ task[w].pc # "idle"
  /\ HoldsLease(w) => MayLapse(task[w].event)
  /\ task' = [task EXCEPT ![w] = Idle]
  /\ UNCHANGED <<event, request, grants, expiries>>

-----------------------------------------------------------------------------
(* Time *)

BackoffElapses(e) ==
  /\ event[e].status = "failed"
  /\ ~event[e].due
  /\ event' = [event EXCEPT ![e].due = TRUE]
  /\ UNCHANGED <<request, task, grants, expiries>>

\* Two minutes pass on a lease, whether its worker died or is merely slow.
LeaseExpires(e) ==
  /\ event[e].status = "processing"
  /\ ~event[e].expired
  /\ expiries[e] < MaxExpiries
  /\ event' = [event EXCEPT ![e].expired = TRUE]
  /\ expiries' = [expiries EXCEPT ![e] = @ + 1]
  /\ UNCHANGED <<request, task, grants>>

-----------------------------------------------------------------------------
Ingest(r) == InsertNext(r) \/ Answer(r)

Claim(w) == \E e \in Events : ClaimWebhook(w, e)

Process(w) == Finish(w, "processed") \/ Finish(w, "failed")

Mark(w) == MarkProcessed(w) \/ MarkProcessedThrows(w) \/ MarkFailed(w)

\* Everything but what processEvent does, and the crashes that interrupt it.
QueueStep ==
  \/ \E r \in Requests : Ingest(r) \/ LoseRequest(r)
  \/ \E w \in Workers : Claim(w) \/ Mark(w)
  \/ \E e \in Events : BackoffElapses(e) \/ LeaseExpires(e)

Next == QueueStep \/ \E w \in Workers : Process(w) \/ Crash(w)

Spec == Init /\ [][Next]_vars

\* The workers' loops poll and finish what they hold, and clocks advance.  Nothing is
\* assumed of providers, of requests, or of what processEvent makes of an event.
Clocks ==
  \A e \in Events : WF_vars(BackoffElapses(e)) /\ WF_vars(LeaseExpires(e))

Fairness ==
  /\ \A w \in Workers : WF_vars(Claim(w)) /\ WF_vars(Process(w) \/ Mark(w))
  /\ Clocks

FairSpec == Spec /\ Fairness

-----------------------------------------------------------------------------
\* The last two conjuncts give the row its shape: it is leased exactly while it is
\* being processed, and only a leased row can be expired.
TypeOK ==
  /\ event \in [Events -> EventRow]
  /\ request \in [Requests -> Request]
  /\ task \in [Workers -> Task]
  /\ grants \in [Events -> Nat]
  /\ expiries \in [Events -> 0..MaxExpiries]
  /\ \A e \in Events :
       /\ event[e].status = "processing" <=> event[e].locked_by \in Workers
       /\ event[e].expired => event[e].status = "processing"

\* A provider that was told 2xx will not send the batch again, so by then every event
\* of it is durable, whichever request inserted it (receive's loop before its answer).
AckedIsDurable ==
  \A r \in Requests :
    request[r].pc \in {"accepted", "duplicate"} =>
      \A k \in 1..Len(BatchOf[r]) : event[BatchOf[r][k]].status # "absent"

\* Takeovers put several workers on one event, but no two of them under one token, and
\* none under a token newer than the row's: a fence can let at most one of them pass.
UniqueLease ==
  \A v, w \in Workers :
    task[w].event \in Events =>
      /\ task[w].lease_token <= grants[task[w].event]
      /\ v # w /\ task[v].event = task[w].event
           => task[v].lease_token # task[w].lease_token

\* An event is decided, or sent back to wait, only by the worker that was granted the
\* newest lease on it: a worker cut off by a takeover marks nothing.
FencedMarks ==
  [][\A e \in Events :
       event[e].status = "processing" /\ event'[e].status # "processing" =>
         \E w \in Workers :
           /\ task[w].event = e
           /\ task[w].lease_token = grants[e]
           /\ task'[w] # task[w]]_vars

\* Every durable event is processed or given up in the end, as long as its leases are
\* not lost for ever.
EventuallyDecided ==
  \A e \in Events : event[e].status # "absent" ~> event[e].status \in Decided

-----------------------------------------------------------------------------
(* Why the invariants hold *)

\* A row that is being processed carries the newest token granted on it.
LeaseIsNewest ==
  \A e \in Events : event[e].status = "processing" => event[e].lease_token = grants[e]

\* A worker that has not finished has an event in hand and, while its lease holds, knows
\* how many attempts the row was charged.
HandIsCurrent ==
  \A w \in Workers :
    IF task[w].pc = "idle" THEN task[w] = Idle
    ELSE /\ task[w].event \in Events
         /\ HoldsLease(w) => event[task[w].event].attempts = task[w].attempts

\* receive() stored what its loop has passed, and answers after the last event.
BatchIsStored ==
  \A r \in Requests :
    /\ request[r].pc \in {"accepted", "duplicate"} => request[r].next > Len(BatchOf[r])
    /\ \A k \in 1..Len(BatchOf[r]) :
         k < request[r].next => event[BatchOf[r][k]].status # "absent"

\* The inductive invariant.
IInv == TypeOK /\ LeaseIsNewest /\ HandIsCurrent /\ BatchIsStored /\ UniqueLease

-----------------------------------------------------------------------------
\* The row as an item of the abstract queue.
AbstractItem(e) ==
  [phase |-> CASE event[e].status = "absent" -> "absent"
               [] event[e].status \in {"pending", "failed"} -> "waiting"
               [] event[e].status = "processing" -> "held"
               [] OTHER -> "settled",
   attempts |-> event[e].attempts,
   tickets |-> grants[e]]

Queue == INSTANCE LeasedQueue
         WITH Items <- Events, Reissue <- TRUE, item <- [e \in Events |-> AbstractItem(e)]

\* The webhook queue implements the abstract queue that reissues expired tickets: every
\* failure it records is charged, an exhausted event is never granted again, and
\* a decided one never moves.
ImplementsQueue == Queue!Spec
=============================================================================
