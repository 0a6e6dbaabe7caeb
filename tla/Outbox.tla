------------------------------- MODULE Outbox -------------------------------
(***************************************************************************)
(* The transactional outbox that delivers agents' messages to WhatsApp     *)
(* (outbox.js, outbox-worker.js, outbox-worker-main.js).                   *)
(*                                                                         *)
(* A row of outbox_jobs is a job; the row of conversation_messages whose   *)
(* id is the job's idempotency key is its message.  Workers are processes  *)
(* that share nothing but the database.  Each SQL statement is one step,   *)
(* the provider call is a step of its own, and between any two steps a     *)
(* worker can stall, crash or lose its connection.                         *)
(*                                                                         *)
(* Wall-clock comparisons are booleans of the row: due is                  *)
(* available_at <= now(), expired is locked_at < now() - 2 minutes.  A     *)
(* lease token is the number of times its job was claimed so far, which is *)
(* as fresh as the UUID the code draws.                                    *)
(***************************************************************************)
EXTENDS Integers

CONSTANTS
  Jobs,          \* rows of outbox_jobs
  TemplateJobs,  \* the jobs of kind 'template'; the others are of kind 'text'
  Workers,       \* outbox worker processes
  MaxAttempts,   \* max_attempts of every job
  NoJob,         \* the job of an idle worker
  NoWorker       \* locked_by = null

ASSUME OutboxAssumption ==
  /\ TemplateJobs \subseteq Jobs
  /\ MaxAttempts \in Nat \ {0}
  /\ NoJob \notin Jobs
  /\ NoWorker \notin Workers

VARIABLES
  job,       \* outbox_jobs
  message,   \* conversation_messages.delivery_status, by job
  work,      \* what each worker's processOne() has in hand
  claims,    \* number of leases granted on each job
  accepted,  \* number of times the provider accepted each job's message
  exhausted  \* jobs whose lease holder found them dead in markFailed

vars == <<job, message, work, claims, accepted, exhausted>>

-----------------------------------------------------------------------------
JobStatus ==
  {"absent", "pending", "processing", "sent", "failed", "dead_letter", "delivery_unknown"}

\* The statuses that no statement of the outbox ever leaves.
Final == {"sent", "dead_letter", "delivery_unknown"}

\* A row of outbox_jobs; lease_token 0 is null.
JobRow ==
  [status : JobStatus, attempts : 0..(MaxAttempts - 1),
   locked_by : Workers \cup {NoWorker}, lease_token : Nat,
   due : BOOLEAN, expired : BOOLEAN]

\* What processOne holds: the row as claimed, and where it is.  At "send" the
\* adapter call is next, at "deliver" markDelivered, at "fail" markFailed.
Work ==
  [pc : {"idle", "send", "deliver", "fail"}, job : Jobs \cup {NoJob},
   attempts : 0..(MaxAttempts - 1), lease_token : Nat, terminal : BOOLEAN]

Idle ==
  [pc |-> "idle", job |-> NoJob, attempts |-> 0, lease_token |-> 0, terminal |-> FALSE]

NoRow ==
  [status |-> "absent", attempts |-> 0, locked_by |-> NoWorker, lease_token |-> 0,
   due |-> FALSE, expired |-> FALSE]

Init ==
  /\ job = [j \in Jobs |-> NoRow]
  /\ message = [j \in Jobs |-> "absent"]
  /\ work = [w \in Workers |-> Idle]
  /\ claims = [j \in Jobs |-> 0]
  /\ accepted = [j \in Jobs |-> 0]
  /\ exhausted = {}

-----------------------------------------------------------------------------
\* row with its lease cleared and another status.
Released(row, status) ==
  [row EXCEPT !.status = status, !.locked_by = NoWorker, !.lease_token = 0,
              !.expired = FALSE]

\* row leased to w under a token.
Leased(row, w, token) ==
  [row EXCEPT !.status = "processing", !.locked_by = w, !.lease_token = token,
              !.expired = FALSE]

\* POST /inbox/:id/messages and /templates: one transaction inserts the message
\* as 'queued' and the job as 'pending'.  The job's key is the new message's id,
\* so the on-conflict branch, which changes nothing, is the guard.
Enqueue(j) ==
  /\ job[j].status = "absent"
  /\ job' = [job EXCEPT ![j].status = "pending", ![j].due = TRUE]
  /\ message' = [message EXCEPT ![j] = "queued"]
  /\ UNCHANGED <<work, claims, accepted, exhausted>>

-----------------------------------------------------------------------------
(* Claiming *)

Claimable(j) ==
  /\ job[j].status \in {"pending", "failed"}
  /\ job[j].due
  /\ job[j].attempts < MaxAttempts

SweptRequeues ==
  [j \in Jobs |-> IF job[j].status = "processing" /\ job[j].expired
                  THEN Released(job[j], "failed") ELSE job[j]]

SweptNothing == job

\* The `ambiguous` part of the claim statement, over the whole table.
Swept ==
  [j \in Jobs |-> IF job[j].status = "processing" /\ job[j].expired
                  THEN Released(job[j], "delivery_unknown") ELSE job[j]]

\* claimNextJob: sweep, and lease one due job.  Which one is left open: the order
\* by available_at is only advisory once rows locked by others are skipped.
ClaimJob(w, j) ==
  /\ work[w].pc = "idle"
  /\ Claimable(j)
  /\ job' = [Swept EXCEPT ![j] = Leased(@, w, claims[j] + 1)]
  /\ claims' = [claims EXCEPT ![j] = @ + 1]
  /\ work' = [work EXCEPT ![w] = [pc |-> "send", job |-> j, attempts |-> job[j].attempts,
                                  lease_token |-> claims[j] + 1, terminal |-> FALSE]]
  /\ UNCHANGED <<message, accepted, exhausted>>

\* claimNextJob with no due job still commits its sweep; the worker then sleeps.
ClaimNothing(w) ==
  /\ work[w].pc = "idle"
  /\ \A j \in Jobs : ~Claimable(j)
  /\ job' = Swept
  /\ UNCHANGED <<message, work, claims, accepted, exhausted>>

-----------------------------------------------------------------------------
(* Sending.  Neither adapter passes clientMessageId on, so the provider cannot *)
(* recognise a message it already accepted.                                    *)

Goto(w, pc, terminal) ==
  work' = [work EXCEPT ![w].pc = pc, ![w].terminal = terminal]

\* No credentials, no adapter, no such method, or an unconfigured channel.
Unsendable(w) ==
  /\ work[w].pc = "send"
  /\ Goto(w, "fail", FALSE)
  /\ UNCHANGED <<job, message, claims, accepted, exhausted>>

\* The provider accepts and its answer, with a message id, arrives.
Accepts(w) ==
  /\ work[w].pc = "send"
  /\ accepted' = [accepted EXCEPT ![work[w].job] = @ + 1]
  /\ Goto(w, "deliver", FALSE)
  /\ UNCHANGED <<job, message, claims, exhausted>>

\* The provider accepts, and the call throws all the same: the 15 s AbortSignal
\* fires, the answer is lost or malformed, or it carries no message id.
AcceptsUnheard(w) ==
  /\ work[w].pc = "send"
  /\ accepted' = [accepted EXCEPT ![work[w].job] = @ + 1]
  /\ Goto(w, "fail", FALSE)
  /\ UNCHANGED <<job, message, claims, exhausted>>

\* An HTTP error.  classifyFailure can only find it terminal through error.status,
\* which sendTemplate alone sets.
Rejects(w) ==
  /\ work[w].pc = "send"
  /\ \E terminal \in BOOLEAN :
       /\ terminal => work[w].job \in TemplateJobs
       /\ Goto(w, "fail", terminal)
  /\ UNCHANGED <<job, message, claims, accepted, exhausted>>

-----------------------------------------------------------------------------
(* Recording the outcome *)

HoldsLeaseAnyToken(w) == work[w].job \in Jobs

\* The fence of every marking statement.
HoldsLease(w) ==
  LET row == job[work[w].job] IN
  /\ row.status = "processing"
  /\ row.locked_by = w
  /\ row.lease_token = work[w].lease_token

LinkedMessageUnfenced(w) == {work[w].job}

\* The messages markDelivered's CTE reaches: the job's own, if the fence held.
LinkedMessage(w) == IF HoldsLease(w) THEN {work[w].job} ELSE {}

\* The fenced update of markDelivered and of the message linked to the job.
RecordSent(w) ==
  /\ job' = IF HoldsLease(w)
            THEN [job EXCEPT ![work[w].job] = Released(@, "sent")] ELSE job
  /\ message' = [j \in Jobs |-> IF j \in LinkedMessage(w) THEN "sent" ELSE message[j]]

\* markDelivered; processOne ignores whether the fence held.
MarkDelivered(w) ==
  /\ work[w].pc = "deliver"
  /\ RecordSent(w)
  /\ work' = [work EXCEPT ![w] = Idle]
  /\ UNCHANGED <<claims, accepted, exhausted>>

\* markDelivered rejects inside the try block, so the catch block runs markFailed.
\* The statement may have committed before the connection was lost.
MarkDeliveredThrows(w) ==
  /\ work[w].pc = "deliver"
  /\ RecordSent(w) \/ UNCHANGED <<job, message>>
  /\ Goto(w, "fail", FALSE)
  /\ UNCHANGED <<claims, accepted, exhausted>>

AttemptsUncharged(w) == work[w].attempts

\* The attempt count markFailed writes, from the row as it was claimed.
AttemptsCharged(w) == work[w].attempts + 1

DeadOffByOne(w) == work[w].terminal \/ AttemptsCharged(w) > MaxAttempts

Dead(w) == work[w].terminal \/ AttemptsCharged(w) >= MaxAttempts

\* markFailed, the retry: back to the queue with a backoff.
MarkFailedRetry(w) ==
  /\ work[w].pc = "fail"
  /\ ~Dead(w)
  /\ job' = IF HoldsLease(w)
            THEN [job EXCEPT ![work[w].job] =
                    [Released(@, "failed") EXCEPT !.attempts = AttemptsCharged(w),
                                                  !.due = FALSE]]
            ELSE job
  /\ work' = [work EXCEPT ![w] = Idle]
  /\ UNCHANGED <<message, claims, accepted, exhausted>>

\* markFailed, the dead branch: its insert into failed_jobs selects tenant_id from a
\* CTE that does not return it, so PostgreSQL rejects the whole statement, processOne
\* rejects, and the job keeps its lease until the sweep.
MarkFailedDead(w) ==
  /\ work[w].pc = "fail"
  /\ Dead(w)
  /\ exhausted' = IF HoldsLease(w) THEN exhausted \cup {work[w].job} ELSE exhausted
  /\ work' = [work EXCEPT ![w] = Idle]
  /\ UNCHANGED <<job, message, claims, accepted>>

\* The worker process dies (or SIGTERM ends its pool under it) with a job in hand, or
\* the marking statement of markFailed does not reach the database; its loop, or its
\* supervisor, starts over with nothing in hand.
Crash(w) ==
  /\ work[w].pc # "idle"
  /\ work' = [work EXCEPT ![w] = Idle]
  /\ UNCHANGED <<job, message, claims, accepted, exhausted>>

-----------------------------------------------------------------------------
(* Time *)

BackoffElapses(j) ==
  /\ job[j].status = "failed"
  /\ ~job[j].due
  /\ job' = [job EXCEPT ![j].due = TRUE]
  /\ UNCHANGED <<message, work, claims, accepted, exhausted>>

LeaseExpires(j) ==
  /\ job[j].status = "processing"
  /\ ~job[j].expired
  /\ job' = [job EXCEPT ![j].expired = TRUE]
  /\ UNCHANGED <<message, work, claims, accepted, exhausted>>

-----------------------------------------------------------------------------
Poll(w) == ClaimNothing(w) \/ \E j \in Jobs : ClaimJob(w, j)

Attempt(w) == Unsendable(w) \/ Accepts(w) \/ AcceptsUnheard(w) \/ Rejects(w)

Mark(w) ==
  \/ MarkDelivered(w)
  \/ MarkDeliveredThrows(w)
  \/ MarkFailedRetry(w)
  \/ MarkFailedDead(w)

Next ==
  \/ \E j \in Jobs : Enqueue(j) \/ BackoffElapses(j) \/ LeaseExpires(j)
  \/ \E w \in Workers : Poll(w) \/ Attempt(w) \/ Mark(w) \/ Crash(w)

Spec == Init /\ [][Next]_vars

\* Each worker's loop polls and finishes what it holds, and clocks advance.  Nothing
\* is assumed of the provider, of the database or of crashes.
Fairness ==
  /\ \A w \in Workers : WF_vars(Poll(w)) /\ WF_vars(Attempt(w) \/ Mark(w))
  /\ \A j \in Jobs : WF_vars(BackoffElapses(j)) /\ WF_vars(LeaseExpires(j))

FairSpec == Spec /\ Fairness

-----------------------------------------------------------------------------
TypeOK ==
  /\ job \in [Jobs -> JobRow]
  /\ message \in [Jobs -> {"absent", "queued", "sent", "failed"}]
  /\ work \in [Workers -> Work]
  /\ claims \in [Jobs -> Nat]
  /\ accepted \in [Jobs -> Nat]
  /\ exhausted \subseteq Jobs

\* No two workers are ever at work on the same job, stale lease or not: an expired
\* lease sends its job to delivery_unknown, from which nobody claims it again.
ExclusiveDelivery ==
  \A v, w \in Workers :
    v # w /\ work[v].pc # "idle" => work[v].job # work[w].job

\* Every message the provider may have seen is charged to the job before it can be
\* sent again: a job waiting for a retry was accepted at most `attempts` times, any
\* other at most once more.
RetryBudget ==
  \A j \in Jobs :
    accepted[j] <= job[j].attempts
                   + (IF job[j].status \in {"absent", "pending", "failed"} THEN 0 ELSE 1)

\* An agent reads 'sent' on a message exactly when its job is settled as sent, and
\* only if the provider did accept it.
SentIsTrue ==
  \A j \in Jobs :
    /\ message[j] = "sent" <=> job[j].status = "sent"
    /\ message[j] = "sent" => accepted[j] > 0

\* Whatever crashes, stalls and failures occur, a job does not stay queued or leased
\* for ever.
EventuallySettled ==
  \A j \in Jobs : job[j].status # "absent" ~> job[j].status \in Final

-----------------------------------------------------------------------------
(* Why the invariants hold: what is true of every lease and of every worker.   *)

Waiting(j) == job[j].status \in {"absent", "pending", "failed"}

\* A row is locked exactly while it is processing, under its newest token, and every
\* lease but the one in progress, or the last one, was charged as a failed attempt.
LeaseCharged ==
  \A j \in Jobs :
    /\ claims[j] = job[j].attempts + (IF Waiting(j) THEN 0 ELSE 1)
    /\ IF job[j].status = "processing"
       THEN job[j].lease_token = claims[j]
       ELSE job[j].locked_by = NoWorker /\ job[j].lease_token = 0

\* A worker with a job in hand has the newest lease on it; the lease is either still
\* its own or the job is settled, never somebody else's.
HandIsNewest ==
  \A w \in Workers :
    IF work[w].pc = "idle" THEN work[w] = Idle
    ELSE /\ work[w].job \in Jobs
         /\ work[w].lease_token = claims[work[w].job]
         /\ \/ /\ job[work[w].job].status = "processing"
               /\ job[work[w].job].locked_by = w
               /\ job[work[w].job].attempts = work[w].attempts
            \/ job[work[w].job].status \in {"sent", "delivery_unknown"}

\* Every acceptance used up a lease: a worker about to send has one unused, and one
\* about to record a delivery has used its own.
AcceptedUnderLease ==
  /\ \A j \in Jobs : accepted[j] <= claims[j]
  /\ \A w \in Workers :
       /\ work[w].pc = "send" => accepted[work[w].job] < claims[work[w].job]
       /\ work[w].pc = "deliver" => accepted[work[w].job] > 0

\* The inductive invariant.
IInv ==
  TypeOK /\ LeaseCharged /\ HandIsNewest /\ AcceptedUnderLease
         /\ ExclusiveDelivery /\ SentIsTrue

-----------------------------------------------------------------------------
\* The row as an item of the abstract queue: what became of it, how many failed
\* attempts it was charged, and how many leases were granted on it.
AbstractItem(j) ==
  [phase |-> CASE job[j].status = "absent" -> "absent"
               [] job[j].status \in {"pending", "failed"} -> "waiting"
               [] job[j].status = "processing" -> "held"
               [] OTHER -> "settled",
   attempts |-> job[j].attempts,
   tickets |-> claims[j]]

Queue == INSTANCE LeasedQueue
         WITH Items <- Jobs, Reissue <- FALSE, item <- [j \in Jobs |-> AbstractItem(j)]

\* The outbox implements the abstract queue that never reissues a ticket: a job is
\* handed out only while its budget lasts, moves only under its current lease, and
\* never moves again once settled.
ImplementsQueue == Queue!Spec

\* "a terminal delivery failure advances the linked CRM message to failed": a job that
\* its lease holder gave up on is dead-lettered and its message shows the failure.
DeadIsRecorded ==
  \A j \in exhausted : job[j].status = "dead_letter" /\ message[j] = "failed"

\* "Worker crash before effect, after effect, and before completion is reconciled
\* without silent loss or duplicate effect": one job, one message at the provider.
NoDuplicateSend == \A j \in Jobs : accepted[j] <= 1
=============================================================================
