---------------------------- MODULE OutboxProofs ----------------------------
(***************************************************************************)
(* Proofs about the outbox, for any number of jobs, workers and attempts:  *)
(* IInv is inductive, and implies the invariants of Outbox.                *)
(***************************************************************************)
EXTENDS Outbox, TLAPS

USE OutboxAssumption DEF OutboxAssumption

\* The initial state: nothing is queued, nobody holds anything.
LEMMA InitInv == Init => IInv
<1> SUFFICES ASSUME Init PROVE IInv
  OBVIOUS
<1>0. /\ \A j \in Jobs : job[j] = NoRow
      /\ \A w \in Workers : work[w] = Idle
  BY DEF Init
<1>1. TypeOK
  BY DEF Init, TypeOK, JobRow, NoRow, JobStatus, Work, Idle
<1>2. LeaseCharged
  <2> SUFFICES ASSUME NEW j \in Jobs
               PROVE  /\ claims[j] = job[j].attempts + (IF Waiting(j) THEN 0 ELSE 1)
                      /\ IF job[j].status = "processing"
                         THEN job[j].lease_token = claims[j]
                         ELSE job[j].locked_by = NoWorker /\ job[j].lease_token = 0
    BY DEF LeaseCharged
  <2>1. claims[j] = 0
    BY DEF Init
  <2> QED
    BY <1>0, <2>1 DEF Waiting, NoRow
<1>3. HandIsNewest /\ ExclusiveDelivery
  <2>1. \A w \in Workers : work[w].pc = "idle"
    BY <1>0 DEF Idle
  <2> QED
    BY <1>0, <2>1 DEF HandIsNewest, ExclusiveDelivery
<1>4. AcceptedUnderLease /\ SentIsTrue
  BY <1>0 DEF Init, AcceptedUnderLease, SentIsTrue, NoRow, Idle
<1> QED
  BY <1>1, <1>2, <1>3, <1>4 DEF IInv

-----------------------------------------------------------------------------
(* Rows *)

\* Releasing a row keeps it a row, sets its status and takes its lease away.
LEMMA ReleasedRow ==
  ASSUME NEW row \in JobRow, NEW status \in JobStatus
  PROVE  /\ Released(row, status) \in JobRow
         /\ Released(row, status).status = status
         /\ Released(row, status).attempts = row.attempts
         /\ Released(row, status).locked_by = NoWorker
         /\ Released(row, status).lease_token = 0
  BY DEF Released, JobRow, JobStatus

\* Leasing a row keeps it a row, and leaves its attempts alone.
LEMMA LeasedRow ==
  ASSUME NEW row \in JobRow, NEW w \in Workers, NEW token \in Nat
  PROVE  /\ Leased(row, w, token) \in JobRow
         /\ Leased(row, w, token).status = "processing"
         /\ Leased(row, w, token).attempts = row.attempts
         /\ Leased(row, w, token).locked_by = w
         /\ Leased(row, w, token).lease_token = token
  BY DEF Leased, JobRow, JobStatus

\* What the sweep does to a row: an expired lease ends as delivery_unknown, every other
\* row stays as it is.
LEMMA SweptRow ==
  ASSUME TypeOK, NEW j \in Jobs
  PROVE  /\ Swept[j] \in JobRow
         /\ Swept[j].attempts = job[j].attempts
         /\ \/ Swept[j] = job[j]
            \/ /\ job[j].status = "processing"
               /\ Swept[j].status = "delivery_unknown"
               /\ Swept[j].locked_by = NoWorker
               /\ Swept[j].lease_token = 0
<1>1. job[j] \in JobRow /\ "delivery_unknown" \in JobStatus
  BY DEF TypeOK, JobStatus
<1>2. CASE job[j].status = "processing" /\ job[j].expired
  <2>1. Swept[j] = Released(job[j], "delivery_unknown")
    BY <1>2 DEF Swept
  <2> QED
    BY <1>1, <1>2, <2>1, ReleasedRow
<1>3. CASE ~(job[j].status = "processing" /\ job[j].expired)
  <2>1. Swept[j] = job[j]
    BY <1>3 DEF Swept
  <2> QED
    BY <1>1, <2>1
<1> QED
  BY <1>2, <1>3

-----------------------------------------------------------------------------
(* One lemma per action *)

\* A new job is waiting, with nothing charged to it and its message queued.
LEMMA EnqueueInv ==
  ASSUME IInv, NEW j \in Jobs, Enqueue(j)
  PROVE  IInv'
<1> USE DEF IInv, Enqueue
<1>0. /\ job[j] \in JobRow
      /\ job'[j] = [job[j] EXCEPT !.status = "pending", !.due = TRUE]
      /\ \A k \in Jobs \ {j} : job'[k] = job[k]
  BY DEF TypeOK
<1>1. TypeOK'
  <2>1. [job[j] EXCEPT !.status = "pending", !.due = TRUE] \in JobRow
    BY <1>0 DEF JobRow, JobStatus
  <2>2. job' \in [Jobs -> JobRow]
    BY <2>1 DEF TypeOK
  <2> QED
    BY <2>2 DEF TypeOK
<1>2. LeaseCharged'
  BY <1>0 DEF TypeOK, JobRow, LeaseCharged, Waiting
<1>3. HandIsNewest'
  BY <1>0 DEF TypeOK, JobRow, HandIsNewest
<1>4. AcceptedUnderLease' /\ ExclusiveDelivery'
  BY DEF AcceptedUnderLease, ExclusiveDelivery
<1>5. SentIsTrue'
  BY <1>0 DEF TypeOK, JobRow, SentIsTrue
<1> QED
  BY <1>1, <1>2, <1>3, <1>4, <1>5

\* The sweep as such: no worker loses its hand to it.
LEMMA ClaimNothingInv ==
  ASSUME IInv, NEW w \in Workers, ClaimNothing(w)
  PROVE  IInv'
<1> USE DEF IInv, ClaimNothing
<1>0. ASSUME NEW k \in Jobs
      PROVE  /\ job'[k] = Swept[k]
             /\ job'[k] \in JobRow
             /\ job'[k].attempts = job[k].attempts
             /\ \/ job'[k] = job[k]
                \/ /\ job[k].status = "processing"
                   /\ job'[k].status = "delivery_unknown"
                   /\ job'[k].locked_by = NoWorker
                   /\ job'[k].lease_token = 0
  BY SweptRow
<1>1. TypeOK'
  BY <1>0 DEF TypeOK, Swept
<1>2. LeaseCharged'
  BY <1>0 DEF LeaseCharged, Waiting
<1>3. HandIsNewest'
  BY <1>0 DEF HandIsNewest
<1>4. AcceptedUnderLease' /\ ExclusiveDelivery'
  BY DEF AcceptedUnderLease, ExclusiveDelivery
<1>5. SentIsTrue'
  BY <1>0 DEF SentIsTrue
<1> QED
  BY <1>1, <1>2, <1>3, <1>4, <1>5

\* A claim takes the job's newest token; the sweep beside it touches other rows only.
LEMMA ClaimJobInv ==
  ASSUME IInv, NEW w \in Workers, NEW j \in Jobs, ClaimJob(w, j)
  PROVE  IInv'
<1> USE DEF IInv
<1> DEFINE leased == Leased(Swept[j], w, claims[j] + 1)
           taken  == [pc |-> "send", job |-> j, attempts |-> job[j].attempts,
                      lease_token |-> claims[j] + 1, terminal |-> FALSE]
<1>a. /\ job[j].status \in {"pending", "failed"}
      /\ job[j] \in JobRow
      /\ claims[j] \in Nat
  BY DEF ClaimJob, Claimable, TypeOK
<1>b. Swept[j] = job[j] /\ DOMAIN Swept = Jobs
  BY <1>a, SweptRow DEF Swept
<1>c. /\ leased \in JobRow
      /\ leased.status = "processing"
      /\ leased.locked_by = w
      /\ leased.lease_token = claims[j] + 1
      /\ leased.attempts = job[j].attempts
  BY <1>a, <1>b, LeasedRow
<1>d. job' = [Swept EXCEPT ![j] = leased]
  BY DEF ClaimJob
<1> HIDE DEF leased
<1>0. /\ job'[j] = leased
      /\ \A k \in Jobs \ {j} :
           /\ job'[k] \in JobRow
           /\ job'[k].attempts = job[k].attempts
           /\ \/ job'[k] = job[k]
              \/ /\ job[k].status = "processing"
                 /\ job'[k].status = "delivery_unknown"
                 /\ job'[k].locked_by = NoWorker
                 /\ job'[k].lease_token = 0
  BY <1>b, <1>d, SweptRow
<1>e. /\ claims' = [claims EXCEPT ![j] = @ + 1]
      /\ UNCHANGED <<message, accepted, exhausted>>
      /\ work[w].pc = "idle"
      /\ work' = [work EXCEPT ![w] = taken]
  BY DEF ClaimJob
<1>f. /\ work'[w] = taken
      /\ taken \in Work
      /\ \A v \in Workers \ {w} : work'[v] = work[v]
      /\ claims'[j] = claims[j] + 1
      /\ \A k \in Jobs \ {j} : claims'[k] = claims[k]
  BY <1>a, <1>e DEF TypeOK, Work, JobRow
<1>g. \A v \in Workers : work[v].job # j
  BY <1>a DEF HandIsNewest, Idle
<1>1. TypeOK'
  <2>1. job' \in [Jobs -> JobRow]
    BY <1>0, <1>b, <1>c, <1>d
  <2>2. claims' \in [Jobs -> Nat] /\ work' \in [Workers -> Work]
    BY <1>e, <1>f DEF TypeOK
  <2> QED
    BY <1>e, <2>1, <2>2 DEF TypeOK
<1>2. LeaseCharged'
  BY <1>0, <1>a, <1>c, <1>f DEF LeaseCharged, Waiting, JobRow
<1>3. HandIsNewest'
  BY <1>0, <1>c, <1>f, <1>g DEF HandIsNewest
<1>4. AcceptedUnderLease'
  BY <1>a, <1>e, <1>f, <1>g DEF AcceptedUnderLease, HandIsNewest, TypeOK
<1>5. ExclusiveDelivery'
  BY <1>f, <1>g DEF ExclusiveDelivery
<1>6. SentIsTrue'
  BY <1>0, <1>a, <1>c, <1>e DEF SentIsTrue
<1> QED
  BY <1>1, <1>2, <1>3, <1>4, <1>5, <1>6

\* A worker with a job in hand goes on to mark it; no row changes.
LEMMA MoveOnInv ==
  ASSUME IInv, NEW w \in Workers, NEW pc \in {"deliver", "fail"}, NEW terminal \in BOOLEAN,
         work[w].pc = "send",
         Goto(w, pc, terminal),
         \/ accepted' = [accepted EXCEPT ![work[w].job] = @ + 1]
         \/ pc = "fail" /\ accepted' = accepted,
         UNCHANGED <<job, message, claims, exhausted>>
  PROVE  IInv'
<1> USE DEF IInv
<1> DEFINE j == work[w].job
<1>a. /\ j \in Jobs
      /\ work[w] \in Work
      /\ accepted[j] \in Nat
      /\ claims[j] \in Nat
      /\ accepted[j] < claims[j]
  BY DEF HandIsNewest, TypeOK, AcceptedUnderLease
<1>b. /\ work'[w] = [work[w] EXCEPT !.pc = pc, !.terminal = terminal]
      /\ \A v \in Workers \ {w} : work'[v] = work[v]
  BY DEF Goto, TypeOK
<1>c. /\ work'[w] \in Work
      /\ work'[w].pc = pc
      /\ work'[w].job = j
      /\ work'[w].attempts = work[w].attempts
      /\ work'[w].lease_token = work[w].lease_token
  BY <1>a, <1>b DEF Work
<1>d. \A v \in Workers \ {w} : work[v].job # j
  BY DEF ExclusiveDelivery
<1>e. /\ \A k \in Jobs \ {j} : accepted'[k] = accepted[k]
      /\ accepted'[j] \in Nat
      /\ accepted[j] <= accepted'[j]
      /\ accepted'[j] <= claims[j]
      /\ pc = "deliver" => accepted'[j] > 0
      /\ accepted' \in [Jobs -> Nat]
  BY <1>a DEF TypeOK
<1>1. TypeOK'
  <2>1. work' \in [Workers -> Work]
    BY <1>b, <1>c DEF TypeOK, Goto
  <2> QED
    BY <1>e, <2>1 DEF TypeOK
<1>2. LeaseCharged'
  BY DEF LeaseCharged, Waiting
<1>3. HandIsNewest'
  <2> SUFFICES ASSUME NEW v \in Workers
               PROVE  HandIsNewest!(v)'
    BY DEF HandIsNewest
  <2>1. CASE v = w
    BY <1>a, <1>c, <2>1 DEF HandIsNewest
  <2>2. CASE v # w
    BY <1>b, <2>2 DEF HandIsNewest
  <2> QED
    BY <2>1, <2>2
<1>4. AcceptedUnderLease'
  <2>1. \A k \in Jobs : accepted'[k] <= claims'[k]
    BY <1>e DEF AcceptedUnderLease
  <2>2. ASSUME NEW v \in Workers
        PROVE  /\ work'[v].pc = "send" => accepted'[work'[v].job] < claims'[work'[v].job]
               /\ work'[v].pc = "deliver" => accepted'[work'[v].job] > 0
    <3>1. CASE v = w
      BY <1>a, <1>c, <1>e, <3>1
    <3>2. CASE v # w
      BY <1>b, <1>d, <1>e, <3>2 DEF AcceptedUnderLease, HandIsNewest
    <3> QED
      BY <3>1, <3>2
  <2> QED
    BY <2>1, <2>2 DEF AcceptedUnderLease
<1>5. ExclusiveDelivery'
  <2> SUFFICES ASSUME NEW u \in Workers, NEW v \in Workers, u # v, work'[u].pc # "idle"
               PROVE  work'[u].job # work'[v].job
    BY DEF ExclusiveDelivery
  <2>a. \A x \in Workers : work'[x].job = work[x].job
    BY <1>b, <1>c
  <2>b. \A x \in Workers : work'[x].pc # "idle" => work[x].pc # "idle"
    BY <1>b
  <2> QED
    BY <2>a, <2>b DEF ExclusiveDelivery
<1>6. SentIsTrue'
  <2>1. \A k \in Jobs : accepted[k] > 0 => accepted'[k] > 0
    BY <1>a, <1>e
  <2> QED
    BY <2>1 DEF SentIsTrue
<1> QED
  BY <1>1, <1>2, <1>3, <1>4, <1>5, <1>6

\* A worker drops its job; no row changes.
LEMMA LetGoInv ==
  ASSUME IInv, NEW w \in Workers,
         work' = [work EXCEPT ![w] = Idle],
         exhausted' \subseteq Jobs,
         UNCHANGED <<job, message, claims, accepted>>
  PROVE  IInv'
<1> USE DEF IInv
<1>a. /\ work'[w] = Idle
      /\ \A v \in Workers \ {w} : work'[v] = work[v]
      /\ Idle \in Work
      /\ Idle.pc = "idle" /\ Idle.job = NoJob
  BY DEF TypeOK, Work, Idle
<1>1. TypeOK'
  BY <1>a DEF TypeOK
<1>2. LeaseCharged'
  BY DEF LeaseCharged, Waiting
<1>3. HandIsNewest'
  BY <1>a DEF HandIsNewest
<1>4. AcceptedUnderLease'
  BY <1>a DEF AcceptedUnderLease
<1>5. ExclusiveDelivery'
  <2>1. \A v \in Workers : work[v].pc # "idle" => work[v].job # NoJob
    BY DEF HandIsNewest
  <2> QED
    BY <1>a, <2>1 DEF ExclusiveDelivery
<1>6. SentIsTrue'
  BY DEF SentIsTrue
<1> QED
  BY <1>1, <1>2, <1>3, <1>4, <1>5, <1>6

\* What markDelivered does to the table: nothing, or it settles the worker's own job,
\* and its message with it.
LEMMA RecordSentRows ==
  ASSUME IInv, NEW w \in Workers, work[w].pc = "deliver", RecordSent(w)
  PROVE  /\ job' \in [Jobs -> JobRow]
         /\ message' \in [Jobs -> {"absent", "queued", "sent", "failed"}]
         /\ \A k \in Jobs :
              \/ job'[k] = job[k] /\ message'[k] = message[k]
              \/ /\ k = work[w].job
                 /\ job[k].status = "processing"
                 /\ job'[k].status = "sent"
                 /\ job'[k].attempts = job[k].attempts
                 /\ job'[k].locked_by = NoWorker
                 /\ job'[k].lease_token = 0
                 /\ message'[k] = "sent"
<1> USE DEF IInv
<1> DEFINE j == work[w].job
<1>a. j \in Jobs /\ job[j] \in JobRow
  BY DEF HandIsNewest, TypeOK
<1>1. CASE HoldsLease(w)
  <2>1. /\ job' = [job EXCEPT ![j] = Released(job[j], "sent")]
        /\ message' = [k \in Jobs |-> IF k = j THEN "sent" ELSE message[k]]
    BY <1>1 DEF RecordSent, LinkedMessage
  <2>2. job[j].status = "processing"
    BY <1>1 DEF HoldsLease
  <2>3. /\ Released(job[j], "sent") \in JobRow
        /\ Released(job[j], "sent").status = "sent"
        /\ Released(job[j], "sent").attempts = job[j].attempts
        /\ Released(job[j], "sent").locked_by = NoWorker
        /\ Released(job[j], "sent").lease_token = 0
    BY <1>a, ReleasedRow DEF JobStatus
  <2> QED
    BY <1>a, <2>1, <2>2, <2>3 DEF TypeOK
<1>2. CASE ~HoldsLease(w)
  <2>1. job' = job /\ message' = [k \in Jobs |-> message[k]]
    BY <1>2 DEF RecordSent, LinkedMessage
  <2> QED
    BY <2>1 DEF TypeOK
<1> QED
  BY <1>1, <1>2

\* A worker's mark, and what the worker does next, disturb nobody else.  The mark is
\* markDelivered's; markFailed's is MarkFailedRetryInv below.
LEMMA DeliverInv ==
  ASSUME IInv, NEW w \in Workers, work[w].pc = "deliver",
         RecordSent(w) \/ UNCHANGED <<job, message>>,
         \/ work' = [work EXCEPT ![w] = Idle]
         \/ Goto(w, "fail", FALSE),
         UNCHANGED <<claims, accepted, exhausted>>
  PROVE  IInv'
<1> USE DEF IInv
<1> DEFINE j == work[w].job
<1>a. /\ j \in Jobs
      /\ work[w] \in Work
      /\ accepted[j] > 0
  BY DEF HandIsNewest, TypeOK, AcceptedUnderLease
<1>b. /\ job' \in [Jobs -> JobRow]
      /\ message' \in [Jobs -> {"absent", "queued", "sent", "failed"}]
      /\ \A k \in Jobs :
           \/ job'[k] = job[k] /\ message'[k] = message[k]
           \/ /\ k = j
              /\ job[k].status = "processing"
              /\ job'[k].status = "sent"
              /\ job'[k].attempts = job[k].attempts
              /\ job'[k].locked_by = NoWorker
              /\ job'[k].lease_token = 0
              /\ message'[k] = "sent"
  <2>1. CASE RecordSent(w)
    BY <2>1, RecordSentRows
  <2>2. CASE UNCHANGED <<job, message>>
    BY <2>2 DEF TypeOK
  <2> QED
    BY <2>1, <2>2
<1>c. /\ work' \in [Workers -> Work]
      /\ \A v \in Workers \ {w} : work'[v] = work[v]
      /\ \/ work'[w] = Idle
         \/ /\ work'[w].pc = "fail"
            /\ work'[w].job = j
            /\ work'[w].attempts = work[w].attempts
            /\ work'[w].lease_token = work[w].lease_token
  <2>1. CASE work' = [work EXCEPT ![w] = Idle]
    BY <2>1 DEF TypeOK, Work, Idle
  <2>2. CASE Goto(w, "fail", FALSE)
    BY <1>a, <2>2 DEF Goto, TypeOK, Work
  <2> QED
    BY <2>1, <2>2
<1>d. \A v \in Workers \ {w} : work[v].job # j
  BY DEF ExclusiveDelivery
<1>1. TypeOK'
  BY <1>b, <1>c DEF TypeOK
<1>2. LeaseCharged'
  BY <1>b DEF LeaseCharged, Waiting
<1>3. HandIsNewest'
  <2> SUFFICES ASSUME NEW v \in Workers
               PROVE  HandIsNewest!(v)'
    BY DEF HandIsNewest
  <2>1. CASE v = w
    BY <1>a, <1>b, <1>c, <2>1 DEF HandIsNewest, Idle
  <2>2. CASE v # w
    BY <1>b, <1>c, <1>d, <2>2 DEF HandIsNewest
  <2> QED
    BY <2>1, <2>2
<1>4. AcceptedUnderLease'
  BY <1>c DEF AcceptedUnderLease, Idle
<1>5. ExclusiveDelivery'
  <2>1. \A v \in Workers : work[v].pc # "idle" => work[v].job # NoJob
    BY DEF HandIsNewest
  <2> QED
    BY <1>c, <2>1 DEF ExclusiveDelivery, Idle
<1>6. SentIsTrue'
  BY <1>a, <1>b DEF SentIsTrue
<1> QED
  BY <1>1, <1>2, <1>3, <1>4, <1>5, <1>6

\* Charging an attempt and giving the lease up balance each other.
LEMMA MarkFailedRetryInv ==
  ASSUME IInv, NEW w \in Workers, MarkFailedRetry(w)
  PROVE  IInv'
<1> USE DEF IInv
<1> DEFINE j == work[w].job
           retried == [Released(job[j], "failed") EXCEPT !.attempts = AttemptsCharged(w),
                                                         !.due = FALSE]
<1>a. /\ j \in Jobs
      /\ job[j] \in JobRow
      /\ work[w] \in Work
      /\ \A v \in Workers \ {w} : work[v].job # j
  BY DEF HandIsNewest, TypeOK, ExclusiveDelivery, MarkFailedRetry
<1>1. CASE ~HoldsLease(w)
  BY <1>1, LetGoInv DEF MarkFailedRetry, TypeOK
<1>2. CASE HoldsLease(w)
  <2>1. /\ job[j].status = "processing"
        /\ job[j].attempts = work[w].attempts
        /\ work[w].attempts \in 0..(MaxAttempts - 1)
        /\ work[w].attempts + 1 < MaxAttempts
        /\ AttemptsCharged(w) = work[w].attempts + 1
    BY <1>2, <1>a DEF HoldsLease, HandIsNewest, MarkFailedRetry, Dead, AttemptsCharged, Work
  <2>2. /\ retried \in JobRow
        /\ retried.status = "failed"
        /\ retried.attempts = job[j].attempts + 1
        /\ retried.locked_by = NoWorker
        /\ retried.lease_token = 0
    <3>1. Released(job[j], "failed") \in JobRow
      BY <1>a, ReleasedRow DEF JobStatus
    <3>2. AttemptsCharged(w) \in 0..(MaxAttempts - 1)
      BY <2>1
    <3> QED
      BY <1>a, <2>1, <3>1, <3>2, ReleasedRow, ZenonT(30) DEF JobRow, JobStatus
  <2> HIDE DEF retried
  <2>3. /\ job' = [job EXCEPT ![j] = retried]
        /\ work' = [work EXCEPT ![w] = Idle]
        /\ UNCHANGED <<message, claims, accepted, exhausted>>
    BY <1>2 DEF MarkFailedRetry, retried
  <2>4. /\ job'[j] = retried
        /\ \A k \in Jobs \ {j} : job'[k] = job[k]
        /\ work'[w] = Idle
        /\ \A v \in Workers \ {w} : work'[v] = work[v]
        /\ Idle \in Work /\ Idle.pc = "idle" /\ Idle.job = NoJob
    BY <1>a, <2>3 DEF TypeOK, Work, Idle
  <2>5. TypeOK'
    BY <2>2, <2>3, <2>4 DEF TypeOK
  <2>6. LeaseCharged'
    BY <1>a, <2>1, <2>2, <2>3, <2>4 DEF LeaseCharged, Waiting, TypeOK, JobRow
  <2>7. HandIsNewest'
    BY <1>a, <2>3, <2>4 DEF HandIsNewest
  <2>8. AcceptedUnderLease'
    BY <2>3, <2>4 DEF AcceptedUnderLease
  <2>9. ExclusiveDelivery'
    <3>1. \A v \in Workers : work[v].pc # "idle" => work[v].job # NoJob
      BY DEF HandIsNewest
    <3> QED
      BY <2>4, <3>1 DEF ExclusiveDelivery
  <2>10. SentIsTrue'
    BY <2>1, <2>2, <2>3, <2>4 DEF SentIsTrue
  <2> QED
    BY <2>5, <2>6, <2>7, <2>8, <2>9, <2>10
<1> QED
  BY <1>1, <1>2

\* The clocks touch due and expired, which no invariant depends on.
LEMMA TimeInv ==
  ASSUME IInv, NEW j \in Jobs, BackoffElapses(j) \/ LeaseExpires(j)
  PROVE  IInv'
<1> USE DEF IInv
<1>a. /\ job' \in [Jobs -> JobRow]
      /\ \A k \in Jobs : /\ job'[k].status = job[k].status
                         /\ job'[k].attempts = job[k].attempts
                         /\ job'[k].locked_by = job[k].locked_by
                         /\ job'[k].lease_token = job[k].lease_token
  <2>1. job[j] \in JobRow
    BY DEF TypeOK
  <2>2. CASE BackoffElapses(j)
    <3>1. job' = [job EXCEPT ![j] = [job[j] EXCEPT !.due = TRUE]]
      BY <2>2 DEF BackoffElapses
    <3> QED
      BY <2>1, <3>1 DEF TypeOK, JobRow
  <2>3. CASE LeaseExpires(j)
    <3>1. job' = [job EXCEPT ![j] = [job[j] EXCEPT !.expired = TRUE]]
      BY <2>3 DEF LeaseExpires
    <3> QED
      BY <2>1, <3>1 DEF TypeOK, JobRow
  <2> QED
    BY <2>2, <2>3
<1>b. UNCHANGED <<message, work, claims, accepted, exhausted>>
  BY DEF BackoffElapses, LeaseExpires
<1>1. TypeOK'
  BY <1>a, <1>b DEF TypeOK
<1>2. LeaseCharged'
  BY <1>a, <1>b DEF LeaseCharged, Waiting
<1>3. HandIsNewest'
  BY <1>a, <1>b DEF HandIsNewest
<1>4. AcceptedUnderLease' /\ ExclusiveDelivery'
  BY <1>b DEF AcceptedUnderLease, ExclusiveDelivery
<1>5. SentIsTrue'
  BY <1>a, <1>b DEF SentIsTrue
<1> QED
  BY <1>1, <1>2, <1>3, <1>4, <1>5

\* IInv says nothing but of the variables.
LEMMA StutterInv == IInv /\ UNCHANGED vars => IInv'
  BY DEF vars, IInv, TypeOK, LeaseCharged, Waiting, HandIsNewest, AcceptedUnderLease,
         ExclusiveDelivery, SentIsTrue

-----------------------------------------------------------------------------
\* IInv is inductive.
LEMMA NextInv == IInv /\ [Next]_vars => IInv'
<1> SUFFICES ASSUME IInv, [Next]_vars PROVE IInv'
  OBVIOUS
<1>1. ASSUME NEW j \in Jobs, Enqueue(j) PROVE IInv'
  BY <1>1, EnqueueInv
<1>2. ASSUME NEW j \in Jobs, BackoffElapses(j) \/ LeaseExpires(j) PROVE IInv'
  BY <1>2, TimeInv
<1>3. ASSUME NEW w \in Workers, Poll(w) PROVE IInv'
  BY <1>3, ClaimNothingInv, ClaimJobInv DEF Poll
<1>4. ASSUME NEW w \in Workers, Attempt(w) PROVE IInv'
  <2>1. CASE Unsendable(w) \/ AcceptsUnheard(w)
    BY <2>1, MoveOnInv DEF Unsendable, AcceptsUnheard
  <2>2. CASE Accepts(w)
    BY <2>2, MoveOnInv DEF Accepts
  <2>3. CASE Rejects(w)
    BY <2>3, MoveOnInv DEF Rejects
  <2> QED
    BY <1>4, <2>1, <2>2, <2>3 DEF Attempt
<1>5. ASSUME NEW w \in Workers, Mark(w) PROVE IInv'
  <2>1. CASE MarkDelivered(w) \/ MarkDeliveredThrows(w)
    BY <2>1, DeliverInv DEF MarkDelivered, MarkDeliveredThrows
  <2>2. CASE MarkFailedRetry(w)
    BY <2>2, MarkFailedRetryInv
  <2>3. CASE MarkFailedDead(w)
    <3>1. exhausted' \subseteq Jobs
      BY <2>3 DEF MarkFailedDead, IInv, TypeOK, HandIsNewest
    <3> QED
      BY <2>3, <3>1, LetGoInv DEF MarkFailedDead
  <2> QED
    BY <1>5, <2>1, <2>2, <2>3 DEF Mark
<1>6. ASSUME NEW w \in Workers, Crash(w) PROVE IInv'
  BY <1>6, LetGoInv DEF Crash, IInv, TypeOK
<1>7. CASE UNCHANGED vars
  BY <1>7, StutterInv
<1> QED
  BY <1>1, <1>2, <1>3, <1>4, <1>5, <1>6, <1>7 DEF Next

\* IInv holds in every reachable state of the outbox.
THEOREM Invariance == Spec => []IInv
  BY InitInv, NextInv, PTL DEF Spec

\* Every reachable state is well typed: in particular no job is ever charged MaxAttempts
\* attempts while it could still be claimed.
THEOREM TypeCorrect == Spec => []TypeOK
<1>1. IInv => TypeOK
  BY DEF IInv
<1> QED
  BY <1>1, Invariance, PTL

\* No two workers are ever at work on the same job, however leases expire.
THEOREM Exclusion == Spec => []ExclusiveDelivery
<1>1. IInv => ExclusiveDelivery
  BY DEF IInv
<1> QED
  BY <1>1, Invariance, PTL

\* An agent is shown 'sent' exactly for the jobs settled as sent, all of them accepted.
THEOREM Honesty == Spec => []SentIsTrue
<1>1. IInv => SentIsTrue
  BY DEF IInv
<1> QED
  BY <1>1, Invariance, PTL

\* The provider accepts a message at most once per charged attempt, and once more.
THEOREM Budget == Spec => []RetryBudget
<1>1. ASSUME IInv PROVE RetryBudget
  <2> SUFFICES ASSUME NEW j \in Jobs
               PROVE  accepted[j] <= job[j].attempts + (IF Waiting(j) THEN 0 ELSE 1)
    BY DEF RetryBudget, Waiting
  <2>1. /\ claims[j] = job[j].attempts + (IF Waiting(j) THEN 0 ELSE 1)
        /\ accepted[j] <= claims[j]
    BY <1>1 DEF IInv, LeaseCharged, AcceptedUnderLease
  <2> QED
    BY <2>1
<1> QED
  BY <1>1, Invariance, PTL

-----------------------------------------------------------------------------
(* The outbox implements the abstract queue *)

\* What a step may do to one row and its lease count: the five moves of a job.
Moves(k) ==
  \/ /\ job'[k].status = job[k].status
     /\ job'[k].attempts = job[k].attempts
     /\ claims'[k] = claims[k]
  \/ /\ job[k].status = "absent" /\ job'[k].status = "pending"
     /\ job'[k].attempts = job[k].attempts
     /\ claims'[k] = claims[k]
  \/ /\ job[k].status \in {"pending", "failed"} /\ job'[k].status = "processing"
     /\ job[k].attempts < MaxAttempts
     /\ job'[k].attempts = job[k].attempts
     /\ claims'[k] = claims[k] + 1
  \/ /\ job[k].status = "processing" /\ job'[k].status = "failed"
     /\ job[k].attempts + 1 < MaxAttempts
     /\ job'[k].attempts = job[k].attempts + 1
     /\ claims'[k] = claims[k]
  \/ /\ job[k].status = "processing" /\ job'[k].status \in {"sent", "delivery_unknown"}
     /\ job'[k].attempts = job[k].attempts
     /\ claims'[k] = claims[k]

\* Each step moves a row as the abstract queue may, or leaves its item as it is.
LEMMA NextMoves ==
  ASSUME IInv, [Next]_vars, NEW k \in Jobs
  PROVE  Moves(k)
<1>a. job[k] \in JobRow /\ claims[k] \in Nat
  BY DEF IInv, TypeOK
<1>1. ASSUME NEW j \in Jobs, Enqueue(j) PROVE Moves(k)
  <2>1. CASE k = j
    <3>1. job'[k] = [job[k] EXCEPT !.status = "pending", !.due = TRUE]
      BY <1>1, <2>1 DEF Enqueue, IInv, TypeOK
    <3>2. job'[k].status = "pending" /\ job'[k].attempts = job[k].attempts
      BY <1>a, <3>1 DEF JobRow
    <3> QED
      BY <1>1, <2>1, <3>2 DEF Moves, Enqueue
  <2>2. CASE k # j
    BY <1>1, <2>2 DEF Moves, Enqueue, IInv, TypeOK
  <2> QED
    BY <2>1, <2>2
<1>2. ASSUME NEW j \in Jobs, BackoffElapses(j) \/ LeaseExpires(j) PROVE Moves(k)
  <2>1. \/ job'[k] = job[k]
        \/ job'[k] = [job[k] EXCEPT !.due = TRUE]
        \/ job'[k] = [job[k] EXCEPT !.expired = TRUE]
    BY <1>2 DEF BackoffElapses, LeaseExpires, IInv, TypeOK
  <2>2. job'[k].status = job[k].status /\ job'[k].attempts = job[k].attempts
    BY <1>a, <2>1 DEF JobRow
  <2> QED
    BY <1>2, <2>2 DEF Moves, BackoffElapses, LeaseExpires
<1>3. ASSUME NEW w \in Workers, ClaimNothing(w) PROVE Moves(k)
  <2>1. job'[k] = Swept[k] /\ claims'[k] = claims[k]
    BY <1>3 DEF ClaimNothing
  <2> QED
    BY <2>1, SweptRow DEF Moves, IInv
<1>4. ASSUME NEW w \in Workers, NEW j \in Jobs, ClaimJob(w, j) PROVE Moves(k)
  <2>1. DOMAIN Swept = Jobs
    BY DEF Swept
  <2>2. CASE k = j
    <3>1. /\ job[k].status \in {"pending", "failed"}
          /\ job[k].attempts < MaxAttempts
          /\ claims'[k] = claims[k] + 1
      BY <1>4, <2>2 DEF ClaimJob, Claimable, IInv, TypeOK
    <3>2. Swept[k] = job[k]
      BY <3>1, SweptRow DEF IInv
    <3>3. job'[k] = Leased(job[k], w, claims[k] + 1)
      BY <1>4, <2>1, <2>2, <3>2 DEF ClaimJob
    <3>4. job'[k].status = "processing" /\ job'[k].attempts = job[k].attempts
      BY <1>a, <3>3, LeasedRow
    <3> QED
      BY <3>1, <3>4 DEF Moves
  <2>3. CASE k # j
    <3>1. job'[k] = Swept[k] /\ claims'[k] = claims[k]
      BY <1>4, <2>1, <2>3 DEF ClaimJob, IInv, TypeOK
    <3> QED
      BY <3>1, SweptRow DEF Moves, IInv
  <2> QED
    BY <2>2, <2>3
<1>5. ASSUME NEW w \in Workers, Attempt(w) \/ MarkFailedDead(w) \/ Crash(w) PROVE Moves(k)
  <2>1. UNCHANGED <<job, claims>>
    BY <1>5 DEF Attempt, Unsendable, Accepts, AcceptsUnheard, Rejects, MarkFailedDead, Crash
  <2> QED
    BY <2>1 DEF Moves
<1>6. ASSUME NEW w \in Workers, MarkDelivered(w) \/ MarkDeliveredThrows(w) PROVE Moves(k)
  <2>1. /\ work[w].pc = "deliver"
        /\ RecordSent(w) \/ job' = job
        /\ claims' = claims
    BY <1>6 DEF MarkDelivered, MarkDeliveredThrows
  <2> QED
    BY <2>1, RecordSentRows DEF Moves
<1>7. ASSUME NEW w \in Workers, MarkFailedRetry(w) PROVE Moves(k)
  <2>1. CASE HoldsLease(w) /\ k = work[w].job
    <3>1. /\ job[k].status = "processing"
          /\ work[w].attempts = job[k].attempts
          /\ work[w] \in Work
          /\ claims'[k] = claims[k]
      BY <1>7, <2>1 DEF MarkFailedRetry, HoldsLease, HandIsNewest, IInv, TypeOK
    <3>2. AttemptsCharged(w) = job[k].attempts + 1 /\ job[k].attempts + 1 < MaxAttempts
      BY <1>7, <3>1 DEF MarkFailedRetry, Dead, AttemptsCharged, Work
    <3>3. job'[k] = [Released(job[k], "failed") EXCEPT !.attempts = AttemptsCharged(w),
                                                      !.due = FALSE]
      BY <1>7, <2>1 DEF MarkFailedRetry, IInv, TypeOK
    <3>4. Released(job[k], "failed") \in JobRow /\ Released(job[k], "failed").status = "failed"
      BY <1>a, ReleasedRow DEF JobStatus
    <3>5. job'[k].status = "failed" /\ job'[k].attempts = AttemptsCharged(w)
      BY <3>3, <3>4 DEF JobRow
    <3> QED
      BY <3>1, <3>2, <3>5 DEF Moves
  <2>2. CASE ~(HoldsLease(w) /\ k = work[w].job)
    <3>1. job'[k] = job[k] /\ claims'[k] = claims[k]
      BY <1>7, <2>2 DEF MarkFailedRetry, IInv, TypeOK
    <3> QED
      BY <3>1 DEF Moves
  <2> QED
    BY <2>1, <2>2
<1>8. CASE UNCHANGED vars
  BY <1>8 DEF vars, Moves
<1> QED
  BY <1>1, <1>2, <1>3, <1>4, <1>5, <1>6, <1>7, <1>8 DEF Next, Poll, Mark

\* A settled job stays settled, whatever late answers and stale workers do.
THEOREM FinalForever ==
  Spec => [][\A j \in Jobs : job[j].status \in Final => job'[j].status = job[j].status]_vars
<1>1. IInv /\ [Next]_vars =>
        [\A j \in Jobs : job[j].status \in Final => job'[j].status = job[j].status]_vars
  BY NextMoves DEF Moves, Final
<1> QED
  BY <1>1, Invariance, PTL DEF Spec

\* Such a move of the row is a move of the abstract item.
LEMMA MoveRefines ==
  ASSUME IInv, IInv', NEW k \in Jobs, Moves(k)
  PROVE  \/ AbstractItem(k)' = AbstractItem(k)
         \/ Queue!Move(AbstractItem(k), AbstractItem(k)')
<1> DEFINE P(status) == CASE status = "absent" -> "absent"
                          [] status \in {"pending", "failed"} -> "waiting"
                          [] status = "processing" -> "held"
                          [] OTHER -> "settled"
           r == AbstractItem(k)
           s == [phase |-> P(job'[k].status), attempts |-> job'[k].attempts, tickets |-> claims'[k]]
<1>a. /\ r = [phase |-> P(job[k].status), attempts |-> job[k].attempts, tickets |-> claims[k]]
      /\ AbstractItem(k)' = s
  BY DEF AbstractItem
<1>b. /\ job[k].attempts \in Nat /\ claims[k] \in Nat
      /\ P("absent") = "absent"
      /\ P("pending") = "waiting" /\ P("failed") = "waiting"
      /\ P("processing") = "held"
      /\ P("sent") = "settled" /\ P("delivery_unknown") = "settled"
  BY DEF IInv, TypeOK, JobRow
<1> HIDE DEF P
<1>1. CASE UNCHANGED <<job[k].status, job[k].attempts, claims[k]>>
  BY <1>1, <1>a
<1>2. CASE /\ job[k].status = "absent" /\ job'[k].status = "pending"
           /\ job'[k].attempts = job[k].attempts
           /\ claims'[k] = claims[k]
  BY <1>2, <1>a, <1>b DEF Queue!Move, Queue!Submit
<1>3. CASE /\ job[k].status \in {"pending", "failed"} /\ job'[k].status = "processing"
           /\ job[k].attempts < MaxAttempts
           /\ job'[k].attempts = job[k].attempts
           /\ claims'[k] = claims[k] + 1
  <2>1. /\ r.phase = "waiting" /\ r.attempts < MaxAttempts
        /\ s = [phase |-> "held", attempts |-> job[k].attempts, tickets |-> claims[k] + 1]
    BY <1>3, <1>a, <1>b
  <2> QED
    BY <2>1, <1>a DEF Queue!Move, Queue!Grant
<1>4. CASE /\ job[k].status = "processing" /\ job'[k].status = "failed"
           /\ job[k].attempts + 1 < MaxAttempts
           /\ job'[k].attempts = job[k].attempts + 1
           /\ claims'[k] = claims[k]
  <2>1. /\ r.phase = "held" /\ r.attempts + 1 < MaxAttempts
        /\ s = [phase |-> "waiting", attempts |-> job[k].attempts + 1, tickets |-> claims[k]]
    BY <1>4, <1>a, <1>b
  <2> QED
    BY <2>1, <1>a DEF Queue!Move, Queue!GiveBack
<1>5. CASE /\ job[k].status = "processing" /\ job'[k].status \in {"sent", "delivery_unknown"}
           /\ job'[k].attempts = job[k].attempts
           /\ claims'[k] = claims[k]
  BY <1>5, <1>a, <1>b DEF Queue!Move, Queue!Expire
<1> QED
  BY <1>1, <1>2, <1>3, <1>4, <1>5 DEF Moves

\* Every behaviour of the outbox is one of the abstract queue that never reissues.
THEOREM Refinement == Spec => ImplementsQueue
<1>1. Init => Queue!Init
  <2> SUFFICES ASSUME Init PROVE Queue!Init
    OBVIOUS
  <2>1. ASSUME NEW j \in Jobs
        PROVE  AbstractItem(j) = [phase |-> "absent", attempts |-> 0, tickets |-> 0]
    <3>1. job[j] = NoRow /\ claims[j] = 0
      BY DEF Init
    <3> QED
      BY <3>1 DEF AbstractItem, NoRow
  <2> QED
    BY <2>1 DEF Queue!Init
<1>2. IInv /\ IInv' /\ [Next]_vars => [Queue!Next]_[j \in Jobs |-> AbstractItem(j)]
  <2> SUFFICES ASSUME IInv, IInv', [Next]_vars
               PROVE  Queue!Next
    OBVIOUS
  <2>1. ASSUME NEW k \in Jobs
        PROVE  \/ AbstractItem(k)' = AbstractItem(k)
               \/ Queue!Move(AbstractItem(k), AbstractItem(k)')
    BY NextMoves, MoveRefines
  <2> QED
    BY <2>1 DEF Queue!Next
<1> QED
  BY <1>1, <1>2, Invariance, PTL DEF Spec, ImplementsQueue, Queue!Spec
=============================================================================
