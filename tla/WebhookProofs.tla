--------------------------- MODULE WebhookProofs ---------------------------
(***************************************************************************)
(* Proofs about the webhook queue, for any events, batches, workers,       *)
(* attempts and any number of lost leases: IInv is inductive, and gives    *)
(* the safety properties of WebhookQueue.                                  *)
(***************************************************************************)
EXTENDS WebhookQueue, TLAPS

USE WebhookAssumption DEF WebhookAssumption

\* A row that is typed and leased exactly while it is processing.
RowOK(row) ==
  /\ row \in EventRow
  /\ row.status = "processing" <=> row.locked_by \in Workers
  /\ row.expired => row.status = "processing"

\* The initial state: no event is stored, nobody holds any.
LEMMA InitInv == Init => IInv
<1> SUFFICES ASSUME Init PROVE IInv
  OBVIOUS
<1>0. /\ \A e \in Events : /\ event[e].status = "absent"
                           /\ event[e].locked_by = NoWorker
                           /\ event[e].expired = FALSE
      /\ \A w \in Workers : task[w] = Idle
      /\ \A r \in Requests : request[r].pc = "open" /\ request[r].next = 1
  BY DEF Init
<1>1. TypeOK
  BY <1>0 DEF Init, TypeOK, EventRow, EventStatus, Request, Task, Idle
<1>2. LeaseIsNewest /\ BatchIsStored
  BY <1>0 DEF LeaseIsNewest, BatchIsStored
<1>3. HandIsCurrent /\ UniqueLease
  BY <1>0 DEF HandIsCurrent, UniqueLease, Idle
<1> QED
  BY <1>1, <1>2, <1>3 DEF IInv

-----------------------------------------------------------------------------
(* One lemma for each way a step changes the state *)

\* receive() stores one event of a batch, or finds it stored.
LEMMA InsertInv ==
  ASSUME IInv, NEW r \in Requests, InsertNext(r)
  PROVE  IInv'
<1> USE DEF IInv
<1> DEFINE i == request[r].next
           e == BatchOf[r][i]
<1>a. /\ i \in Nat \ {0} /\ i <= Len(BatchOf[r]) /\ i \in 1..Len(BatchOf[r])
      /\ e \in Events
      /\ request[r] \in Request
      /\ RowOK(event[e])
  BY DEF InsertNext, TypeOK, Request, RowOK
<1>b. /\ request'[r] \in Request
      /\ request'[r].pc = "open"
      /\ request'[r].next = i + 1
      /\ \A q \in Requests \ {r} : request'[q] = request[q]
      /\ request' \in [Requests -> Request]
  <2> DEFINE q == [pc |-> "open", next |-> i + 1,
                   fresh |-> request[r].fresh \/ event[e].status = "absent"]
  <2>1. request' = [request EXCEPT ![r] = q]
    BY DEF InsertNext
  <2>2. (request[r].fresh \/ event[e].status = "absent") \in BOOLEAN
    OBVIOUS
  <2>3. q \in Request
    BY <1>a, <2>2 DEF Request
  <2>4. q.pc = "open" /\ q.next = i + 1
    OBVIOUS
  <2> HIDE DEF q
  <2> QED
    BY <2>1, <2>3, <2>4 DEF TypeOK
<1>c. /\ event' \in [Events -> EventRow]
      /\ RowOK(event'[e])
      /\ event'[e].status # "absent"
      /\ event'[e].status = "processing" <=> event[e].status = "processing"
      /\ event'[e].status = "processing" => event'[e] = event[e]
      /\ \A f \in Events \ {e} : event'[f] = event[f]
  <2>1. CASE event[e].status = "absent"
    <3>1. event' = [event EXCEPT ![e] = [@ EXCEPT !.status = "pending", !.due = TRUE]]
      BY <2>1 DEF InsertNext
    <3>2. event'[e] = [event[e] EXCEPT !.status = "pending", !.due = TRUE]
      BY <1>a, <3>1 DEF TypeOK
    <3>3. RowOK(event'[e]) /\ event'[e].status = "pending"
      BY <1>a, <2>1, <3>2 DEF RowOK, EventRow, EventStatus
    <3> QED
      BY <1>a, <2>1, <3>1, <3>3 DEF TypeOK, RowOK
  <2>2. CASE event[e].status # "absent"
    BY <1>a, <2>2 DEF InsertNext, TypeOK
  <2> QED
    BY <2>1, <2>2
<1>d. UNCHANGED <<task, grants, expiries>>
  BY DEF InsertNext
<1>1. TypeOK'
  <2>1. \A f \in Events : RowOK(event'[f])
    BY <1>c DEF TypeOK, RowOK
  <2> QED
    BY <1>b, <1>c, <1>d, <2>1 DEF TypeOK, RowOK
<1>2. LeaseIsNewest'
  BY <1>a, <1>c, <1>d DEF LeaseIsNewest
<1>3. HandIsCurrent'
  <2> SUFFICES ASSUME NEW w \in Workers
               PROVE  HandIsCurrent!(w)'
    BY DEF HandIsCurrent
  <2>1. CASE task[w].pc = "idle"
    BY <1>d, <2>1 DEF HandIsCurrent
  <2>2. CASE task[w].pc # "idle"
    <3>1. task[w].event \in Events
      BY <2>2 DEF HandIsCurrent
    <3>2. HoldsLease(w)' => event'[task[w].event] = event[task[w].event]
      BY <1>c, <1>d, <3>1 DEF HoldsLease
    <3> QED
      BY <1>d, <2>2, <3>1, <3>2 DEF HandIsCurrent, HoldsLease
  <2> QED
    BY <2>1, <2>2
<1>4. BatchIsStored'
  <2> SUFFICES ASSUME NEW q \in Requests
               PROVE  BatchIsStored!(q)'
    BY DEF BatchIsStored
  <2>1. \A f \in Events : event[f].status # "absent" => event'[f].status # "absent"
    BY <1>c
  <2>2. CASE q = r
    <3>1. ASSUME NEW k \in 1..Len(BatchOf[r]), k < i + 1
          PROVE  event'[BatchOf[r][k]].status # "absent"
      <4>1. CASE k = i
        BY <1>c, <4>1
      <4>2. CASE k < i
        BY <2>1, <4>2 DEF BatchIsStored
      <4> QED
        BY <1>a, <3>1, <4>1, <4>2
    <3> QED
      BY <1>b, <2>2, <3>1
  <2>3. CASE q # r
    BY <1>b, <2>1, <2>3, SMTT(30) DEF BatchIsStored
  <2> QED
    BY <2>2, <2>3
<1>5. UniqueLease'
  BY <1>d DEF UniqueLease
<1> QED
  BY <1>1, <1>2, <1>3, <1>4, <1>5

\* A request ends, answered after the whole batch or lost; no row changes.
LEMMA EndRequestInv ==
  ASSUME IInv, NEW r \in Requests, Answer(r) \/ LoseRequest(r)
  PROVE  IInv'
<1> USE DEF IInv
<1>a. UNCHANGED <<event, task, grants, expiries>>
  BY DEF Answer, LoseRequest
<1>b. PICK pc \in {"accepted", "duplicate", "lost"} :
        /\ request' = [request EXCEPT ![r].pc = pc]
        /\ pc # "lost" => request[r].next > Len(BatchOf[r])
  BY DEF Answer, LoseRequest, Answered
<1>c. /\ request'[r] \in Request
      /\ request'[r].pc = pc
      /\ request'[r].next = request[r].next
      /\ \A q \in Requests \ {r} : request'[q] = request[q]
      /\ request' \in [Requests -> Request]
  <2>1. request[r] \in Request
    BY DEF TypeOK
  <2>2. request'[r] = [request[r] EXCEPT !.pc = pc]
    BY <1>b DEF TypeOK
  <2>3. request'[r] \in Request /\ request'[r].pc = pc /\ request'[r].next = request[r].next
    BY <2>1, <2>2 DEF Request
  <2> QED
    BY <1>b, <2>3 DEF TypeOK
<1>1. TypeOK' /\ LeaseIsNewest' /\ UniqueLease'
  BY <1>a, <1>c DEF TypeOK, LeaseIsNewest, UniqueLease
<1>2. HandIsCurrent'
  BY <1>a DEF HandIsCurrent, HoldsLease
<1>3. BatchIsStored'
  BY <1>a, <1>b, <1>c DEF BatchIsStored
<1> QED
  BY <1>1, <1>2, <1>3

\* A claim gives the event a token newer than any other.
LEMMA ClaimInv ==
  ASSUME IInv, NEW w \in Workers, NEW e \in Events, ClaimWebhook(w, e)
  PROVE  IInv'
<1> USE DEF IInv
<1> DEFINE n == grants[e] + 1
           row == [event[e] EXCEPT !.status = "processing", !.locked_by = w,
                                   !.lease_token = n, !.expired = FALSE]
           hand == [pc |-> "process", event |-> e, attempts |-> event[e].attempts,
                    lease_token |-> n]
<1>a. /\ event[e] \in EventRow /\ grants[e] \in Nat /\ n \in Nat
      /\ event[e].attempts \in 0..(MaxAttempts - 1)
  BY DEF ClaimWebhook, Claimable, TypeOK, EventRow
<1>b. /\ event' = [event EXCEPT ![e] = row]
      /\ task' = [task EXCEPT ![w] = hand]
      /\ grants' = [grants EXCEPT ![e] = n]
      /\ UNCHANGED <<request, expiries>>
  BY DEF ClaimWebhook, FreshToken, TypeOK
<1>c. /\ RowOK(row)
      /\ row.status = "processing" /\ row.locked_by = w /\ row.lease_token = n
      /\ row.attempts = event[e].attempts
  BY <1>a DEF RowOK, EventRow, EventStatus
<1>d. hand \in Task
  BY <1>a DEF Task
<1>e. hand.pc = "process" /\ hand.event = e /\ hand.attempts = event[e].attempts
      /\ hand.lease_token = n
  OBVIOUS
<1> HIDE DEF row, hand
<1>f. /\ event'[e] = row /\ \A f \in Events \ {e} : event'[f] = event[f]
      /\ task'[w] = hand /\ \A v \in Workers \ {w} : task'[v] = task[v]
      /\ grants'[e] = n /\ \A f \in Events \ {e} : grants'[f] = grants[f]
  BY <1>a, <1>b DEF TypeOK
<1>1. TypeOK'
  <2>1. event' \in [Events -> EventRow] /\ task' \in [Workers -> Task]
        /\ grants' \in [Events -> Nat]
    BY <1>a, <1>b, <1>c, <1>d DEF TypeOK, RowOK
  <2>2. \A f \in Events : RowOK(event'[f])
    BY <1>c, <1>f DEF TypeOK, RowOK
  <2> QED
    BY <1>b, <2>1, <2>2 DEF TypeOK, RowOK
<1>2. LeaseIsNewest'
  BY <1>c, <1>f DEF LeaseIsNewest
<1>3. HandIsCurrent'
  <2> SUFFICES ASSUME NEW v \in Workers
               PROVE  HandIsCurrent!(v)'
    BY DEF HandIsCurrent
  <2>1. CASE v = w
    BY <1>c, <1>e, <1>f, <2>1 DEF HandIsCurrent
  <2>2. CASE v # w /\ task[v].pc = "idle"
    BY <1>f, <2>2 DEF HandIsCurrent
  <2>3. CASE v # w /\ task[v].pc # "idle"
    <3>1. task'[v] = task[v] /\ task[v].event \in Events
      BY <1>f, <2>3 DEF HandIsCurrent
    <3>2. task[v].event = e => ~HoldsLease(v)'
      BY <1>c, <1>f, <2>3, <3>1 DEF HoldsLease
    <3>3. task[v].event # e => event'[task[v].event] = event[task[v].event]
      BY <1>f, <3>1
    <3> QED
      BY <2>3, <3>1, <3>2, <3>3 DEF HandIsCurrent, HoldsLease
  <2> QED
    BY <2>1, <2>2, <2>3
<1>4. BatchIsStored'
  <2>1. \A f \in Events : event[f].status # "absent" => event'[f].status # "absent"
    BY <1>c, <1>f
  <2>2. \A r \in Requests : \A k \in 1..Len(BatchOf[r]) : BatchOf[r][k] \in Events
    OBVIOUS
  <2> QED
    BY <1>b, <2>1, <2>2 DEF BatchIsStored
<1>5. UniqueLease'
  <2> SUFFICES ASSUME NEW u \in Workers, NEW v \in Workers, task'[v].event \in Events
               PROVE  /\ task'[v].lease_token <= grants'[task'[v].event]
                      /\ u # v /\ task'[u].event = task'[v].event
                           => task'[u].lease_token # task'[v].lease_token
    BY DEF UniqueLease
  <2>1. \A x \in Workers : x # w /\ task[x].event = e =>
          task[x].lease_token \in Nat /\ task[x].lease_token < n
    BY <1>a DEF UniqueLease, TypeOK, Task
  <2>2. CASE v = w
    BY <1>a, <1>e, <1>f, <2>1, <2>2
  <2>3. CASE v # w
    <3>1. task'[v].lease_token <= grants'[task'[v].event]
      BY <1>a, <1>f, <2>1, <2>3 DEF UniqueLease
    <3>2. CASE u = w
      BY <1>e, <1>f, <2>1, <2>3, <3>1, <3>2
    <3>3. CASE u # w
      BY <1>f, <2>3, <3>1, <3>3 DEF UniqueLease
    <3> QED
      BY <3>1, <3>2, <3>3
  <2> QED
    BY <2>2, <2>3
<1> QED
  BY <1>1, <1>2, <1>3, <1>4, <1>5

\* A worker moves on or lets its event go; if it marks the row, it holds the lease, and
\* the row leaves processing for a status that keeps it stored.
LEMMA TaskInv ==
  ASSUME IInv, NEW w \in Workers, task[w].pc # "idle",
         NEW row, RowOK(row), row.status \in {"failed", "processed", "dead_letter"},
         \/ event' = event
         \/ HoldsLease(w) /\ event' = [event EXCEPT ![task[w].event] = row],
         NEW pc \in {"processed", "failed"},
         \/ task' = [task EXCEPT ![w] = Idle]
         \/ task' = [task EXCEPT ![w].pc = pc],
         UNCHANGED <<request, grants, expiries>>
  PROVE  IInv'
<1> USE DEF IInv
<1> DEFINE e == task[w].event
<1>a. e \in Events /\ task[w] \in Task
  BY DEF HandIsCurrent, TypeOK
<1>b. /\ task' \in [Workers -> Task]
      /\ \A v \in Workers \ {w} : task'[v] = task[v]
      /\ \/ task'[w] = Idle
         \/ /\ task'[w].pc = pc
            /\ task'[w].event = e
            /\ task'[w].attempts = task[w].attempts
            /\ task'[w].lease_token = task[w].lease_token
  <2>1. CASE task' = [task EXCEPT ![w] = Idle]
    <3>1. Idle \in Task
      BY DEF Idle, Task
    <3> QED
      BY <2>1, <3>1 DEF TypeOK
  <2>2. CASE task' = [task EXCEPT ![w].pc = pc]
    <3>1. task'[w] = [task[w] EXCEPT !.pc = pc]
      BY <2>2 DEF TypeOK
    <3>2. /\ task'[w] \in Task
          /\ task'[w].pc = pc
          /\ task'[w].event = e
          /\ task'[w].attempts = task[w].attempts
          /\ task'[w].lease_token = task[w].lease_token
      BY <1>a, <3>1 DEF Task
    <3> QED
      BY <2>2, <3>2 DEF TypeOK
  <2> QED
    BY <2>1, <2>2
<1>c. \A f \in Events : /\ RowOK(event'[f])
                        /\ \/ event'[f] = event[f]
                           \/ event'[f].status # "processing" /\ event'[f].status # "absent"
  <2>1. \A f \in Events : RowOK(event[f])
    BY DEF TypeOK, RowOK
  <2>2. CASE event' = event
    BY <2>1, <2>2
  <2>3. CASE event' = [event EXCEPT ![e] = row]
    <3>1. event'[e] = row /\ \A f \in Events \ {e} : event'[f] = event[f]
      BY <1>a, <2>3 DEF TypeOK
    <3> QED
      BY <2>1, <3>1
  <2> QED
    BY <2>2, <2>3
<1>d. event' \in [Events -> EventRow]
  BY <1>a DEF TypeOK, RowOK
<1>1. TypeOK'
  BY <1>b, <1>c, <1>d DEF TypeOK, RowOK
<1>2. LeaseIsNewest'
  BY <1>c DEF LeaseIsNewest
<1>3. HandIsCurrent'
  <2> SUFFICES ASSUME NEW v \in Workers
               PROVE  HandIsCurrent!(v)'
    BY DEF HandIsCurrent
  <2>1. CASE task'[v].pc = "idle"
    <3>1. task'[v] = Idle
      BY <1>b, <2>1 DEF HandIsCurrent
    <3> QED
      BY <2>1, <3>1 DEF HandIsCurrent
  <2>2. CASE task'[v].pc # "idle"
    <3>1. /\ task[v].pc # "idle"
          /\ task'[v].event = task[v].event
          /\ task'[v].attempts = task[v].attempts
          /\ task'[v].lease_token = task[v].lease_token
          /\ task[v].event \in Events
      BY <1>a, <1>b, <2>2 DEF Idle, HandIsCurrent
    <3>2. HoldsLease(v)' => event'[task[v].event] = event[task[v].event]
      BY <1>c, <3>1 DEF HoldsLease
    <3> QED
      BY <2>2, <3>1, <3>2 DEF HandIsCurrent, HoldsLease
  <2> QED
    BY <2>1, <2>2
<1>4. BatchIsStored'
  <2>1. \A r \in Requests : \A k \in 1..Len(BatchOf[r]) : BatchOf[r][k] \in Events
    OBVIOUS
  <2> QED
    BY <1>c, <2>1 DEF BatchIsStored
<1>5. UniqueLease'
  <2>1. \A v \in Workers : task'[v].event \in Events =>
          task'[v].event = task[v].event /\ task'[v].lease_token = task[v].lease_token
    BY <1>b DEF Idle
  <2> QED
    BY <2>1 DEF UniqueLease
<1> QED
  BY <1>1, <1>2, <1>3, <1>4, <1>5

\* The clocks touch due and expired, which only the row's shape depends on.
LEMMA TimeInv ==
  ASSUME IInv, NEW e \in Events, BackoffElapses(e) \/ LeaseExpires(e)
  PROVE  IInv'
<1> USE DEF IInv
<1>a. event[e] \in EventRow /\ RowOK(event[e])
  BY DEF TypeOK, RowOK
<1>b. PICK row \in {[event[e] EXCEPT !.due = TRUE], [event[e] EXCEPT !.expired = TRUE]} :
        event' = [event EXCEPT ![e] = row] /\ RowOK(row)
  <2>1. CASE BackoffElapses(e)
    <3> DEFINE row == [event[e] EXCEPT !.due = TRUE]
    <3>1. event' = [event EXCEPT ![e] = row]
      BY <2>1 DEF BackoffElapses, TypeOK
    <3>2. RowOK(row)
      BY <1>a DEF RowOK, EventRow
    <3> QED
      BY <3>1, <3>2
  <2>2. CASE LeaseExpires(e)
    <3> DEFINE row == [event[e] EXCEPT !.expired = TRUE]
    <3>1. event' = [event EXCEPT ![e] = row]
      BY <2>2 DEF LeaseExpires, TypeOK
    <3>2. RowOK(row)
      BY <1>a, <2>2 DEF RowOK, EventRow, LeaseExpires
    <3> QED
      BY <3>1, <3>2
  <2> QED
    BY <2>1, <2>2
<1>c. /\ row.status = event[e].status
      /\ row.locked_by = event[e].locked_by
      /\ row.lease_token = event[e].lease_token
      /\ row.attempts = event[e].attempts
  BY <1>a, <1>b DEF EventRow
<1>d. UNCHANGED <<request, task, grants>> /\ expiries' \in [Events -> 0..MaxExpiries]
  <2>1. CASE BackoffElapses(e)
    BY <2>1 DEF BackoffElapses, TypeOK
  <2>2. CASE LeaseExpires(e)
    <3>1. expiries[e] + 1 \in 0..MaxExpiries
      BY <2>2 DEF LeaseExpires, TypeOK
    <3> QED
      BY <2>2, <3>1 DEF LeaseExpires, TypeOK
  <2> QED
    BY <2>1, <2>2
<1>e. \A f \in Events : /\ RowOK(event'[f])
                        /\ event'[f].status = event[f].status
                        /\ event'[f].locked_by = event[f].locked_by
                        /\ event'[f].lease_token = event[f].lease_token
                        /\ event'[f].attempts = event[f].attempts
  BY <1>b, <1>c DEF TypeOK, RowOK
<1>1. TypeOK'
  <2>1. event' \in [Events -> EventRow]
    BY <1>b DEF TypeOK, RowOK
  <2> QED
    BY <1>d, <1>e, <2>1 DEF TypeOK, RowOK
<1>2. LeaseIsNewest' /\ UniqueLease'
  BY <1>d, <1>e DEF LeaseIsNewest, UniqueLease
<1>3. HandIsCurrent'
  BY <1>d, <1>e DEF HandIsCurrent, HoldsLease
<1>4. BatchIsStored'
  <2>1. \A r \in Requests : \A k \in 1..Len(BatchOf[r]) : BatchOf[r][k] \in Events
    OBVIOUS
  <2> QED
    BY <1>d, <1>e, <2>1 DEF BatchIsStored
<1> QED
  BY <1>1, <1>2, <1>3, <1>4

\* What markWebhookFailed writes is a row.
LEMMA ChargedRow ==
  ASSUME IInv, NEW w \in Workers, task[w].pc # "idle"
  PROVE  /\ RowOK(Charged(w))
         /\ Charged(w).status = FailedStatus(w)
         /\ Charged(w).attempts = task[w].attempts + 1
<1> DEFINE released == Released(event[task[w].event], FailedStatus(w))
<1>1. event[task[w].event] \in EventRow /\ task[w] \in Task
  BY DEF IInv, TypeOK, HandIsCurrent
<1>2. task[w].attempts + 1 \in 0..MaxAttempts
  BY <1>1 DEF Task
<1>3. FailedStatus(w) \in {"failed", "dead_letter"}
  BY DEF FailedStatus
<1>4. RowOK(released)
  BY <1>1, <1>3 DEF RowOK, Released, EventRow, EventStatus
<1>5. released.locked_by = NoWorker /\ released.expired = FALSE
      /\ released.status = FailedStatus(w)
  BY <1>1 DEF Released, EventRow
<1>6. Charged(w) = [released EXCEPT !.attempts = task[w].attempts + 1, !.due = FALSE]
  BY DEF Charged
<1> HIDE DEF released
<1> QED
  BY <1>2, <1>3, <1>4, <1>5, <1>6 DEF RowOK, EventRow

-----------------------------------------------------------------------------
\* IInv is inductive.
LEMMA NextInv == IInv /\ [Next]_vars => IInv'
<1> SUFFICES ASSUME IInv, [Next]_vars PROVE IInv'
  OBVIOUS
<1>0. ASSUME NEW w \in Workers, task[w].pc # "idle"
      PROVE  /\ RowOK(Released(event[task[w].event], "processed"))
             /\ Released(event[task[w].event], "processed").status = "processed"
  <2>1. event[task[w].event] \in EventRow
    BY <1>0 DEF IInv, TypeOK, HandIsCurrent
  <2> QED
    BY <2>1 DEF RowOK, Released, EventRow, EventStatus
<1>1. ASSUME NEW r \in Requests, Ingest(r) \/ LoseRequest(r) PROVE IInv'
  BY <1>1, InsertInv, EndRequestInv DEF Ingest
<1>2. ASSUME NEW w \in Workers, Claim(w) PROVE IInv'
  BY <1>2, ClaimInv DEF Claim
<1>3. ASSUME NEW w \in Workers, Process(w) \/ Crash(w) PROVE IInv'
  <2>1. task[w].pc # "idle"
    BY <1>3 DEF Process, Finish, Crash
  <2> QED
    BY <1>0, <1>3, <2>1, TaskInv DEF Process, Finish, Crash
<1>4. ASSUME NEW w \in Workers, MarkProcessed(w) \/ MarkProcessedThrows(w) PROVE IInv'
  <2>1. task[w].pc # "idle"
    BY <1>4 DEF MarkProcessed, MarkProcessedThrows
  <2> QED
    BY <1>0, <1>4, <2>1, TaskInv DEF MarkProcessed, MarkProcessedThrows, RecordProcessed
<1>5. ASSUME NEW w \in Workers, MarkFailed(w) PROVE IInv'
  <2>1. task[w].pc # "idle" /\ FailedStatus(w) \in {"failed", "dead_letter"}
    BY <1>5 DEF MarkFailed, FailedStatus
  <2>2. RowOK(Charged(w)) /\ Charged(w).status = FailedStatus(w)
    BY <2>1, ChargedRow
  <2> QED
    BY <1>5, <2>1, <2>2, TaskInv DEF MarkFailed
<1>6. ASSUME NEW e \in Events, BackoffElapses(e) \/ LeaseExpires(e) PROVE IInv'
  BY <1>6, TimeInv
<1>7. CASE UNCHANGED vars
  BY <1>7 DEF vars, IInv, TypeOK, LeaseIsNewest, HandIsCurrent, HoldsLease, BatchIsStored,
         UniqueLease
<1> QED
  BY <1>1, <1>2, <1>3, <1>4, <1>5, <1>6, <1>7 DEF Next, QueueStep, Mark

\* IInv holds in every reachable state of the webhook queue.
THEOREM Invariance == Spec => []IInv
  BY InitInv, NextInv, PTL DEF Spec

\* Every reachable state is well typed, rows leased exactly while they are processing.
THEOREM TypeCorrect == Spec => []TypeOK
<1>1. IInv => TypeOK
  BY DEF IInv
<1> QED
  BY <1>1, Invariance, PTL

\* A provider that got a 2xx finds the whole of its batch durable.
THEOREM Durability == Spec => []AckedIsDurable
<1>1. IInv => AckedIsDurable
  <2> SUFFICES ASSUME IInv, NEW r \in Requests,
                      request[r].pc \in {"accepted", "duplicate"},
                      NEW k \in 1..Len(BatchOf[r])
               PROVE  event[BatchOf[r][k]].status # "absent"
    BY DEF AckedIsDurable
  <2>1. request[r].next > Len(BatchOf[r]) /\ request[r].next \in Nat
    BY DEF IInv, BatchIsStored, TypeOK, Request
  <2>2. k < request[r].next
    BY <2>1
  <2> QED
    BY <2>2 DEF IInv, BatchIsStored
<1> QED
  BY <1>1, Invariance, PTL

\* No two workers hold one event under the same token, however often it is taken over.
THEOREM LeaseUniqueness == Spec => []UniqueLease
<1>1. IInv => UniqueLease
  BY DEF IInv
<1> QED
  BY <1>1, Invariance, PTL

-----------------------------------------------------------------------------
(* What a step does to one row *)

\* A row leaves processing only under its lease: the worker that holds the newest token
\* marks it, and moves on.
Marked(k) ==
  \E w \in Workers :
    /\ task[w].event = k
    /\ task[w].lease_token = grants[k]
    /\ task'[w] # task[w]

\* What a step may do to one row and its lease count: the six moves of an event.
Moves(k) ==
  \/ /\ event'[k].status = event[k].status
     /\ event'[k].attempts = event[k].attempts
     /\ grants'[k] = grants[k]
  \/ /\ event[k].status = "absent" /\ event'[k].status = "pending"
     /\ event'[k].attempts = event[k].attempts
     /\ grants'[k] = grants[k]
  \/ /\ event[k].status \in {"pending", "failed"} /\ event'[k].status = "processing"
     /\ event[k].attempts < MaxAttempts
     /\ event'[k].attempts = event[k].attempts
     /\ grants'[k] = grants[k] + 1
  \/ /\ event[k].status = "processing" /\ event'[k].status = "processing"
     /\ event'[k].attempts = event[k].attempts
     /\ grants'[k] = grants[k] + 1
  \/ /\ event[k].status = "processing" /\ event'[k].status \in {"processed", "dead_letter"}
     /\ \/ event'[k].attempts = event[k].attempts
        \/ event'[k].attempts = event[k].attempts + 1
     /\ grants'[k] = grants[k]
     /\ Marked(k)
  \/ /\ event[k].status = "processing" /\ event'[k].status = "failed"
     /\ event[k].attempts + 1 < MaxAttempts
     /\ event'[k].attempts = event[k].attempts + 1
     /\ grants'[k] = grants[k]
     /\ Marked(k)

\* Each step moves a row as the abstract queue may, or leaves its item as it is.
LEMMA NextMoves ==
  ASSUME IInv, [Next]_vars, NEW k \in Events
  PROVE  Moves(k)
<1>a. event[k] \in EventRow /\ grants[k] \in Nat
  BY DEF IInv, TypeOK
<1>1. ASSUME NEW r \in Requests, InsertNext(r) PROVE Moves(k)
  <2> DEFINE e == BatchOf[r][request[r].next]
  <2>1. grants' = grants
    BY <1>1 DEF InsertNext
  <2>2. CASE e = k /\ event[k].status = "absent"
    <3>1. event' = [event EXCEPT ![k] = [@ EXCEPT !.status = "pending", !.due = TRUE]]
      BY <1>1, <2>2 DEF InsertNext
    <3>2. event'[k].status = "pending" /\ event'[k].attempts = event[k].attempts
      BY <1>a, <3>1 DEF IInv, TypeOK, EventRow
    <3> QED
      BY <2>1, <2>2, <3>2 DEF Moves
  <2>3. CASE ~(e = k /\ event[k].status = "absent")
    <3>1. event'[k] = event[k]
      BY <1>1, <2>3 DEF InsertNext, IInv, TypeOK
    <3> QED
      BY <2>1, <3>1 DEF Moves
  <2> QED
    BY <2>2, <2>3
<1>2. ASSUME NEW r \in Requests, Answer(r) \/ LoseRequest(r) PROVE Moves(k)
  BY <1>2 DEF Answer, LoseRequest, Moves
<1>3. ASSUME NEW w \in Workers, NEW e \in Events, ClaimWebhook(w, e) PROVE Moves(k)
  <2>1. CASE e = k
    <3>1. /\ event[k].attempts < MaxAttempts
          /\ event[k].status \in {"pending", "failed", "processing"}
          /\ grants'[k] = grants[k] + 1
      BY <1>3, <2>1 DEF ClaimWebhook, Claimable, IInv, TypeOK
    <3>2. event' = [event EXCEPT ![k] =
                      [@ EXCEPT !.status = "processing", !.locked_by = w,
                                !.lease_token = grants[k] + 1, !.expired = FALSE]]
      BY <1>3, <2>1 DEF ClaimWebhook, FreshToken
    <3>3. event'[k].status = "processing" /\ event'[k].attempts = event[k].attempts
      BY <1>a, <3>2 DEF IInv, TypeOK, EventRow
    <3> QED
      BY <3>1, <3>3 DEF Moves
  <2>2. CASE e # k
    <3>1. event'[k] = event[k] /\ grants'[k] = grants[k]
      BY <1>3, <2>2 DEF ClaimWebhook, IInv, TypeOK
    <3> QED
      BY <3>1 DEF Moves
  <2> QED
    BY <2>1, <2>2
<1>4. ASSUME NEW w \in Workers, Process(w) \/ Crash(w) PROVE Moves(k)
  BY <1>4 DEF Process, Finish, Crash, Moves
<1>5. ASSUME NEW w \in Workers, Mark(w) PROVE Moves(k)
  <2>0. /\ task[w] \in Task
        /\ task[w].pc \in {"processed", "failed"}
        /\ task'[w].pc # task[w].pc
        /\ grants' = grants
    BY <1>5 DEF Mark, MarkProcessed, MarkProcessedThrows, MarkFailed, IInv, TypeOK, Task, Idle
  <2>1. CASE event'[k] = event[k]
    BY <2>0, <2>1 DEF Moves
  <2>2. CASE event'[k] # event[k]
    <3>1. HoldsLease(w) /\ task[w].event = k
      BY <1>5, <2>2 DEF Mark, MarkProcessed, MarkProcessedThrows, MarkFailed, RecordProcessed,
         IInv, TypeOK
    <3>2. /\ event[k].status = "processing"
          /\ event[k].attempts = task[w].attempts
          /\ task[w].lease_token = grants[k]
      BY <2>0, <3>1 DEF HoldsLease, IInv, HandIsCurrent, LeaseIsNewest
    <3>3. Marked(k)
      BY <2>0, <3>1, <3>2 DEF Marked
    <3>4. CASE MarkProcessed(w) \/ MarkProcessedThrows(w)
      <4>1. event'[k] = Released(event[k], "processed")
        BY <2>2, <3>1, <3>4 DEF MarkProcessed, MarkProcessedThrows, RecordProcessed, IInv, TypeOK
      <4>2. event'[k].status = "processed" /\ event'[k].attempts = event[k].attempts
        BY <1>a, <4>1 DEF Released, EventRow
      <4> QED
        BY <2>0, <3>2, <3>3, <4>2 DEF Moves
    <3>5. CASE MarkFailed(w)
      <4>1. event'[k] = Charged(w)
        BY <2>2, <3>1, <3>5 DEF MarkFailed, IInv, TypeOK
      <4>2. event'[k].status = FailedStatus(w) /\ event'[k].attempts = event[k].attempts + 1
        BY <2>0, <3>2, <4>1, ChargedRow
      <4>3. CASE task[w].attempts + 1 >= MaxAttempts
        BY <2>0, <3>2, <3>3, <4>2, <4>3 DEF Moves, FailedStatus
      <4>4. CASE ~(task[w].attempts + 1 >= MaxAttempts)
        <5>1. event[k].attempts + 1 < MaxAttempts /\ event'[k].status = "failed"
          BY <2>0, <3>2, <4>2, <4>4 DEF FailedStatus, Task
        <5> QED
          BY <2>0, <3>2, <3>3, <4>2, <5>1 DEF Moves
      <4> QED
        BY <4>3, <4>4
    <3> QED
      BY <1>5, <3>4, <3>5 DEF Mark
  <2> QED
    BY <2>1, <2>2
<1>6. ASSUME NEW e \in Events, BackoffElapses(e) \/ LeaseExpires(e) PROVE Moves(k)
  <2>1. /\ event'[k].status = event[k].status
        /\ event'[k].attempts = event[k].attempts
    BY <1>6, <1>a DEF BackoffElapses, LeaseExpires, IInv, TypeOK, EventRow
  <2> QED
    BY <1>6, <2>1 DEF BackoffElapses, LeaseExpires, Moves
<1>7. CASE UNCHANGED vars
  BY <1>7 DEF vars, Moves
<1> QED
  BY <1>1, <1>2, <1>3, <1>4, <1>5, <1>6, <1>7 DEF Next, QueueStep, Ingest, Claim

\* An event leaves processing only by the hand of the worker with the newest lease on it:
\* a worker that was taken over from decides nothing.
THEOREM Fencing == Spec => FencedMarks
<1>1. IInv /\ [Next]_vars =>
        [\A e \in Events :
           event[e].status = "processing" /\ event'[e].status # "processing" =>
             \E w \in Workers :
               /\ task[w].event = e
               /\ task[w].lease_token = grants[e]
               /\ task'[w] # task[w]]_vars
  BY NextMoves DEF Moves, Marked
<1> QED
  BY <1>1, Invariance, PTL DEF Spec, FencedMarks

\* A decided event stays decided: no redelivery, takeover or late mark moves it.
THEOREM DecidedForever ==
  Spec => [][\A e \in Events :
               event[e].status \in Decided => event'[e].status = event[e].status]_vars
<1>1. IInv /\ [Next]_vars =>
        [\A e \in Events :
           event[e].status \in Decided => event'[e].status = event[e].status]_vars
  BY NextMoves DEF Moves, Decided
<1> QED
  BY <1>1, Invariance, PTL DEF Spec

-----------------------------------------------------------------------------
(* The webhook queue implements the abstract queue *)

\* Such a move of the row is a move of the abstract item.
LEMMA MoveRefines ==
  ASSUME IInv, IInv', NEW k \in Events, Moves(k)
  PROVE  \/ AbstractItem(k)' = AbstractItem(k)
         \/ Queue!Move(AbstractItem(k), AbstractItem(k)')
<1> DEFINE P(status) == CASE status = "absent" -> "absent"
                          [] status \in {"pending", "failed"} -> "waiting"
                          [] status = "processing" -> "held"
                          [] OTHER -> "settled"
           r == AbstractItem(k)
           s == [phase |-> P(event'[k].status), attempts |-> event'[k].attempts,
                 tickets |-> grants'[k]]
<1>a. /\ r = [phase |-> P(event[k].status), attempts |-> event[k].attempts,
              tickets |-> grants[k]]
      /\ AbstractItem(k)' = s
  BY DEF AbstractItem
<1>b. /\ event[k].attempts \in Nat /\ grants[k] \in Nat
      /\ P("absent") = "absent"
      /\ P("pending") = "waiting" /\ P("failed") = "waiting"
      /\ P("processing") = "held"
      /\ P("processed") = "settled" /\ P("dead_letter") = "settled"
  BY DEF IInv, TypeOK, EventRow
<1> HIDE DEF P
<1>1. CASE UNCHANGED <<event[k].status, event[k].attempts, grants[k]>>
  BY <1>1, <1>a
<1>2. CASE /\ event[k].status = "absent" /\ event'[k].status = "pending"
           /\ event'[k].attempts = event[k].attempts
           /\ grants'[k] = grants[k]
  BY <1>2, <1>a, <1>b DEF Queue!Move, Queue!Submit
<1>3. CASE /\ event[k].status \in {"pending", "failed"} /\ event'[k].status = "processing"
           /\ event[k].attempts < MaxAttempts
           /\ event'[k].attempts = event[k].attempts
           /\ grants'[k] = grants[k] + 1
  <2>1. /\ r.phase = "waiting" /\ r.attempts < MaxAttempts
        /\ s = [phase |-> "held", attempts |-> event[k].attempts, tickets |-> grants[k] + 1]
    BY <1>3, <1>a, <1>b
  <2> QED
    BY <2>1, <1>a DEF Queue!Move, Queue!Grant
<1>4. CASE /\ event[k].status = "processing" /\ event'[k].status = "processing"
           /\ event'[k].attempts = event[k].attempts
           /\ grants'[k] = grants[k] + 1
  <2>1. r.phase = "held" /\ s = [r EXCEPT !.tickets = @ + 1]
    BY <1>4, <1>a, <1>b
  <2> QED
    BY <2>1, <1>a DEF Queue!Move, Queue!Expire
<1>5. CASE /\ event[k].status = "processing"
           /\ event'[k].status \in {"processed", "dead_letter"}
           /\ \/ event'[k].attempts = event[k].attempts
              \/ event'[k].attempts = event[k].attempts + 1
           /\ grants'[k] = grants[k]
  <2>1. /\ r.phase = "held"
        /\ \E failed \in {0, 1} :
             s = [phase |-> "settled", attempts |-> r.attempts + failed, tickets |-> r.tickets]
    BY <1>5, <1>a, <1>b
  <2> QED
    BY <2>1, <1>a DEF Queue!Move, Queue!Settle
<1>6. CASE /\ event[k].status = "processing" /\ event'[k].status = "failed"
           /\ event[k].attempts + 1 < MaxAttempts
           /\ event'[k].attempts = event[k].attempts + 1
           /\ grants'[k] = grants[k]
  <2>1. /\ r.phase = "held" /\ r.attempts + 1 < MaxAttempts
        /\ s = [phase |-> "waiting", attempts |-> event[k].attempts + 1,
                tickets |-> grants[k]]
    BY <1>6, <1>a, <1>b
  <2> QED
    BY <2>1, <1>a DEF Queue!Move, Queue!GiveBack
<1> QED
  BY <1>1, <1>2, <1>3, <1>4, <1>5, <1>6 DEF Moves

\* Every behaviour of the webhook queue is one of the abstract queue that reissues.
THEOREM Refinement == Spec => ImplementsQueue
<1>1. Init => Queue!Init
  BY DEF Init, Queue!Init, AbstractItem
<1>2. IInv /\ IInv' /\ [Next]_vars => [Queue!Next]_[e \in Events |-> AbstractItem(e)]
  <2> SUFFICES ASSUME IInv, IInv', [Next]_vars
               PROVE  Queue!Next
    OBVIOUS
  <2>1. ASSUME NEW k \in Events
        PROVE  \/ AbstractItem(k)' = AbstractItem(k)
               \/ Queue!Move(AbstractItem(k), AbstractItem(k)')
    BY NextMoves, MoveRefines
  <2> QED
    BY <2>1 DEF Queue!Next
<1> QED
  BY <1>1, <1>2, Invariance, PTL DEF Spec, ImplementsQueue, Queue!Spec
=============================================================================
