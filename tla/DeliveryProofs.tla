--------------------------- MODULE DeliveryProofs ---------------------------
(***************************************************************************)
(* Proofs about delivery receipts, for any jobs, workers, handlers and     *)
(* statuses: receipts leave the outbox alone, and what an agent reads of a *)
(* message is what the outbox wrote or what was reported of that message.  *)
(***************************************************************************)
EXTENDS DeliveryReceipts, OutboxProofs

USE DeliveryAssumption DEF DeliveryAssumption

-----------------------------------------------------------------------------
(* The outbox within *)

\* Each step of the composition is a step of the outbox, or none.
LEMMA StepIsOutboxStep == [DeliveryNext]_dvars => [Next]_vars
<1> SUFFICES ASSUME [DeliveryNext]_dvars PROVE [Next]_vars
  OBVIOUS
<1>1. CASE OutboxStep
  <2>1. ASSUME NEW j \in Jobs, EnqueueMessage(j) PROVE Next
    BY <2>1 DEF EnqueueMessage, Next
  <2>2. ASSUME NEW w \in Workers, SendMessage(w) \/ RecordDelivery(w) PROVE Next
    BY <2>2 DEF SendMessage, RecordDelivery, Next, Attempt, Mark
  <2>3. CASE OtherOutboxStep
    BY <2>3 DEF OtherOutboxStep, Next, Attempt, Mark
  <2> QED
    BY <1>1, <2>1, <2>2, <2>3 DEF OutboxStep
<1>2. CASE ReceiptStep
  BY <1>2 DEF ReceiptStep, Post, TakeReceipt, UpdateStatus, RecordReceipt, EndReceipt
<1>3. CASE UNCHANGED dvars
  BY <1>3 DEF dvars
<1> QED
  BY <1>1, <1>2, <1>3 DEF DeliveryNext

\* Receipts never disturb the outbox: what is proved of it holds with them.
THEOREM DeliveryIsOutbox == DeliverySpec => Spec
<1>1. DeliveryInit => Init
  BY DEF DeliveryInit
<1> QED
  BY <1>1, StepIsOutboxStep, PTL DEF DeliverySpec, Spec

\* In particular the outbox's invariant.
LEMMA OutboxInvariance == DeliverySpec => []IInv
  BY DeliveryIsOutbox, Invariance, PTL

-----------------------------------------------------------------------------
(* The message's row *)

\* The initial state: no message, nothing sent, nothing posted.
LEMMA DeliveryInitInv == DeliveryInit => DeliveryIInv
<1> SUFFICES ASSUME DeliveryInit PROVE DeliveryIInv
  OBVIOUS
<1>1. DeliveryTypeOK
  BY DEF DeliveryInit, DeliveryTypeOK, Shown, Handler
<1>2. StatusAttested /\ LogIsTrue
  BY DEF DeliveryInit, Init, StatusAttested, LogIsTrue
<1>3. DeliveredIsOutgoing /\ MessageWithJob
  BY DEF DeliveryInit, Init, DeliveredIsOutgoing, MessageWithJob, Idle, NoRow
<1> QED
  BY <1>1, <1>2, <1>3 DEF DeliveryIInv

\* What a row of the log says of the message it names.
LEMMA LogRow ==
  ASSUME LogIsTrue, NEW d \in delivery_events, d.message_id \in Jobs
  PROVE  /\ message[d.message_id] = "sent"
         /\ d.message = <<d.message_id, provider_message_id[d.message_id]>>
         /\ d.status \in Attested(d.message_id)
<1>1. d.message_id # NoJob
  BY OutboxAssumption
<1> QED
  BY <1>1 DEF LogIsTrue

\* A step that leaves the columns, the receipts and what was sent alone, and whose worker
\* does not come to record a delivery, keeps the invariant if messages stay with their jobs.
LEMMA FrameInv ==
  ASSUME DeliveryIInv,
         UNCHANGED <<message, columns, webhooks>>,
         outgoing \subseteq outgoing', outgoing' \subseteq MessageId,
         DeliveredIsOutgoing', MessageWithJob'
  PROVE  DeliveryIInv'
<1> USE DEF DeliveryIInv
<1>1. UNCHANGED <<message, delivery_status, provider_message_id, posted, decided,
                  delivery_events, handler>>
  BY DEF columns, webhooks
<1>2. DeliveryTypeOK'
  BY <1>1 DEF DeliveryTypeOK
<1>3. StatusAttested' /\ LogIsTrue'
  BY <1>1 DEF StatusAttested, LogIsTrue, Attested
<1> QED
  BY <1>2, <1>3

\* Enqueueing makes a message of its own, which nobody has sent.
LEMMA EnqueueMessageInv ==
  ASSUME IInv, IInv', DeliveryIInv, NEW k \in Jobs, EnqueueMessage(k)
  PROVE  DeliveryIInv'
<1> USE DEF DeliveryIInv
<1>1. /\ UNCHANGED <<work, provider_message_id, outgoing, posted, decided, delivery_events,
                     handler>>
      /\ job[k].status = "absent"
      /\ \A j \in Jobs \ {k} : /\ message'[j] = message[j] /\ job'[j] = job[j]
                               /\ delivery_status'[j] = delivery_status[j]
      /\ message'[k] = "queued" /\ delivery_status'[k] = "queued"
  BY DEF EnqueueMessage, Enqueue, webhooks, IInv, TypeOK, DeliveryTypeOK
<1>2. message[k] # "sent"
  BY <1>1 DEF IInv, SentIsTrue
<1>3. DeliveryTypeOK'
  <2>1. delivery_status' \in [Jobs -> Shown]
    BY DEF EnqueueMessage, DeliveryTypeOK, Shown
  <2> QED
    BY <1>1, <2>1 DEF DeliveryTypeOK
<1>4. StatusAttested'
  <2> SUFFICES ASSUME NEW j \in Jobs PROVE StatusAttested!(j)'
    BY DEF StatusAttested
  <2>1. CASE j = k
    BY <1>1, <1>2, <2>1 DEF StatusAttested
  <2>2. CASE j # k
    BY <1>1, <2>2 DEF StatusAttested, Attested
  <2> QED
    BY <2>1, <2>2
<1>5. LogIsTrue'
  <2> SUFFICES ASSUME NEW d \in delivery_events PROVE LogIsTrue!(d)'
    BY <1>1 DEF LogIsTrue
  <2>1. d.message_id # k /\ d.message_id \in Jobs \cup {NoJob}
    BY <1>2, LogRow DEF DeliveryTypeOK, DeliveryEvent
  <2> QED
    BY <1>1, <2>1 DEF LogIsTrue, Attested
<1>6. DeliveredIsOutgoing'
  BY <1>1 DEF DeliveredIsOutgoing
<1>7. MessageWithJob'
  BY <1>1 DEF MessageWithJob
<1> QED
  BY <1>3, <1>4, <1>5, <1>6, <1>7

\* The provider accepts; the worker may now come to record it.
LEMMA SendMessageInv ==
  ASSUME IInv, DeliveryIInv, NEW w \in Workers, SendMessage(w)
  PROVE  DeliveryIInv'
<1>1. /\ UNCHANGED <<job, message, columns, webhooks>>
      /\ outgoing' = outgoing \cup {<<work[w].job, work[w].lease_token>>}
      /\ \E pc \in {"deliver", "fail"} : Goto(w, pc, FALSE)
      /\ work[w].pc = "send"
  BY DEF SendMessage, Accepts, AcceptsUnheard
<1>2. work[w] \in Work /\ work[w].job \in Jobs
  BY <1>1 DEF IInv, TypeOK, HandIsNewest
<1>3. /\ work'[w].job = work[w].job /\ work'[w].lease_token = work[w].lease_token
      /\ \A v \in Workers \ {w} : work'[v] = work[v]
  BY <1>1, <1>2 DEF Goto, IInv, TypeOK, Work
<1>4. outgoing' \subseteq MessageId
  BY <1>1, <1>2 DEF DeliveryIInv, DeliveryTypeOK, MessageId, Work
<1>5. DeliveredIsOutgoing'
  BY <1>1, <1>3 DEF DeliveryIInv, DeliveredIsOutgoing
<1>6. MessageWithJob'
  BY <1>1 DEF DeliveryIInv, MessageWithJob
<1> QED
  BY <1>1, <1>4, <1>5, <1>6, FrameInv

\* What recording a delivery does to the message's row: nothing, or it turns a queued
\* message into a sent one with the id of its own lease.
LEMMA RecordedColumns ==
  ASSUME IInv, DeliveryIInv, NEW w \in Workers, RecordDelivery(w), NEW j \in Jobs
  PROVE  \/ /\ message'[j] = message[j]
            /\ delivery_status'[j] = delivery_status[j]
            /\ provider_message_id'[j] = provider_message_id[j]
         \/ /\ j = work[w].job
            /\ message[j] = "queued" /\ message'[j] = "sent"
            /\ delivery_status'[j] = "sent"
            /\ provider_message_id'[j] = work[w].lease_token
<1>1. CASE message' = message
  BY <1>1 DEF RecordDelivery, columns
<1>2. CASE message' # message
  <2>1. RecordSent(w) /\ LinkMessage(w) /\ work[w].pc = "deliver"
    BY <1>2 DEF RecordDelivery, MarkDelivered, MarkDeliveredThrows
  <2>2. CASE j \in LinkedMessage(w)
    <3>1. j = work[w].job /\ job[j].status = "processing"
      BY <2>2 DEF LinkedMessage, HoldsLease
    <3>2. message[j] = "queued"
      BY <3>1 DEF IInv, TypeOK, SentIsTrue, DeliveryIInv, MessageWithJob
    <3> QED
      BY <2>1, <2>2, <3>1, <3>2 DEF RecordSent, LinkMessage
  <2>3. CASE j \notin LinkedMessage(w)
    BY <2>1, <2>3 DEF RecordSent, LinkMessage
  <2> QED
    BY <2>2, <2>3
<1> QED
  BY <1>1, <1>2

\* Recording a delivery keeps the invariant: the id is one of a message that was accepted,
\* and no receipt was there before it.
LEMMA RecordDeliveryInv ==
  ASSUME IInv, IInv', DeliveryIInv, NEW w \in Workers, RecordDelivery(w)
  PROVE  DeliveryIInv'
<1> USE DEF DeliveryIInv
<1>0. /\ UNCHANGED <<outgoing, posted, decided, delivery_events, handler>>
      /\ work[w].pc = "deliver"
      /\ work[w] \in Work /\ work[w].job \in Jobs
  BY DEF RecordDelivery, MarkDelivered, MarkDeliveredThrows, webhooks, IInv, TypeOK, HandIsNewest
<1>1. <<work[w].job, work[w].lease_token>> \in outgoing
  BY <1>0 DEF DeliveredIsOutgoing
<1>2. work'[w].pc # "deliver" /\ \A v \in Workers \ {w} : work'[v] = work[v]
  BY <1>0 DEF RecordDelivery, MarkDelivered, MarkDeliveredThrows, Goto, Idle, IInv, TypeOK, Work
<1>3. DeliveryTypeOK'
  <2>1. CASE message' = message
    BY <1>0, <2>1 DEF RecordDelivery, columns, DeliveryTypeOK
  <2>2. CASE message' # message
    <3>1. LinkMessage(w)
      BY <2>2 DEF RecordDelivery
    <3>2. delivery_status' \in [Jobs -> Shown]
      BY <3>1 DEF LinkMessage, DeliveryTypeOK, Shown
    <3>3. provider_message_id' \in [Jobs -> Nat]
      BY <1>0, <3>1 DEF LinkMessage, DeliveryTypeOK, Work
    <3> QED
      BY <1>0, <3>2, <3>3 DEF DeliveryTypeOK
  <2> QED
    BY <2>1, <2>2
<1>4. StatusAttested'
  <2> SUFFICES ASSUME NEW j \in Jobs PROVE StatusAttested!(j)'
    BY DEF StatusAttested
  <2> QED
    <3>1. CASE /\ message'[j] = message[j]
               /\ delivery_status'[j] = delivery_status[j]
               /\ provider_message_id'[j] = provider_message_id[j]
      <4>1. Attested(j)' = Attested(j)
        BY <1>0, <3>1 DEF Attested
      <4> QED
        BY <1>0, <3>1, <4>1 DEF StatusAttested
    <3>2. CASE /\ j = work[w].job
               /\ message[j] = "queued" /\ message'[j] = "sent"
               /\ delivery_status'[j] = "sent"
               /\ provider_message_id'[j] = work[w].lease_token
      BY <1>0, <1>1, <3>2 DEF StatusAttested
    <3> QED
      BY <3>1, <3>2, RecordedColumns
<1>5. LogIsTrue'
  <2> SUFFICES ASSUME NEW d \in delivery_events PROVE LogIsTrue!(d)'
    BY <1>0 DEF LogIsTrue
  <2>1. d.message_id \in Jobs \cup {NoJob}
    BY DEF DeliveryTypeOK, DeliveryEvent
  <2>2. CASE d.message_id = NoJob
    BY <1>0, <2>2 DEF LogIsTrue
  <2>3. CASE d.message_id \in Jobs
    <3>1. message[d.message_id] = "sent"
      BY <2>3, LogRow
    <3>2. /\ message'[d.message_id] = message[d.message_id]
          /\ provider_message_id'[d.message_id] = provider_message_id[d.message_id]
      BY <2>3, <3>1, RecordedColumns
    <3> QED
      BY <1>0, <2>3, <3>2 DEF LogIsTrue, Attested
  <2> QED
    BY <2>1, <2>2, <2>3
<1>6. DeliveredIsOutgoing'
  BY <1>0, <1>2 DEF DeliveredIsOutgoing
<1>7. MessageWithJob'
  <2> SUFFICES ASSUME NEW j \in Jobs PROVE MessageWithJob!(j)'
    BY DEF MessageWithJob
  <2>1. job[j].status = "absent" => job'[j].status = "absent"
    <3>1. RecordSent(w) \/ job' = job
      BY DEF RecordDelivery, MarkDelivered, MarkDeliveredThrows
    <3> QED
      BY <1>0, <3>1, RecordSentRows
  <2> QED
    BY <2>1, RecordedColumns DEF MessageWithJob
<1> QED
  BY <1>3, <1>4, <1>5, <1>6, <1>7
-----------------------------------------------------------------------------
(* The other steps *)

\* No other step of the outbox touches a message, or creates a job.
LEMMA OtherOutboxStepInv ==
  ASSUME IInv, DeliveryIInv, OtherOutboxStep
  PROVE  DeliveryIInv'
<1> USE DEF DeliveryIInv
<1>1. UNCHANGED <<message, columns, outgoing, webhooks>>
  BY DEF OtherOutboxStep, Poll, ClaimNothing, ClaimJob, Unsendable, Rejects, MarkFailedRetry,
     MarkFailedDead, Crash, BackoffElapses, LeaseExpires
<1>2. ASSUME NEW w \in Workers, work'[w].pc = "deliver" PROVE work'[w] = work[w]
  <2>1. ASSUME NEW v \in Workers, NEW j \in Jobs, ClaimJob(v, j) PROVE work'[w] = work[w]
    <3>1. v # w
      BY <1>2, <2>1 DEF ClaimJob, IInv, TypeOK
    <3> QED
      BY <2>1, <3>1 DEF ClaimJob, IInv, TypeOK
  <2>2. ASSUME NEW v \in Workers, Unsendable(v) \/ Rejects(v) PROVE work'[w] = work[w]
    <3>1. PICK terminal \in BOOLEAN : Goto(v, "fail", terminal)
      BY <2>2 DEF Unsendable, Rejects
    <3>2. work[v] \in Work
      BY DEF IInv, TypeOK
    <3>3. v # w
      BY <1>2, <3>1, <3>2 DEF Goto, IInv, TypeOK, Work
    <3> QED
      BY <3>1, <3>3 DEF Goto, IInv, TypeOK
  <2>3. ASSUME NEW v \in Workers, MarkFailedRetry(v) \/ MarkFailedDead(v) \/ Crash(v)
        PROVE  work'[w] = work[w]
    <3>1. v # w
      BY <1>2, <2>3 DEF MarkFailedRetry, MarkFailedDead, Crash, Idle, IInv, TypeOK
    <3> QED
      BY <2>3, <3>1 DEF MarkFailedRetry, MarkFailedDead, Crash, IInv, TypeOK
  <2> QED
    BY <2>1, <2>2, <2>3 DEF OtherOutboxStep, Poll, ClaimNothing, BackoffElapses, LeaseExpires
<1>3. ASSUME NEW k \in Jobs, job[k].status = "absent" PROVE job'[k].status = "absent"
  <2>0. job[k] \in JobRow
    BY DEF IInv, TypeOK
  <2>1. ASSUME NEW w \in Workers, NEW j \in Jobs, ClaimJob(w, j) PROVE job'[k].status = "absent"
    <3>1. k # j /\ DOMAIN Swept = Jobs
      BY <1>3, <2>1 DEF ClaimJob, Claimable, Swept
    <3>2. job'[k] = Swept[k]
      BY <2>1, <3>1 DEF ClaimJob
    <3> QED
      BY <1>3, <3>2, SweptRow DEF IInv
  <2>2. ASSUME NEW w \in Workers, ClaimNothing(w) PROVE job'[k].status = "absent"
    BY <1>3, <2>2, SweptRow DEF ClaimNothing, IInv
  <2>3. ASSUME NEW w \in Workers, MarkFailedRetry(w) PROVE job'[k].status = "absent"
    BY <1>3, <2>3 DEF MarkFailedRetry, HoldsLease, IInv, TypeOK
  <2>4. ASSUME NEW w \in Workers, Unsendable(w) \/ Rejects(w) \/ MarkFailedDead(w) \/ Crash(w)
        PROVE  job'[k].status = "absent"
    BY <1>3, <2>4 DEF Unsendable, Rejects, MarkFailedDead, Crash
  <2>5. ASSUME NEW j \in Jobs, BackoffElapses(j) \/ LeaseExpires(j)
        PROVE  job'[k].status = "absent"
    BY <1>3, <2>0, <2>5 DEF BackoffElapses, LeaseExpires, IInv, TypeOK, JobRow
  <2> QED
    BY <2>1, <2>2, <2>3, <2>4, <2>5 DEF OtherOutboxStep, Poll
<1>4. DeliveredIsOutgoing'
  BY <1>1, <1>2 DEF DeliveredIsOutgoing
<1>5. MessageWithJob'
  BY <1>1, <1>3 DEF MessageWithJob
<1> QED
  BY <1>1, <1>4, <1>5, FrameInv DEF DeliveryTypeOK

\* The provider posts a receipt, a worker takes one or lets one go: no row is written.
LEMMA QuietReceiptInv ==
  ASSUME DeliveryIInv,
         UNCHANGED <<vars, columns, outgoing, delivery_events>>,
         posted \subseteq posted', posted' \subseteq Receipt, decided' \subseteq posted',
         handler' \in [Handlers -> Handler],
         \A h \in Handlers : handler'[h].pc # "idle" => handler'[h].receipt \in posted'
  PROVE  DeliveryIInv'
<1> USE DEF DeliveryIInv
<1>1. UNCHANGED <<job, work, message, delivery_status, provider_message_id>>
  BY DEF vars, columns
<1>2. \A j \in Jobs : Attested(j) \subseteq Attested(j)'
  BY <1>1 DEF Attested
<1>3. DeliveryTypeOK'
  BY <1>1 DEF DeliveryTypeOK
<1>4. StatusAttested'
  BY <1>1, <1>2 DEF StatusAttested
<1>5. LogIsTrue'
  <2> SUFFICES ASSUME NEW d \in delivery_events PROVE LogIsTrue!(d)'
    BY DEF LogIsTrue
  <2>1. d.message_id \in Jobs \cup {NoJob}
    BY DEF DeliveryTypeOK, DeliveryEvent
  <2> QED
    BY <1>1, <1>2, <2>1, LogRow DEF LogIsTrue
<1>6. DeliveredIsOutgoing' /\ MessageWithJob'
  BY <1>1 DEF DeliveredIsOutgoing, MessageWithJob
<1> QED
  BY <1>3, <1>4, <1>5, <1>6

\* The rows a receipt addresses: those that were sent under its very id.
LEMMA AddressedRows ==
  ASSUME DeliveryIInv, NEW r \in posted, NEW j \in Addressed(r)
  PROVE  /\ j \in Jobs /\ message[j] = "sent"
         /\ r.message = <<j, provider_message_id[j]>>
         /\ Normalized(r.status) \in Attested(j)
  BY DEF DeliveryIInv, Addressed, StatusAttested, Attested

\* A receipt shows on the message it is about, and on no other.
LEMMA UpdateStatusInv ==
  ASSUME DeliveryIInv, NEW h \in Handlers, UpdateStatus(h)
  PROVE  DeliveryIInv'
<1> USE DEF DeliveryIInv
<1> DEFINE r == handler[h].receipt
<1>1. UNCHANGED <<job, work, message, provider_message_id, outgoing, posted, decided,
                  delivery_events>>
  BY DEF UpdateStatus, vars
<1>2. r \in posted /\ r \in Receipt
  BY DEF UpdateStatus, DeliveryTypeOK
<1>3. handler' = [handler EXCEPT ![h] = [pc |-> "record", receipt |-> r]]
  <2>1. handler[h] = [pc |-> "update", receipt |-> r]
    BY DEF UpdateStatus, DeliveryTypeOK, Handler
  <2>2. [handler[h] EXCEPT !.pc = "record"] = [pc |-> "record", receipt |-> r]
    BY <2>1
  <2>3. handler' = [handler EXCEPT ![h] = [handler[h] EXCEPT !.pc = "record"]]
    BY DEF UpdateStatus, Goes
  <2> QED
    BY <2>2, <2>3, Zenon
<1>4. /\ handler' \in [Handlers -> Handler]
      /\ \A g \in Handlers : handler'[g].pc # "idle" => handler'[g].receipt \in posted'
  BY <1>1, <1>2, <1>3 DEF DeliveryTypeOK, Handler
<1>5. delivery_status' \in [Jobs -> Shown]
  BY DEF UpdateStatus, DeliveryTypeOK, Shown, Normalized
<1>6. DeliveryTypeOK'
  BY <1>1, <1>4, <1>5 DEF DeliveryTypeOK
<1>7. StatusAttested'
  <2> SUFFICES ASSUME NEW j \in Jobs PROVE StatusAttested!(j)'
    BY DEF StatusAttested
  <2>1. CASE j \in Addressed(r)
    <3>1. delivery_status'[j] = Normalized(r.status)
      BY <2>1 DEF UpdateStatus
    <3>2. message[j] = "sent" /\ Normalized(r.status) \in Attested(j)
      BY <1>2, <2>1, AddressedRows
    <3> QED
      BY <1>1, <3>1, <3>2 DEF StatusAttested, Attested
  <2>2. CASE j \notin Addressed(r)
    <3>1. delivery_status'[j] = delivery_status[j]
      BY <2>2 DEF UpdateStatus
    <3> QED
      BY <1>1, <3>1 DEF StatusAttested, Attested
  <2> QED
    BY <2>1, <2>2
<1>8. LogIsTrue' /\ DeliveredIsOutgoing' /\ MessageWithJob'
  BY <1>1 DEF LogIsTrue, Attested, DeliveredIsOutgoing, MessageWithJob
<1> QED
  BY <1>6, <1>7, <1>8

\* A receipt is logged once, under the message it is about.
LEMMA RecordReceiptInv ==
  ASSUME DeliveryIInv, NEW h \in Handlers, RecordReceipt(h)
  PROVE  DeliveryIInv'
<1> USE DEF DeliveryIInv
<1> DEFINE r == handler[h].receipt
           link == IF Addressed(r) = {} THEN NoJob ELSE CHOOSE j \in Addressed(r) : TRUE
           row == [message |-> r.message, status |-> Normalized(r.status), message_id |-> link]
<1>1. UNCHANGED <<job, work, message, delivery_status, provider_message_id, outgoing, posted,
                  decided>>
  BY DEF RecordReceipt, vars, columns
<1>2. r \in posted /\ r \in Receipt
  BY DEF RecordReceipt, DeliveryTypeOK
<1>3. handler' = [handler EXCEPT ![h] = [pc |-> "finish", receipt |-> r]]
  <2>1. handler[h] = [pc |-> "record", receipt |-> r]
    BY DEF RecordReceipt, DeliveryTypeOK, Handler
  <2>2. [handler[h] EXCEPT !.pc = "finish"] = [pc |-> "finish", receipt |-> r]
    BY <2>1
  <2>3. handler' = [handler EXCEPT ![h] = [handler[h] EXCEPT !.pc = "finish"]]
    BY DEF RecordReceipt, Goes
  <2> QED
    BY <2>2, <2>3, Zenon
<1>4. /\ handler' \in [Handlers -> Handler]
      /\ \A g \in Handlers : handler'[g].pc # "idle" => handler'[g].receipt \in posted'
  BY <1>1, <1>2, <1>3 DEF DeliveryTypeOK, Handler
<1>5. delivery_events' = IF Recorded(r) THEN delivery_events ELSE delivery_events \cup {row}
  BY DEF RecordReceipt
<1>6. link = NoJob \/ link \in Addressed(r)
  OBVIOUS
<1> HIDE DEF link
<1>7. row \in DeliveryEvent
  <2>1. Normalized(r.status) \in Shown /\ r.message \in MessageId
    BY <1>2 DEF Normalized, Shown, Receipt
  <2>2. link \in Jobs \cup {NoJob}
    BY <1>6 DEF Addressed
  <2> QED
    BY <2>1, <2>2 DEF DeliveryEvent
<1>8. DeliveryTypeOK'
  BY <1>1, <1>4, <1>5, <1>7 DEF DeliveryTypeOK
<1>9. LogIsTrue'
  <2>1. CASE Recorded(r)
    BY <1>1, <1>5, <2>1 DEF LogIsTrue, Attested
  <2>2. CASE ~Recorded(r)
    <3>1. \A d \in delivery_events : ~(d.message = row.message /\ d.status = row.status)
      BY <2>2 DEF Recorded
    <3>2. row.message_id # NoJob =>
            /\ message[row.message_id] = "sent"
            /\ row.message = <<row.message_id, provider_message_id[row.message_id]>>
            /\ row.status \in Attested(row.message_id)
      BY <1>2, <1>6, AddressedRows
    <3>3. delivery_events' = delivery_events \cup {row}
      BY <1>5, <2>2
    <3> HIDE DEF row
    <3>4. \A d \in delivery_events' : d.message_id # NoJob =>
            /\ message[d.message_id] = "sent"
            /\ d.message = <<d.message_id, provider_message_id[d.message_id]>>
            /\ d.status \in Attested(d.message_id)
      BY <3>2, <3>3 DEF LogIsTrue
    <3>5. \A d, e \in delivery_events' : d.message = e.message /\ d.status = e.status => d = e
      BY <3>1, <3>3 DEF LogIsTrue
    <3> QED
      BY <1>1, <3>4, <3>5 DEF LogIsTrue, Attested
  <2> QED
    BY <2>1, <2>2
<1>10. StatusAttested' /\ DeliveredIsOutgoing' /\ MessageWithJob'
  BY <1>1 DEF StatusAttested, Attested, DeliveredIsOutgoing, MessageWithJob
<1> QED
  BY <1>8, <1>9, <1>10

-----------------------------------------------------------------------------
\* DeliveryIInv is inductive, given the outbox's invariant.
LEMMA DeliveryNextInv ==
  DeliveryIInv /\ IInv /\ IInv' /\ [DeliveryNext]_dvars => DeliveryIInv'
<1> SUFFICES ASSUME DeliveryIInv, IInv, IInv', [DeliveryNext]_dvars PROVE DeliveryIInv'
  OBVIOUS
<1>1. CASE OutboxStep
  BY <1>1, EnqueueMessageInv, SendMessageInv, RecordDeliveryInv, OtherOutboxStepInv
     DEF OutboxStep
<1>2. ASSUME NEW m \in outgoing, NEW status \in Reports, Post(m, status) PROVE DeliveryIInv'
  <2>1. [message |-> m, status |-> status] \in Receipt
    BY DEF DeliveryIInv, DeliveryTypeOK, Receipt
  <2> QED
    BY <1>2, <2>1, QuietReceiptInv DEF Post, DeliveryIInv, DeliveryTypeOK
<1>3. ASSUME NEW h \in Handlers, NEW r \in posted, TakeReceipt(h, r) PROVE DeliveryIInv'
  <2>1. [pc |-> "update", receipt |-> r] \in Handler
    BY DEF DeliveryIInv, DeliveryTypeOK, Handler
  <2>2. /\ handler' \in [Handlers -> Handler]
        /\ \A g \in Handlers : handler'[g].pc # "idle" => handler'[g].receipt \in posted'
    BY <1>3, <2>1 DEF TakeReceipt, DeliveryIInv, DeliveryTypeOK
  <2>3. UNCHANGED <<vars, columns, outgoing, posted, decided, delivery_events>>
    BY <1>3 DEF TakeReceipt
  <2> QED
    BY <2>2, <2>3, QuietReceiptInv DEF DeliveryIInv, DeliveryTypeOK
<1>4. ASSUME NEW h \in Handlers, EndReceipt(h) PROVE DeliveryIInv'
  <2>1. /\ handler' \in [Handlers -> Handler]
        /\ \A g \in Handlers : handler'[g].pc # "idle" => handler'[g].receipt \in posted'
    BY <1>4 DEF EndReceipt, DeliveryIInv, DeliveryTypeOK, Handler
  <2>2. decided' \subseteq posted
    BY <1>4 DEF EndReceipt, DeliveryIInv, DeliveryTypeOK
  <2>3. UNCHANGED <<vars, columns, outgoing, posted, delivery_events>>
    BY <1>4 DEF EndReceipt
  <2> QED
    BY <2>1, <2>2, <2>3, QuietReceiptInv DEF DeliveryIInv, DeliveryTypeOK
<1>5. ASSUME NEW h \in Handlers, UpdateStatus(h) \/ RecordReceipt(h) PROVE DeliveryIInv'
  BY <1>5, UpdateStatusInv, RecordReceiptInv
<1>6. CASE UNCHANGED dvars
  BY <1>6, FrameInv DEF dvars, vars, webhooks, DeliveryIInv, DeliveryTypeOK, DeliveredIsOutgoing,
     MessageWithJob
<1> QED
  BY <1>1, <1>2, <1>3, <1>4, <1>5, <1>6 DEF DeliveryNext, ReceiptStep

\* DeliveryIInv holds in every reachable state.
THEOREM DeliveryInvariance == DeliverySpec => []DeliveryIInv
  BY DeliveryInitInv, DeliveryNextInv, OutboxInvariance, PTL DEF DeliverySpec

\* Every reachable state with receipts is well typed, the statuses that an agent reads
\* among those the code writes.
THEOREM DeliveryTypeCorrect == DeliverySpec => []DeliveryTypeOK
<1>1. DeliveryIInv => DeliveryTypeOK
  BY DEF DeliveryIInv
<1> QED
  BY <1>1, DeliveryInvariance, PTL

\* However sends, marks and receipts interleave, an agent reads of a message what the
\* outbox wrote, or what was reported of the very message that is linked to it.
THEOREM Attestation == DeliverySpec => []StatusAttested
<1>1. DeliveryIInv => StatusAttested
  BY DEF DeliveryIInv
<1> QED
  BY <1>1, DeliveryInvariance, PTL

\* The log has one row for each receipt, under the message it is about.
THEOREM LogTruth == DeliverySpec => []LogIsTrue
<1>1. DeliveryIInv => LogIsTrue
  BY DEF DeliveryIInv
<1> QED
  BY <1>1, DeliveryInvariance, PTL

\* markDelivered never overwrites the status of a receipt.
THEOREM MarksNeverRegress == DeliverySpec => MarkNeverRegresses
<1>1. ASSUME IInv, DeliveryIInv, [DeliveryNext]_dvars, NEW j \in Jobs,
             provider_message_id'[j] # provider_message_id[j]
      PROVE  delivery_status[j] = "queued" /\ delivery_status'[j] = "sent"
  <2>1. PICK w \in Workers : RecordDelivery(w)
    BY <1>1 DEF DeliveryNext, OutboxStep, ReceiptStep, EnqueueMessage, SendMessage, OtherOutboxStep,
       Post, TakeReceipt, UpdateStatus, RecordReceipt, EndReceipt, columns, dvars
  <2>2. message[j] = "queued" /\ delivery_status'[j] = "sent"
    BY <1>1, <2>1, RecordedColumns
  <2> QED
    BY <1>1, <2>2 DEF DeliveryIInv, StatusAttested
<1>2. IInv /\ DeliveryIInv /\ [DeliveryNext]_dvars =>
        [\A j \in Jobs : provider_message_id'[j] # provider_message_id[j] =>
            delivery_status[j] = "queued" /\ delivery_status'[j] = "sent"]_dvars
  BY <1>1
<1> QED
  BY <1>2, OutboxInvariance, DeliveryInvariance, PTL DEF DeliverySpec, MarkNeverRegresses
=============================================================================
