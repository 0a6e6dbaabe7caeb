--------------------------- MODULE PipelineProofs ---------------------------
(***************************************************************************)
(* Proofs about inbound processing, for any events, senders, timestamps    *)
(* and workers: the pipeline is a webhook queue, and stores and announces  *)
(* each message at most once.                                              *)
(***************************************************************************)
EXTENDS WebhookPipeline, WebhookProofs

USE PipelineAssumption DEF PipelineAssumption

-----------------------------------------------------------------------------
(* The pipeline is a webhook queue *)

\* Each step of the pipeline is a step of the queue, or none.
LEMMA StepIsQueueStep == [PipelineNext]_pvars => [Next]_vars
<1> SUFFICES ASSUME [PipelineNext]_pvars PROVE [Next]_vars
  OBVIOUS
<1>1. CASE QueueStep
  BY <1>1 DEF Next
<1>2. ASSUME NEW w \in Workers, Inbound(w) \/ CommitUnheard(w) \/ AbortInbound(w)
      PROVE  [Next]_vars
  <2>1. Process(w) \/ UNCHANGED vars
    BY <1>2 DEF Inbound, CommitUnheard, AbortInbound, SkipDuplicate, BeginInbound,
       SelectConversation, NoConversation, LockConversation, CommitInbound, RejectInbound,
       Process
  <2> QED
    BY <2>1 DEF Next
<1>3. ASSUME NEW w \in Workers, PipelineCrash(w) PROVE [Next]_vars
  BY <1>3 DEF PipelineCrash, Next
<1>4. CASE Agent
  BY <1>4 DEF Agent, AgentSetsStatus
<1>5. CASE UNCHANGED pvars
  BY <1>5 DEF pvars
<1> QED
  BY <1>1, <1>2, <1>3, <1>4, <1>5 DEF PipelineNext

\* Whatever the pipeline does, its queue behaves as WebhookQueue says; what is proved of
\* the queue holds of the pipeline.
THEOREM PipelineIsQueue == PipelineSpec => Spec
<1>1. PipelineInit => Init
  BY DEF PipelineInit
<1> QED
  BY <1>1, StepIsQueueStep, PTL DEF PipelineSpec, Spec

\* In particular the queue's invariant.
LEMMA QueueInvariance == PipelineSpec => []IInv
  BY PipelineIsQueue, Invariance, PTL

-----------------------------------------------------------------------------
(* Messages *)

\* The initial state: nothing is stored, announced or begun.
LEMMA PipelineInitInv == PipelineInit => PipelineIInv
<1> SUFFICES ASSUME PipelineInit PROVE PipelineIInv
  OBVIOUS
<1>1. /\ \A e \in Events : rows[e] = <<>> /\ event[e].status = "absent"
      /\ \A w \in Workers : task[w] = Idle /\ txn[w] = NoTxn
      /\ conversation = <<>> /\ published = {}
  BY DEF PipelineInit, Init
<1>2. PipelineTypeOK
  <2>1. DOMAIN conversation = {}
    BY <1>1
  <2>2. rows \in [Events -> Seq(DOMAIN conversation)]
    BY DEF PipelineInit
  <2>3. txn \in [Workers -> Txn]
    BY DEF PipelineInit, NoTxn, Txn
  <2> QED
    BY <1>1, <2>1, <2>2, <2>3 DEF PipelineTypeOK, NoTxn
<1>3. TxnUnderLock /\ FinishedIsStored
  BY <1>1 DEF TxnUnderLock, FinishedIsStored, NoTxn, Idle
<1>4. OneMessagePerEvent /\ ProcessedIsStored /\ EveryMessageAnnounced
  BY <1>1 DEF OneMessagePerEvent, ProcessedIsStored, EveryMessageAnnounced
<1> QED
  BY <1>2, <1>3, <1>4 DEF PipelineIInv

\* The queue's own steps touch no message, and no worker in a transaction.
LEMMA QueueStepInv ==
  ASSUME IInv, PipelineIInv, QueueStep, UNCHANGED <<crm, txn>>
  PROVE  PipelineIInv'
<1> USE DEF PipelineIInv
<1>0. UNCHANGED <<conversation, rows, published, txn>>
  BY DEF crm
<1>1. \A w \in Workers : task[w].pc = "process" => task'[w] = task[w]
  BY DEF QueueStep, Ingest, InsertNext, Answer, LoseRequest, Claim, ClaimWebhook, Mark,
     MarkProcessed, MarkProcessedThrows, MarkFailed, BackoffElapses, LeaseExpires, IInv, TypeOK
<1>2. \A w \in Workers : task'[w].pc = "processed" => task'[w] = task[w]
  <2> SUFFICES ASSUME NEW w \in Workers, task'[w].pc = "processed" PROVE task'[w] = task[w]
    OBVIOUS
  <2>1. ASSUME NEW v \in Workers, Claim(v) \/ Mark(v) PROVE task'[w] = task[w]
    <3>1. CASE w = v
      <4>1. CASE Claim(v)
        <5>1. PICK e \in Events : ClaimWebhook(v, e)
          BY <4>1 DEF Claim
        <5>2. task'[v].pc = "process"
          BY <5>1 DEF ClaimWebhook, IInv, TypeOK
        <5> QED
          BY <3>1, <5>2
      <4>2. CASE MarkProcessed(v) \/ MarkFailed(v)
        <5>1. task'[v] = Idle
          BY <4>2 DEF MarkProcessed, MarkFailed, IInv, TypeOK
        <5> QED
          BY <3>1, <5>1 DEF Idle
      <4>3. CASE MarkProcessedThrows(v)
        <5>1. task[v] \in Task /\ task' = [task EXCEPT ![v].pc = "failed"]
          BY <4>3 DEF MarkProcessedThrows, IInv, TypeOK
        <5>2. task'[v].pc = "failed"
          BY <5>1 DEF IInv, TypeOK, Task
        <5> QED
          BY <3>1, <5>2
      <4> QED
        BY <2>1, <4>1, <4>2, <4>3 DEF Mark
    <3>2. CASE w # v
      BY <2>1, <3>2 DEF Claim, ClaimWebhook, Mark, MarkProcessed, MarkProcessedThrows,
         MarkFailed, IInv, TypeOK
    <3> QED
      BY <3>1, <3>2
  <2> QED
    BY <2>1 DEF QueueStep, Ingest, InsertNext, Answer, LoseRequest, BackoffElapses,
       LeaseExpires
<1>3. ASSUME NEW e \in Events, event'[e].status = "processed"
      PROVE  rows[e] # <<>>
  <2>1. CASE event[e].status = "processed"
    BY <2>1 DEF ProcessedIsStored
  <2>2. CASE event[e].status # "processed"
    <3>1. ASSUME NEW v \in Workers, MarkProcessed(v) \/ MarkProcessedThrows(v)
          PROVE  rows[e] # <<>>
      <4>1. task[v].event = e
        BY <1>3, <2>2, <3>1 DEF MarkProcessed, MarkProcessedThrows, RecordProcessed, IInv, TypeOK
      <4> QED
        BY <3>1, <4>1 DEF FinishedIsStored, MarkProcessed, MarkProcessedThrows
    <3>2. ASSUME NEW v \in Workers, MarkFailed(v)
          PROVE  FALSE
      <4>1. event'[e] = event[e] \/ event'[e] = Charged(v)
        BY <3>2 DEF MarkFailed, IInv, TypeOK
      <4>2. Charged(v).status \in {"failed", "dead_letter"}
        BY <3>2, ChargedRow DEF MarkFailed, FailedStatus
      <4> QED
        BY <1>3, <2>2, <4>1, <4>2
    <3>3. ASSUME NEW v \in Workers, Claim(v)
          PROVE  FALSE
      <4>1. PICK f \in Events : ClaimWebhook(v, f)
        BY <3>3 DEF Claim
      <4>2. event'[e] = event[e] \/ event'[e].status = "processing"
        BY <4>1 DEF ClaimWebhook, IInv, TypeOK, EventRow
      <4> QED
        BY <1>3, <2>2, <4>2
    <3>4. ASSUME NEW r \in Requests, Ingest(r) \/ LoseRequest(r)
          PROVE  FALSE
      <4>1. event'[e] = event[e] \/ event'[e].status = "pending"
        <5>1. CASE InsertNext(r)
          <6>1. \/ event' = event
                \/ event' = [event EXCEPT ![BatchOf[r][request[r].next]].status = "pending",
                                          ![BatchOf[r][request[r].next]].due = TRUE]
            BY <5>1 DEF InsertNext
          <6>2. event \in [Events -> EventRow]
            BY DEF IInv, TypeOK
          <6> QED
            BY <6>1, <6>2, SMTT(30) DEF EventRow
        <5>2. CASE Answer(r) \/ LoseRequest(r)
          BY <5>2 DEF Answer, LoseRequest
        <5> QED
          BY <3>4, <5>1, <5>2 DEF Ingest
      <4> QED
        BY <1>3, <2>2, <4>1
    <3>5. ASSUME NEW f \in Events, BackoffElapses(f) \/ LeaseExpires(f)
          PROVE  FALSE
      <4>1. event'[e].status = event[e].status
        <5>1. event' = [event EXCEPT ![f].due = TRUE] \/ event' = [event EXCEPT ![f].expired = TRUE]
          BY <3>5 DEF BackoffElapses, LeaseExpires
        <5>2. event \in [Events -> EventRow]
          BY DEF IInv, TypeOK
        <5> QED
          BY <5>1, <5>2 DEF EventRow
      <4> QED
        BY <1>3, <2>2, <4>1
    <3> QED
      BY <3>1, <3>2, <3>3, <3>4, <3>5 DEF QueueStep, Mark
  <2> QED
    BY <2>1, <2>2
<1>4. PipelineTypeOK'
  BY <1>0, <1>1 DEF PipelineTypeOK
<1>5. TxnUnderLock'
  <2>1. \A w \in Workers : txn[w].pc # "none" => task'[w] = task[w]
    BY <1>1 DEF PipelineTypeOK
  <2> QED
    BY <1>0, <2>1 DEF TxnUnderLock
<1>6. FinishedIsStored' /\ ProcessedIsStored'
  BY <1>0, <1>2, <1>3 DEF FinishedIsStored, ProcessedIsStored
<1>7. OneMessagePerEvent' /\ EveryMessageAnnounced'
  BY <1>0 DEF OneMessagePerEvent, EveryMessageAnnounced, AnnouncementOf
<1> QED
  BY <1>4, <1>5, <1>6, <1>7

\* A transaction goes on: it began with its message not stored and its event its own, or
\* it is further on. Nothing is written yet.
LEMMA StepTxnInv ==
  ASSUME PipelineIInv, NEW w \in Workers, NEW t \in Txn,
         t.pc # "none", t.pc = "writing" <=> t.conversation # <<>>,
         task[w].pc = "process",
         \/ txn[w].pc # "none"
         \/ LockFree(w) /\ ~Duplicate(w),
         txn' = [txn EXCEPT ![w] = t],
         UNCHANGED <<vars, crm>>
  PROVE  PipelineIInv'
<1> USE DEF PipelineIInv
<1>0. /\ UNCHANGED <<event, task, conversation, rows, published>>
      /\ txn'[w] = t /\ \A v \in Workers \ {w} : txn'[v] = txn[v]
      /\ txn' \in [Workers -> Txn]
  BY DEF vars, crm, PipelineTypeOK
<1>1. /\ rows[task[w].event] = <<>>
      /\ \A v \in Workers \ {w} : txn[v].pc # "none" => task[v].event # task[w].event
  BY DEF TxnUnderLock, LockFree, Duplicate
<1>2. PipelineTypeOK'
  BY <1>0 DEF PipelineTypeOK
<1>3. TxnUnderLock'
  BY <1>0, <1>1 DEF TxnUnderLock
<1>4. FinishedIsStored' /\ ProcessedIsStored'
  BY <1>0 DEF FinishedIsStored, ProcessedIsStored
<1>5. OneMessagePerEvent' /\ EveryMessageAnnounced'
  BY <1>0 DEF OneMessagePerEvent, EveryMessageAnnounced, AnnouncementOf
<1> QED
  BY <1>2, <1>3, <1>4, <1>5

\* A transaction ends with nothing written, and its worker goes to mark the event failed,
\* or dies.
LEMMA EndTxnInv ==
  ASSUME PipelineIInv, IInv, NEW w \in Workers, EndTxn(w),
         \/ Finish(w, "failed")
         \/ Crash(w),
         UNCHANGED crm
  PROVE  PipelineIInv'
<1> USE DEF PipelineIInv
<1>0. /\ UNCHANGED <<event, conversation, rows, published>>
      /\ txn'[w] = NoTxn /\ \A v \in Workers \ {w} : txn'[v] = txn[v]
      /\ NoTxn \in Txn /\ txn' \in [Workers -> Txn]
      /\ \A v \in Workers \ {w} : task'[v] = task[v]
  BY DEF crm, PipelineTypeOK, EndTxn, NoTxn, Txn, Finish, Crash, IInv, TypeOK
<1>1. task'[w].pc # "processed"
  BY DEF Finish, Crash, IInv, TypeOK, Idle, Task
<1>2. PipelineTypeOK'
  BY <1>0, SMTT(30) DEF PipelineTypeOK, NoTxn
<1>3. TxnUnderLock'
  BY <1>0 DEF TxnUnderLock, NoTxn
<1>4. FinishedIsStored' /\ ProcessedIsStored'
  BY <1>0, <1>1 DEF FinishedIsStored, ProcessedIsStored
<1>5. OneMessagePerEvent' /\ EveryMessageAnnounced'
  BY <1>0 DEF OneMessagePerEvent, EveryMessageAnnounced, AnnouncementOf
<1> QED
  BY <1>2, <1>3, <1>4, <1>5

\* A sequence of one.
LEMMA Singleton ==
  ASSUME NEW x
  PROVE  <<x>> # <<>> /\ Len(<<x>>) = 1 /\ <<x>>[1] = x
  OBVIOUS

\* The commit stores the message of an event that had none, and announces it as nothing
\* was announced before.
LEMMA StoreInv ==
  ASSUME PipelineIInv, IInv, NEW w \in Workers, Store(w),
         NEW pc \in {"processed", "failed"}, Finish(w, pc)
  PROVE  PipelineIInv'
<1> USE DEF PipelineIInv
<1>0. PICK e \in Events, c \in ConversationId :
        e = task[w].event /\ c = txn[w].conversation
  BY DEF Store, Finish, IInv, HandIsCurrent, PipelineTypeOK, Txn
<1>a. /\ e \in Events /\ c \in ConversationId /\ rows[e] = <<>>
      /\ \A v \in Workers \ {w} : txn[v].pc # "none" => task[v].event # e
      /\ task[w] \in Task /\ task[w].event = e /\ txn[w].conversation = c
  BY <1>0 DEF Store, IInv, TypeOK, TxnUnderLock
<1>b. /\ DOMAIN conversation' = DOMAIN conversation \cup {c}
      /\ \A d \in DOMAIN conversation : conversation'[d] = conversation[d]
      /\ c \notin DOMAIN conversation => conversation'[c] \in ConversationRow
  BY <1>a DEF Store, WithConversation, ConversationRow
<1>c. /\ rows'[e] # <<>> /\ Len(rows'[e]) = 1 /\ rows'[e][1] = c
      /\ \A f \in Events \ {e} : rows'[f] = rows[f]
      /\ rows' \in [Events -> Seq(DOMAIN conversation')]
  <2>1. rows' = [rows EXCEPT ![e] = Append(@, c)]
    BY <1>0 DEF Store
  <2>2. DOMAIN rows = Events
    BY DEF PipelineTypeOK
  <2>3. rows'[e] = <<c>> /\ \A f \in Events \ {e} : rows'[f] = rows[f]
    BY <1>a, <2>1, <2>2
  <2>4. \A f \in Events : rows[f] \in Seq(DOMAIN conversation')
    BY <1>b DEF PipelineTypeOK
  <2>5. <<c>> \in Seq(DOMAIN conversation')
    BY <1>b
  <2>6. rows'[e] # <<>> /\ Len(rows'[e]) = 1 /\ rows'[e][1] = c
    BY <2>3, Singleton
  <2> QED
    BY <2>1, <2>2, <2>3, <2>4, <2>5, <2>6
<1>d. /\ UNCHANGED event
      /\ task'[w].pc = pc /\ task'[w].event = e
      /\ \A v \in Workers \ {w} : task'[v] = task[v]
  BY <1>a DEF Finish, IInv, TypeOK, Task
<1>e. /\ txn'[w] = NoTxn /\ \A v \in Workers \ {w} : txn'[v] = txn[v]
      /\ txn' \in [Workers -> Txn]
  <2>1. NoTxn \in Txn
    BY DEF NoTxn, Txn
  <2> QED
    BY <2>1 DEF Store, EndTxn, PipelineTypeOK
<1>f. /\ published' = published \cup {Announcement(w)}
      /\ Announcement(w) \notin published
      /\ Announcement(w) = [conversation |-> c, version |-> SecondOf[e]]
  BY <1>0 DEF Store, Conflicts, Announcement
<1>1. PipelineTypeOK'
  <2>1. \A d \in DOMAIN conversation' : conversation'[d] \in ConversationRow
    BY <1>b DEF PipelineTypeOK
  <2>2. published' \subseteq [conversation : DOMAIN conversation', version : Seconds]
    BY <1>a, <1>b, <1>f DEF PipelineTypeOK
  <2>3. DOMAIN conversation' \subseteq ConversationId
    BY <1>a, <1>b DEF PipelineTypeOK
  <2>4. ASSUME NEW v \in Workers
        PROVE  /\ txn'[v].pc # "none" => task'[v].pc = "process"
               /\ txn'[v].pc = "writing" <=> txn'[v].conversation # <<>>
    <3>1. CASE v = w
      BY <1>e, <3>1 DEF NoTxn
    <3>2. CASE v # w
      BY <1>d, <1>e, <3>2 DEF PipelineTypeOK
    <3> QED
      BY <3>1, <3>2
  <2> QED
    BY <1>c, <1>e, <2>1, <2>2, <2>3, <2>4 DEF PipelineTypeOK
<1>2. TxnUnderLock'
  <2> SUFFICES ASSUME NEW u \in Workers, txn'[u].pc # "none"
               PROVE  /\ rows'[task'[u].event] = <<>>
                      /\ \A v \in Workers \ {u} :
                           txn'[v].pc # "none" => task'[v].event # task'[u].event
    BY DEF TxnUnderLock
  <2>1. u # w /\ txn[u].pc # "none" /\ task'[u] = task[u] /\ task[u].event # e
    BY <1>a, <1>d, <1>e DEF NoTxn
  <2>2. task[u].event \in Events /\ rows[task[u].event] = <<>>
    BY <2>1 DEF TxnUnderLock, PipelineTypeOK, IInv, HandIsCurrent
  <2>3. ASSUME NEW v \in Workers \ {u}, txn'[v].pc # "none"
        PROVE  task'[v].event # task'[u].event
    BY <1>d, <1>e, <2>1, <2>3 DEF TxnUnderLock, NoTxn
  <2> QED
    BY <1>c, <2>1, <2>2, <2>3
<1>3. FinishedIsStored'
  <2> SUFFICES ASSUME NEW v \in Workers, task'[v].pc = "processed"
               PROVE  rows'[task'[v].event] # <<>>
    BY DEF FinishedIsStored
  <2>1. CASE v = w
    BY <1>c, <1>d, <2>1
  <2>2. CASE v # w
    <3>1. task[v].event \in Events /\ rows[task[v].event] # <<>> /\ task'[v] = task[v]
      BY <1>d, <2>2 DEF FinishedIsStored, IInv, HandIsCurrent
    <3> QED
      BY <1>c, <3>1
  <2> QED
    BY <2>1, <2>2
<1>4. OneMessagePerEvent' /\ ProcessedIsStored'
  <2>1. ASSUME NEW f \in Events PROVE Len(rows'[f]) <= 1
    <3>1. CASE f = e
      <4>1. Len(rows'[f]) = 1
        BY <1>c, <3>1, Zenon
      <4> QED
        BY <4>1
    <3>2. CASE f # e
      <4>1. rows'[f] = rows[f]
        BY <1>c, <3>2
      <4> QED
        BY <4>1 DEF OneMessagePerEvent
    <3> QED
      BY <3>1, <3>2
  <2>2. \A f \in Events : event'[f].status = "processed" => rows'[f] # <<>>
    BY <1>c, <1>d DEF ProcessedIsStored
  <2> QED
    BY <2>1, <2>2 DEF OneMessagePerEvent, ProcessedIsStored
<1>5. EveryMessageAnnounced'
  <2>1. AnnouncementOf(e)' = Announcement(w)
    BY <1>c, <1>f DEF AnnouncementOf
  <2>2. \A f \in Events \ {e} : AnnouncementOf(f)' = AnnouncementOf(f)
    BY <1>c DEF AnnouncementOf
  <2>3. {f \in Events : rows'[f] # <<>>} = {f \in Events : rows[f] # <<>>} \cup {e}
    BY <1>a, <1>c
  <2>4. e \notin {f \in Events : rows[f] # <<>>}
    BY <1>a
  <2> DEFINE stored == {f \in Events : rows[f] # <<>>}
  <2>5. /\ published = {AnnouncementOf(f) : f \in stored}
        /\ \A d, f \in stored : d # f => AnnouncementOf(d) # AnnouncementOf(f)
    BY DEF EveryMessageAnnounced
  <2>6. \A f \in stored : AnnouncementOf(f)' = AnnouncementOf(f)
    BY <2>2, <2>4
  <2> HIDE DEF stored
  <2>7. \A d, f \in stored \cup {e} : d # f => AnnouncementOf(d)' # AnnouncementOf(f)'
    BY <1>f, <2>1, <2>5, <2>6
  <2>8. published' = {AnnouncementOf(f)' : f \in stored \cup {e}}
    BY <1>f, <2>1, <2>5, <2>6
  <2> QED
    BY <2>3, <2>7, <2>8 DEF EveryMessageAnnounced, stored
<1> QED
  BY <1>1, <1>2, <1>3, <1>4, <1>5

\* A redelivered message is found stored, and the worker goes to mark its event.
LEMMA SkipDuplicateInv ==
  ASSUME PipelineIInv, IInv, NEW w \in Workers, SkipDuplicate(w)
  PROVE  PipelineIInv'
<1> USE DEF PipelineIInv
<1>0. /\ UNCHANGED <<event, conversation, rows, published, txn>>
      /\ task'[w].event = task[w].event
      /\ \A v \in Workers \ {w} : task'[v] = task[v]
      /\ txn[w].pc = "none"
      /\ rows[task[w].event] # <<>>
  BY DEF SkipDuplicate, Duplicate, Finish, crm, IInv, TypeOK, Task
<1>a. \A v \in Workers : txn[v].pc # "none" => task'[v] = task[v]
  BY <1>0
<1>1. PipelineTypeOK' /\ TxnUnderLock'
  <2>1. PipelineTypeOK'
    BY <1>0, <1>a DEF PipelineTypeOK
  <2>2. TxnUnderLock'
    BY <1>0, <1>a DEF TxnUnderLock
  <2> QED
    BY <2>1, <2>2
<1>b. FinishedIsStored'
  <2> SUFFICES ASSUME NEW v \in Workers, task'[v].pc = "processed"
               PROVE  rows[task'[v].event] # <<>>
    BY <1>0 DEF FinishedIsStored
  <2>1. CASE v = w
    BY <1>0, <2>1
  <2>2. CASE v # w
    BY <1>0, <2>2 DEF FinishedIsStored
  <2> QED
    BY <2>1, <2>2
<1>2. OneMessagePerEvent' /\ ProcessedIsStored' /\ EveryMessageAnnounced'
  BY <1>0 DEF OneMessagePerEvent, ProcessedIsStored, EveryMessageAnnounced, AnnouncementOf
<1> QED
  BY <1>1, <1>b, <1>2

\* An agent changes the status of a conversation, and nothing else.
LEMMA AgentInv ==
  ASSUME PipelineIInv, Agent
  PROVE  PipelineIInv'
<1> USE DEF PipelineIInv
<1>1. PICK c \in DOMAIN conversation, status \in {"open", "closed"} : AgentSetsStatus(c, status)
  BY DEF Agent
<1>2. /\ UNCHANGED <<event, task, rows, published, txn>>
      /\ conversation' = [conversation EXCEPT ![c].status = status]
  BY <1>1 DEF AgentSetsStatus, vars
<1>3. /\ DOMAIN conversation' = DOMAIN conversation
      /\ \A d \in DOMAIN conversation : conversation'[d] \in ConversationRow
  BY <1>2 DEF PipelineTypeOK, ConversationRow
<1>4. PipelineTypeOK' /\ TxnUnderLock' /\ FinishedIsStored'
  BY <1>2, <1>3 DEF PipelineTypeOK, TxnUnderLock, FinishedIsStored
<1>5. OneMessagePerEvent' /\ ProcessedIsStored' /\ EveryMessageAnnounced'
  BY <1>2 DEF OneMessagePerEvent, ProcessedIsStored, EveryMessageAnnounced, AnnouncementOf
<1> QED
  BY <1>4, <1>5

-----------------------------------------------------------------------------
\* PipelineIInv is inductive, given the queue's invariant.
LEMMA PipelineNextInv == PipelineIInv /\ IInv /\ [PipelineNext]_pvars => PipelineIInv'
<1> SUFFICES ASSUME PipelineIInv, IInv, [PipelineNext]_pvars PROVE PipelineIInv'
  OBVIOUS
<1>1. CASE QueueStep /\ UNCHANGED <<crm, txn>>
  BY <1>1, QueueStepInv
<1>2. ASSUME NEW w \in Workers, Inbound(w) PROVE PipelineIInv'
  <2>0. /\ txn[w] \in Txn
        /\ txn[w].pc # "none" => task[w].pc = "process"
        /\ task[w].pc = "process" => task[w].event \in Events /\ task[w].lease_token \in Nat
    BY DEF PipelineIInv, PipelineTypeOK, IInv, HandIsCurrent, TypeOK, Task
  <2>1. CASE SkipDuplicate(w)
    BY <2>1, SkipDuplicateInv
  <2>2. CASE BeginInbound(w)
    <3> DEFINE t == [pc |-> "begun", conversation |-> <<>>, candidates |-> {}]
    <3>1. t \in Txn
      BY DEF Txn
    <3> QED
      BY <2>2, <3>1, StepTxnInv DEF BeginInbound, StepTxn
  <2>3. CASE SelectConversation(w)
    <3> DEFINE found == {c \in DOMAIN conversation : Open(c, PhoneOf[task[w].event])}
               t == [pc |-> "finding", conversation |-> <<>>, candidates |-> found]
    <3>1. t \in Txn
      BY DEF Txn, PipelineIInv, PipelineTypeOK
    <3>2. txn' = [txn EXCEPT ![w] = t] /\ txn[w].pc = "begun" /\ UNCHANGED <<vars, crm>>
      BY <2>3 DEF SelectConversation, StepTxn
    <3> HIDE DEF found
    <3> QED
      BY <2>0, <3>1, <3>2, StepTxnInv
  <2>4. CASE NoConversation(w)
    <3> DEFINE c == <<task[w].event, task[w].lease_token>>
               t == [pc |-> "writing", conversation |-> c, candidates |-> {}]
    <3>1. txn' = [txn EXCEPT ![w] = t] /\ txn[w].pc = "finding" /\ UNCHANGED <<vars, crm>>
      BY <2>4 DEF NoConversation, StepTxn
    <3>2. c \in ConversationId /\ c # <<>>
      BY <2>0, <3>1 DEF ConversationId
    <3>3. t \in Txn /\ (t.pc = "writing" <=> t.conversation # <<>>)
      BY <3>2 DEF Txn
    <3> HIDE DEF c
    <3> QED
      BY <2>0, <3>1, <3>3, StepTxnInv
  <2>5. CASE LockConversation(w)
    <3>1. PICK c \in txn[w].candidates :
            IF Open(c, PhoneOf[task[w].event])
            THEN StepTxn(w, "writing", c, {})
            ELSE StepTxn(w, "finding", <<>>, txn[w].candidates \ {c})
      BY <2>5 DEF LockConversation
    <3>2. /\ txn[w].pc = "finding" /\ UNCHANGED <<vars, crm>>
          /\ c \in ConversationId /\ c # <<>>
          /\ txn[w].candidates \subseteq ConversationId
      <4>1. txn[w].pc = "finding" /\ UNCHANGED <<vars, crm>>
        BY <2>5 DEF LockConversation
      <4>2. txn[w].candidates \subseteq ConversationId
        BY <2>0 DEF Txn
      <4>3. c \in ConversationId
        BY <3>1, <4>2
      <4>4. c # <<>>
        <5>1. PICK f \in Events, n \in Nat : c = <<f, n>>
          BY <4>3 DEF ConversationId
        <5>2. <<f, n>> # <<>>
          OBVIOUS
        <5> QED
          BY <5>1, <5>2, Zenon
      <4> QED
        BY <4>1, <4>2, <4>3, <4>4
    <3>3. PICK t \in Txn : /\ t.pc \in {"writing", "finding"}
                           /\ t.pc = "writing" <=> t.conversation # <<>>
                           /\ txn' = [txn EXCEPT ![w] = t]
      <4>1. [pc |-> "writing", conversation |-> c, candidates |-> {}] \in Txn
        BY <3>2 DEF Txn
      <4>2. [pc |-> "finding", conversation |-> <<>>, candidates |-> txn[w].candidates \ {c}] \in Txn
        BY <3>2 DEF Txn
      <4> QED
        BY <3>1, <3>2, <4>1, <4>2 DEF StepTxn
    <3> QED
      BY <2>0, <3>2, <3>3, StepTxnInv
  <2>6. CASE CommitInbound(w)
    BY <2>6, StoreInv DEF CommitInbound
  <2>7. CASE RejectInbound(w)
    BY <2>7, EndTxnInv DEF RejectInbound
  <2> QED
    BY <1>2, <2>1, <2>2, <2>3, <2>4, <2>5, <2>6, <2>7 DEF Inbound
<1>3. ASSUME NEW w \in Workers, CommitUnheard(w) PROVE PipelineIInv'
  BY <1>3, StoreInv DEF CommitUnheard
<1>4. ASSUME NEW w \in Workers, AbortInbound(w) \/ PipelineCrash(w) PROVE PipelineIInv'
  BY <1>4, EndTxnInv DEF AbortInbound, PipelineCrash
<1>5. CASE Agent
  BY <1>5, AgentInv
<1>6. CASE UNCHANGED pvars
  BY <1>6 DEF pvars, vars, crm, PipelineIInv, PipelineTypeOK, TxnUnderLock, FinishedIsStored,
     OneMessagePerEvent, ProcessedIsStored, EveryMessageAnnounced, AnnouncementOf
<1> QED
  BY <1>1, <1>2, <1>3, <1>4, <1>5, <1>6 DEF PipelineNext

\* PipelineIInv holds in every reachable state of the pipeline.
THEOREM PipelineInvariance == PipelineSpec => []PipelineIInv
  BY PipelineInitInv, PipelineNextInv, QueueInvariance, PTL DEF PipelineSpec

\* Every reachable state of the pipeline is well typed: transactions and the rows they
\* wait for, conversations, messages and their realtime events.
THEOREM PipelineTypeCorrect == PipelineSpec => []PipelineTypeOK
<1>1. PipelineIInv => PipelineTypeOK
  BY DEF PipelineIInv
<1> QED
  BY <1>1, PipelineInvariance, PTL

\* However often an event is delivered, retried, taken over or interrupted, at most one
\* message row is stored for it.
THEOREM AtMostOneMessage == PipelineSpec => []OneMessagePerEvent
<1>1. PipelineIInv => OneMessagePerEvent
  BY DEF PipelineIInv
<1> QED
  BY <1>1, PipelineInvariance, PTL

\* An event that is marked processed has its message stored.
THEOREM ProcessedMessageStored == PipelineSpec => []ProcessedIsStored
<1>1. PipelineIInv => ProcessedIsStored
  BY DEF PipelineIInv
<1> QED
  BY <1>1, PipelineInvariance, PTL

\* The realtime stream announces every stored message once, and nothing else.
THEOREM AnnouncedOnce == PipelineSpec => []EveryMessageAnnounced
<1>1. PipelineIInv => EveryMessageAnnounced
  BY DEF PipelineIInv
<1> QED
  BY <1>1, PipelineInvariance, PTL
=============================================================================
