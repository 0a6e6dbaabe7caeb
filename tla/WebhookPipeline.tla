-------------------------- MODULE WebhookPipeline --------------------------
(***************************************************************************)
(* Inbound messages from the provider's POST to the agent's inbox: the     *)
(* queue of WebhookQueue, with processInbound of webhook-processor.js in   *)
(* the place of its open processing step.                                  *)
(*                                                                         *)
(* processInbound is one PostgreSQL transaction at READ COMMITTED.  What   *)
(* it writes is visible at its commit, so its writes are one step with the *)
(* commit; the locks it takes on the way, and the reads it takes them for, *)
(* are steps of their own.  A transaction whose worker dies is rolled back.*)
(*                                                                         *)
(* Every event here is a message.  A conversation is named after the event *)
(* and the lease of the transaction that creates it, which is as fresh as  *)
(* the UUID the code draws.                                                *)
(***************************************************************************)
EXTENDS WebhookQueue

CONSTANTS
  Phones,   \* senders
  PhoneOf,  \* the sender of each event's message
  Seconds,  \* values of the providers' timestamps, which count whole seconds
  SecondOf  \* the timestamp of each event's message

ASSUME PipelineAssumption ==
  /\ PhoneOf \in [Events -> Phones]
  /\ SecondOf \in [Events -> Seconds]

VARIABLES
  conversation,  \* conversations, by name
  rows,          \* the conversations that each event's message rows are in
  published,     \* realtime_events: the conversation and aggregate_version of each
  txn            \* the transaction of each worker's processInbound

crm == <<conversation, rows, published>>
pvars == <<vars, crm, txn>>

-----------------------------------------------------------------------------
ConversationRow == [status : {"open", "closed"}, phone : Phones]

ConversationId == Events \X Nat

\* At "begun" the event's advisory lock is held and its message was not found; at
\* "finding" the select for an open conversation took its snapshot, and candidates are
\* the rows it has yet to lock; at "writing" conversation is locked, or new.
Txn ==
  [pc : {"none", "begun", "finding", "writing"}, conversation : ConversationId \cup {<<>>},
   candidates : SUBSET ConversationId]

NoTxn == [pc |-> "none", conversation |-> <<>>, candidates |-> {}]

PipelineInit ==
  /\ Init
  /\ conversation = <<>>
  /\ rows = [e \in Events |-> <<>>]
  /\ published = {}
  /\ txn = [w \in Workers |-> NoTxn]

-----------------------------------------------------------------------------
(* processInbound *)

NothingLocked(w) == TRUE

SessionLockFree(w) == rows[task[w].event] = <<>>

\* pg_advisory_xact_lock on the channel and the provider's event id.
LockFree(w) ==
  \A v \in Workers \ {w} : txn[v].pc # "none" => task[v].event # task[w].event

DuplicateByPhone(w) ==
  \E e \in Events : rows[e] # <<>> /\ PhoneOf[e] = PhoneOf[task[w].event]

\* Is the message already stored, for this channel and provider message id?
Duplicate(w) == rows[task[w].event] # <<>>

StepTxn(w, pc, c, candidates) ==
  txn' = [txn EXCEPT ![w] = [pc |-> pc, conversation |-> c, candidates |-> candidates]]

TxnLeaked(w) == UNCHANGED txn

\* The end of a transaction, whatever its outcome.
EndTxn(w) == txn' = [txn EXCEPT ![w] = NoTxn]

\* begin, take the lock, look for the message: it is there, so roll back and return.
SkipDuplicate(w) ==
  /\ Finish(w, "processed")
  /\ txn[w].pc = "none"
  /\ LockFree(w)
  /\ Duplicate(w)
  /\ UNCHANGED <<crm, txn>>

\* The same, and the message is not there.
BeginInbound(w) ==
  /\ task[w].pc = "process"
  /\ txn[w].pc = "none"
  /\ LockFree(w)
  /\ ~Duplicate(w)
  /\ StepTxn(w, "begun", <<>>, {})
  /\ UNCHANGED <<vars, crm>>

Open(c, phone) == conversation[c].status = "open" /\ conversation[c].phone = phone

\* The snapshot of `select ... status='open' ... limit 1 for update`.
SelectConversation(w) ==
  /\ txn[w].pc = "begun"
  /\ StepTxn(w, "finding", <<>>,
             {c \in DOMAIN conversation : Open(c, PhoneOf[task[w].event])})
  /\ UNCHANGED <<vars, crm>>

RowLocked(c) == \E w \in Workers : txn[w].pc = "writing" /\ txn[w].conversation = c

\* The select waits for a row's lock, reads the row again under it, and passes over one
\* that was closed meanwhile.  The order is left open: rows come by updated_at, which is
\* when their last writer began.
LockConversation(w) ==
  /\ txn[w].pc = "finding"
  /\ \E c \in txn[w].candidates :
       /\ ~RowLocked(c)
       /\ IF Open(c, PhoneOf[task[w].event])
          THEN StepTxn(w, "writing", c, {})
          ELSE StepTxn(w, "finding", <<>>, txn[w].candidates \ {c})
  /\ UNCHANGED <<vars, crm>>

\* The select returns no row: this transaction will insert a conversation.
NoConversation(w) ==
  /\ txn[w].pc = "finding"
  /\ txn[w].candidates = {}
  /\ StepTxn(w, "writing", <<task[w].event, task[w].lease_token>>, {})
  /\ UNCHANGED <<vars, crm>>

\* aggregate_version is the message's timestamp in milliseconds.
Announcement(w) ==
  [conversation |-> txn[w].conversation, version |-> SecondOf[task[w].event]]

NeverConflicts(w) == FALSE

\* appendEvent has no on-conflict clause: unique(tenant, type, id, version) rejects it.
Conflicts(w) == Announcement(w) \in published

\* The conversations with c among them, inserted as open unless it was found.
WithConversation(c, phone) ==
  [d \in DOMAIN conversation \cup {c} |->
     IF d \in DOMAIN conversation THEN conversation[d] ELSE [status |-> "open", phone |-> phone]]

\* The inserts, the update and the commit.
Store(w) ==
  LET e == task[w].event
      c == txn[w].conversation
  IN /\ txn[w].pc = "writing"
     /\ ~Conflicts(w)
     /\ conversation' = WithConversation(c, PhoneOf[e])
     /\ rows' = [rows EXCEPT ![e] = Append(@, c)]
     /\ published' = published \cup {Announcement(w)}
     /\ EndTxn(w)

CommitInbound(w) == Store(w) /\ Finish(w, "processed")

\* The commit takes effect but its answer is lost, so processInbound throws.
CommitUnheard(w) == Store(w) /\ Finish(w, "failed")

\* The unique index rejects the realtime event; everything is rolled back.
RejectInbound(w) ==
  /\ txn[w].pc = "writing"
  /\ Conflicts(w)
  /\ EndTxn(w)
  /\ Finish(w, "failed")
  /\ UNCHANGED crm

\* No connection, or one that fails before the commit: rolled back.
AbortInbound(w) ==
  /\ EndTxn(w)
  /\ Finish(w, "failed")
  /\ UNCHANGED crm

PipelineCrash(w) ==
  /\ Crash(w)
  /\ EndTxn(w)
  /\ UNCHANGED crm

-----------------------------------------------------------------------------
\* POST /inbox/:id/status: one statement, which waits for the row's lock.
AgentSetsStatus(c, status) ==
  /\ ~RowLocked(c)
  /\ conversation' = [conversation EXCEPT ![c].status = status]
  /\ UNCHANGED <<vars, rows, published, txn>>

-----------------------------------------------------------------------------
\* processInbound as it goes when nothing fails.
Inbound(w) ==
  \/ SkipDuplicate(w) \/ BeginInbound(w)
  \/ SelectConversation(w) \/ NoConversation(w) \/ LockConversation(w)
  \/ CommitInbound(w) \/ RejectInbound(w)

Agent == \E c \in DOMAIN conversation, status \in {"open", "closed"} : AgentSetsStatus(c, status)

PipelineNext ==
  \/ QueueStep /\ UNCHANGED <<crm, txn>>
  \/ \E w \in Workers :
       Inbound(w) \/ CommitUnheard(w) \/ AbortInbound(w) \/ PipelineCrash(w)
  \/ Agent

PipelineSpec == PipelineInit /\ [][PipelineNext]_pvars

\* Transactions are not starved of the locks they wait for: PostgreSQL grants them in
\* the order of arrival.
PipelineFairness ==
  /\ \A w \in Workers :
       /\ WF_pvars(Claim(w) /\ UNCHANGED <<crm, txn>>)
       /\ WF_pvars(Mark(w) /\ UNCHANGED <<crm, txn>>)
       /\ SF_pvars(Inbound(w))
  /\ \A e \in Events :
       /\ WF_pvars(BackoffElapses(e) /\ UNCHANGED <<crm, txn>>)
       /\ WF_pvars(LeaseExpires(e) /\ UNCHANGED <<crm, txn>>)

PipelineFairSpec == PipelineSpec /\ PipelineFairness

\* The pipeline on a day on which nothing fails, nobody is slow and agents look on.
CalmNext ==
  \/ /\ \/ \E r \in Requests : Ingest(r)
        \/ \E w \in Workers : Claim(w) \/ MarkProcessed(w) \/ MarkFailed(w)
        \/ \E e \in Events : BackoffElapses(e)
     /\ UNCHANGED <<crm, txn>>
  \/ \E w \in Workers : Inbound(w)

CalmSpec == PipelineInit /\ [][CalmNext]_pvars
-----------------------------------------------------------------------------
PipelineTypeOK ==
  /\ DOMAIN conversation \subseteq ConversationId
  /\ \A c \in DOMAIN conversation : conversation[c] \in ConversationRow
  /\ rows \in [Events -> Seq(DOMAIN conversation)]
  /\ published \subseteq [conversation : DOMAIN conversation, version : Seconds]
  /\ txn \in [Workers -> Txn]
  /\ \A w \in Workers :
       /\ txn[w].pc # "none" => task[w].pc = "process"
       /\ txn[w].pc = "writing" <=> txn[w].conversation # <<>>

\* "one durable business effect", its upper half: however often an event is delivered,
\* taken over, retried or interrupted, at most one message row is stored for it.
OneMessagePerEvent == \A e \in Events : Len(rows[e]) <= 1

\* The other half: an event marked processed has its message stored, even if the worker
\* that stored it is not the one that marked it.
ProcessedIsStored == \A e \in Events : event[e].status = "processed" => rows[e] # <<>>

\* The announcement of a stored message.
AnnouncementOf(e) == [conversation |-> rows[e][1], version |-> SecondOf[e]]

\* Each stored message has a realtime event of its own in its conversation, and there
\* are no others: a browser that replays them misses nothing and invents nothing.
EveryMessageAnnounced ==
  LET stored == {e \in Events : rows[e] # <<>>} IN
  /\ published = {AnnouncementOf(e) : e \in stored}
  /\ \A d, e \in stored : d # e => AnnouncementOf(d) # AnnouncementOf(e)

\* "a new inbound message delivered more than once ... one durable business effect is
\* created": a decided event has its message stored.
OneDurableEffect == \A e \in Events : event[e].status \in Decided => Len(rows[e]) = 1

-----------------------------------------------------------------------------
(* Why the invariants hold *)

\* A transaction holds its event's advisory lock alone, and its message is not stored.
TxnUnderLock ==
  \A w \in Workers : txn[w].pc # "none" =>
    /\ rows[task[w].event] = <<>>
    /\ \A v \in Workers \ {w} : txn[v].pc # "none" => task[v].event # task[w].event

\* A worker about to mark its event processed knows its message to be stored.
FinishedIsStored ==
  \A w \in Workers : task[w].pc = "processed" => rows[task[w].event] # <<>>

\* The inductive invariant, with IInv of the queue.
PipelineIInv ==
  /\ PipelineTypeOK /\ TxnUnderLock /\ FinishedIsStored
  /\ OneMessagePerEvent /\ ProcessedIsStored /\ EveryMessageAnnounced
=============================================================================
