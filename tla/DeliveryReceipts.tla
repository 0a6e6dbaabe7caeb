-------------------------- MODULE DeliveryReceipts --------------------------
(***************************************************************************)
(* What an agent reads of an outgoing message: the outbox of Outbox        *)
(* together with the delivery receipts, which the provider posts for each  *)
(* message it accepted and processDelivery of webhook-processor.js writes  *)
(* over the same row.                                                      *)
(*                                                                         *)
(* processDelivery issues two statements outside any transaction.  Its     *)
(* event is at-least-once: it is processed again after a failure, or by a  *)
(* second worker after a takeover (WebhookQueue), and events are claimed   *)
(* in no particular order.  A message at the provider is named by the job  *)
(* and the lease under which it was sent, since a lease sends once.        *)
(***************************************************************************)
EXTENDS Outbox

CONSTANTS
  Handlers,   \* webhook workers, as far as they process receipts
  Reports     \* the statuses that the provider reports

ASSUME DeliveryAssumption == Reports \subseteq STRING

VARIABLES
  delivery_status,      \* conversation_messages.delivery_status, whoever wrote it last
  provider_message_id,  \* the lease of the message at the provider; 0 is null
  outgoing,             \* the messages that the provider accepted
  posted,               \* the receipts that the provider posted
  decided,              \* those whose webhook event is processed or dead-lettered
  delivery_events,      \* rows of delivery_events
  handler               \* the processDelivery of each handler

columns == <<delivery_status, provider_message_id>>
webhooks == <<posted, decided, delivery_events, handler>>
dvars == <<vars, columns, outgoing, webhooks>>

-----------------------------------------------------------------------------
MessageId == Jobs \X Nat

Receipt == [message : MessageId, status : Reports]

NormalizedAsReported(status) == status

\* A status the code does not know is taken for a failure.
Normalized(status) ==
  IF status \in {"sent", "delivered", "read", "failed"} THEN status ELSE "failed"

Shown == {"absent", "queued", "sent", "delivered", "read", "failed"}

\* Receipts are looked up by what the provider calls the message, so the row of
\* delivery_events has the provider's id and the normalized status for its key.
DeliveryEvent ==
  [message : MessageId, status : Shown, message_id : Jobs \cup {NoJob}]

\* At "update" and "record" the first and the second statement are next; at "finish"
\* the worker marks the event.
Handler ==
  [pc : {"update", "record", "finish"}, receipt : Receipt] \cup {[pc |-> "idle"]}

DeliveryInit ==
  /\ Init
  /\ delivery_status = [j \in Jobs |-> "absent"]
  /\ provider_message_id = [j \in Jobs |-> 0]
  /\ outgoing = {} /\ posted = {} /\ decided = {} /\ delivery_events = {}
  /\ handler = [h \in Handlers |-> [pc |-> "idle"]]

-----------------------------------------------------------------------------
(* The outbox, and what it writes of the message's row *)

EnqueueMessage(j) ==
  /\ Enqueue(j)
  /\ delivery_status' = [delivery_status EXCEPT ![j] = "queued"]
  /\ UNCHANGED <<provider_message_id, outgoing, webhooks>>

\* The provider accepts a message, which it will report on, heard or unheard.
SendMessage(w) ==
  /\ Accepts(w) \/ AcceptsUnheard(w)
  /\ outgoing' = outgoing \cup {<<work[w].job, work[w].lease_token>>}
  /\ UNCHANGED <<columns, webhooks>>

\* The second update of markDelivered: both columns of the message it reaches.  It
\* commits with the first, which is seen by what it did to message.
LinkMessage(w) ==
  /\ provider_message_id' =
       [j \in Jobs |-> IF j \in LinkedMessage(w) THEN work[w].lease_token
                       ELSE provider_message_id[j]]
  /\ delivery_status' =
       [j \in Jobs |-> IF j \in LinkedMessage(w) THEN "sent" ELSE delivery_status[j]]

RecordDelivery(w) ==
  /\ MarkDelivered(w) \/ MarkDeliveredThrows(w)
  /\ IF message' = message THEN UNCHANGED columns ELSE LinkMessage(w)
  /\ UNCHANGED <<outgoing, webhooks>>

OtherOutboxStep ==
  /\ \/ \E w \in Workers : \/ Poll(w) \/ Unsendable(w) \/ Rejects(w)
                           \/ MarkFailedRetry(w) \/ MarkFailedDead(w) \/ Crash(w)
     \/ \E j \in Jobs : BackoffElapses(j) \/ LeaseExpires(j)
  /\ UNCHANGED <<columns, outgoing, webhooks>>

-----------------------------------------------------------------------------
(* Receipts *)

\* The provider posts its receipts in order, "sent" first, and receive() stores them.
Post(m, status) ==
  LET r == [message |-> m, status |-> status] IN
  /\ m \in outgoing
  /\ r \notin posted
  /\ status # "sent" => [message |-> m, status |-> "sent"] \in posted
  /\ posted' = posted \cup {r}
  /\ UNCHANGED <<vars, columns, outgoing, decided, delivery_events, handler>>

\* A worker claims an undecided receipt, or takes it over from one that may be alive.
TakeReceipt(h, r) ==
  /\ handler[h].pc = "idle"
  /\ r \in posted \ decided
  /\ handler' = [handler EXCEPT ![h] = [pc |-> "update", receipt |-> r]]
  /\ UNCHANGED <<vars, columns, outgoing, posted, decided, delivery_events>>

Goes(h, pc) == handler' = [handler EXCEPT ![h].pc = pc]

AddressedByJob(r) == {r.message[1]}

\* The rows with the receipt's provider_message_id: at most one, and none before
\* markDelivered has stored the id.
Addressed(r) == {j \in Jobs : provider_message_id[j] # 0 /\ r.message = <<j, provider_message_id[j]>>}

\* update conversation_messages set delivery_status, whatever it was.
UpdateStatus(h) ==
  LET r == handler[h].receipt IN
  /\ handler[h].pc = "update"
  /\ delivery_status' =
       [j \in Jobs |-> IF j \in Addressed(r) THEN Normalized(r.status) ELSE delivery_status[j]]
  /\ Goes(h, "record")
  /\ UNCHANGED <<vars, provider_message_id, outgoing, posted, decided, delivery_events>>

NeverRecorded(r) == FALSE

\* The unique constraint on the provider's id and the status.
Recorded(r) ==
  \E d \in delivery_events : d.message = r.message /\ d.status = Normalized(r.status)

\* insert into delivery_events, the message looked up once more, on conflict do nothing.
RecordReceipt(h) ==
  LET r == handler[h].receipt
      link == IF Addressed(r) = {} THEN NoJob ELSE CHOOSE j \in Addressed(r) : TRUE
      row == [message |-> r.message, status |-> Normalized(r.status), message_id |-> link]
  IN /\ handler[h].pc = "record"
     /\ delivery_events' = IF Recorded(r) THEN delivery_events ELSE delivery_events \cup {row}
     /\ Goes(h, "finish")
     /\ UNCHANGED <<vars, columns, outgoing, posted, decided>>

\* The worker is done with the event, or a statement throws, whether or not it took
\* effect, or the worker dies.  It may decide the event, as processed or as its last
\* attempt, or leave it to be claimed or taken over again.
EndReceipt(h) ==
  /\ handler[h].pc # "idle"
  /\ decided' \in {decided, decided \cup {handler[h].receipt}}
  /\ handler' = [handler EXCEPT ![h] = [pc |-> "idle"]]
  /\ UNCHANGED <<vars, columns, outgoing, posted, delivery_events>>

-----------------------------------------------------------------------------
OutboxStep ==
  \/ \E j \in Jobs : EnqueueMessage(j)
  \/ \E w \in Workers : SendMessage(w) \/ RecordDelivery(w)
  \/ OtherOutboxStep

ReceiptStep ==
  \/ \E m \in outgoing, status \in Reports : Post(m, status)
  \/ \E h \in Handlers :
       \/ \E r \in posted : TakeReceipt(h, r)
       \/ UpdateStatus(h) \/ RecordReceipt(h) \/ EndReceipt(h)

DeliveryNext == OutboxStep \/ ReceiptStep

DeliverySpec == DeliveryInit /\ [][DeliveryNext]_dvars

-----------------------------------------------------------------------------
DeliveryTypeOK ==
  /\ delivery_status \in [Jobs -> Shown]
  /\ provider_message_id \in [Jobs -> Nat]
  /\ outgoing \subseteq MessageId
  /\ posted \subseteq Receipt
  /\ decided \subseteq posted
  /\ delivery_events \subseteq DeliveryEvent
  /\ handler \in [Handlers -> Handler]
  /\ \A h \in Handlers : handler[h].pc # "idle" => handler[h].receipt \in posted

\* What a message's own receipts say, the provider's id being the one that is stored.
Attested(j) ==
  {Normalized(r.status) : r \in {p \in posted : p.message = <<j, provider_message_id[j]>>}}

\* An agent never reads a status nobody vouches for: a message that is not settled as
\* sent shows what the outbox wrote; a sent one has the id of a message that the provider
\* accepted, and shows 'sent' or a status reported of that very message.  Receipts of an
\* earlier send of the same job, accepted without being heard, never show.
StatusAttested ==
  \A j \in Jobs :
    IF message[j] = "sent"
    THEN /\ <<j, provider_message_id[j]>> \in outgoing
         /\ delivery_status[j] \in {"sent"} \cup Attested(j)
    ELSE provider_message_id[j] = 0 /\ delivery_status[j] = message[j]

\* The log of receipts has one row for each id and status, however often a receipt is
\* processed, and a row that names a message names the one with that id.
LogIsTrue ==
  \A d \in delivery_events :
    /\ \A e \in delivery_events : d.message = e.message /\ d.status = e.status => d = e
    /\ d.message_id # NoJob =>
         /\ message[d.message_id] = "sent"
         /\ d.message = <<d.message_id, provider_message_id[d.message_id]>>
         /\ d.status \in Attested(d.message_id)

\* markDelivered, which writes 'sent' whatever the row says, never takes a receipt's
\* status back: no receipt can have reached the row before.
MarkNeverRegresses ==
  [][\A j \in Jobs : provider_message_id'[j] # provider_message_id[j] =>
        delivery_status[j] = "queued" /\ delivery_status'[j] = "sent"]_dvars

Rank == [s \in Shown |-> CASE s = "absent" -> 0 [] s = "queued" -> 1 [] s = "sent" -> 2
                           [] s = "delivered" -> 3 [] s = "read" -> 4 [] OTHER -> 5]

\* "Status transitions are monotonic ... queued -> sending -> sent -> delivered -> read".
StatusMonotonic ==
  [][\A j \in Jobs : Rank[delivery_status'[j]] >= Rank[delivery_status[j]]]_dvars
-----------------------------------------------------------------------------
(* Why the invariants hold *)

\* A worker about to record a delivery has the name of a message that was accepted.
DeliveredIsOutgoing ==
  \A w \in Workers : work[w].pc = "deliver" => <<work[w].job, work[w].lease_token>> \in outgoing

\* A message is there with its job, and the outbox never writes 'failed' on it: the
\* statement that would is the one that is always rejected.
MessageWithJob ==
  \A j \in Jobs :
    /\ message[j] = "absent" => job[j].status = "absent"
    /\ message[j] # "failed"

\* The inductive invariant, with IInv of the outbox.
DeliveryIInv ==
  /\ DeliveryTypeOK /\ StatusAttested /\ LogIsTrue
  /\ DeliveredIsOutgoing /\ MessageWithJob
=============================================================================
