-------------------------------- MODULE Desk --------------------------------
(***************************************************************************)
(* The service desk of one customer of a Meta channel: inbound messages,   *)
(* processed in any order and at any time after they were written; agents  *)
(* who answer with free text or a template, each within what the page says *)
(* of the 24-hour window; and what closes, redacts or deletes their        *)
(* conversation meanwhile.                                                 *)
(*                                                                         *)
(* An agent's request reads the conversation, then checks the window, then *)
(* stores and enqueues the message in one transaction.  A message is named *)
(* by its time, and one without a time, which takes that of its            *)
(* processing, is left out.                                                *)
(***************************************************************************)
EXTENDS Naturals

CONSTANTS
  Agents,
  Conversations,    \* ids of conversations
  PrivacyRequests,
  MaxTime,          \* bound on the clock
  Window            \* CUSTOMER_SERVICE_WINDOW_MS, in units of the clock

ASSUME DeskAssumption == MaxTime \in Nat \ {0} /\ Window \in Nat \ {0}

VARIABLES
  clock,
  written,          \* times of messages the customer wrote, not yet processed
  conversation,     \* the rows of conversations
  inbound,          \* messages that were stored: conversation and time
  reply,            \* each agent's request
  queued,           \* what each agent enqueued last: conversation, kind, time of its check
  privacy           \* rows of privacy_requests

devars == <<clock, written, conversation, inbound, reply, queued, privacy>>
-----------------------------------------------------------------------------
Time == 0 .. MaxTime

NoConversation == [status |-> "none"]

\* "known" is whether contact_phone is there; time 0 is no last_inbound_at.
Conversation ==
  [status : {"open", "closed"}, known : BOOLEAN, created : Time, last_inbound : Time]

NoReply == [pc |-> "idle"]

Kind == {"text", "template"}

Checked == [pc : {"checked"}, conversation : Conversations, kind : Kind, at : Time]

Reply == [pc : {"loaded"}, conversation : Conversations, last_inbound : Time] \cup Checked

PrivacyRequest ==
  [kind : {"export", "anonymize", "delete"}, hold : BOOLEAN,
   status : {"open", "completed", "rejected"}]

NoPrivacyRequest == [status |-> "none"]

DeskInit ==
  /\ clock = 1
  /\ written = {} /\ inbound = {}
  /\ queued = [a \in Agents |-> NoReply]
  /\ conversation = [c \in Conversations |-> NoConversation]
  /\ reply = [a \in Agents |-> NoReply]
  /\ privacy = [p \in PrivacyRequests |-> NoPrivacyRequest]

Live == {c \in Conversations : conversation[c] # NoConversation}

\* The customer's: those with the phone the channel knows the customer by.
OfCustomer == {c \in Live : conversation[c].known}

-----------------------------------------------------------------------------
Tick ==
  /\ clock < MaxTime
  /\ clock' = clock + 1
  /\ UNCHANGED <<written, conversation, inbound, reply, queued, privacy>>

CustomerWrites ==
  /\ \A m \in inbound : m[2] # clock
  /\ written' = written \cup {clock}
  /\ UNCHANGED <<clock, conversation, inbound, reply, queued, privacy>>

\* The customer's open conversation, or a new one; its last_inbound_at becomes the time of
\* the message that is processed, be it older or newer.
ProcessInbound(t, c) ==
  LET open == {o \in OfCustomer : conversation[o].status = "open"}
      row == [status |-> "open", known |-> TRUE, last_inbound |-> t,
              created |-> IF c \in Live THEN conversation[c].created ELSE clock]
  IN /\ t \in written
     /\ IF open # {} THEN c \in open ELSE c \notin {m[1] : m \in inbound}
     /\ written' = written \ {t}
     /\ conversation' = [conversation EXCEPT ![c] = row]
     /\ inbound' = inbound \cup {<<c, t>>}
     /\ UNCHANGED <<clock, reply, queued, privacy>>

-----------------------------------------------------------------------------
(* An agent's answer *)

LoadConversation(a, c) ==
  /\ reply[a] = NoReply
  /\ c \in Live
  /\ reply' = [reply EXCEPT ![a] = [pc |-> "loaded", conversation |-> c,
                                    last_inbound |-> conversation[c].last_inbound]]
  /\ UNCHANGED <<clock, written, conversation, inbound, queued, privacy>>

WindowOpenLate(last_inbound) == last_inbound # 0 /\ clock <= last_inbound + Window

WindowOpen(last_inbound) == last_inbound # 0 /\ clock < last_inbound + Window

\* Free text while the window is open, an approved template while it is not.
CheckWindow(a, kind) ==
  /\ reply[a].pc = "loaded"
  /\ WindowOpen(reply[a].last_inbound) <=> kind = "text"
  /\ reply' = [reply EXCEPT ![a] = [pc |-> "checked", conversation |-> reply[a].conversation,
                                    kind |-> kind, at |-> clock]]
  /\ UNCHANGED <<clock, written, conversation, inbound, queued, privacy>>

\* The insert of the message refers to the conversation, so it fails if that is gone; it
\* does not ask whether the conversation was closed or redacted since it was read.
EnqueueReply(a) ==
  /\ reply[a].pc = "checked"
  /\ reply[a].conversation \in Live
  /\ queued' = [queued EXCEPT ![a] = reply[a]]
  /\ reply' = [reply EXCEPT ![a] = NoReply]
  /\ UNCHANGED <<clock, written, conversation, inbound, privacy>>

\* Refused by the check, by the transaction, or lost.
ReplyFails(a) ==
  /\ reply[a] # NoReply
  /\ reply' = [reply EXCEPT ![a] = NoReply]
  /\ UNCHANGED <<clock, written, conversation, inbound, queued, privacy>>

-----------------------------------------------------------------------------
(* What agents, managers and the privacy service do to a conversation *)

UpdateStatus(c, status) ==
  /\ c \in Live
  /\ conversation' = [conversation EXCEPT ![c].status = status]
  /\ UNCHANGED <<clock, written, inbound, reply, queued, privacy>>

CreatePrivacyRequest(p, kind) ==
  /\ privacy[p] = NoPrivacyRequest
  /\ privacy' = [privacy EXCEPT ![p] = [kind |-> kind, hold |-> FALSE, status |-> "open"]]
  /\ UNCHANGED <<clock, written, conversation, inbound, reply, queued>>

\* The column legal_hold is set by nobody but the database's administrator.
HoldRequest(p) ==
  /\ privacy[p] # NoPrivacyRequest /\ ~ privacy[p].hold
  /\ privacy' = [privacy EXCEPT ![p].hold = TRUE]
  /\ UNCHANGED <<clock, written, conversation, inbound, reply, queued>>

Erased(kind, c) ==
  CASE kind = "export" -> conversation[c]
    [] kind = "anonymize" -> [conversation[c] EXCEPT !.known = FALSE]
    [] kind = "delete" -> NoConversation

\* One transaction over the locked request; the hold is asked before the status.
ProcessPrivacyRequest(p) ==
  /\ privacy[p] # NoPrivacyRequest
  /\ IF privacy[p].hold
     THEN /\ privacy' = [privacy EXCEPT ![p].status = "rejected"]
          /\ UNCHANGED conversation
     ELSE /\ privacy[p].status # "completed"
          /\ privacy' = [privacy EXCEPT ![p].status = "completed"]
          /\ conversation' =
               [c \in Conversations |-> IF c \in OfCustomer THEN Erased(privacy[p].kind, c)
                                        ELSE conversation[c]]
  /\ UNCHANGED <<clock, written, inbound, reply, queued>>

RunRetention(before) ==
  /\ conversation' =
       [c \in Conversations |-> IF c \in Live /\ conversation[c].created < before
                                THEN NoConversation ELSE conversation[c]]
  /\ UNCHANGED <<clock, written, inbound, reply, queued, privacy>>

-----------------------------------------------------------------------------
AnswerCustomer(a) ==
  \/ \E c \in Conversations : LoadConversation(a, c)
  \/ \E kind \in Kind : CheckWindow(a, kind)
  \/ EnqueueReply(a) \/ ReplyFails(a)

Protect(p) ==
  \/ \E kind \in {"export", "anonymize", "delete"} : CreatePrivacyRequest(p, kind)
  \/ HoldRequest(p) \/ ProcessPrivacyRequest(p)

DeskNext ==
  \/ Tick \/ CustomerWrites
  \/ \E t \in Time, c \in Conversations : ProcessInbound(t, c)
  \/ \E a \in Agents : AnswerCustomer(a)
  \/ \E c \in Conversations, s \in {"open", "closed"} : UpdateStatus(c, s)
  \/ \E p \in PrivacyRequests : Protect(p)
  \/ \E t \in Time : RunRetention(t)

DeskSpec == DeskInit /\ [][DeskNext]_devars

-----------------------------------------------------------------------------
DeskTypeOK ==
  /\ clock \in Time
  /\ written \subseteq Time
  /\ conversation \in [Conversations -> Conversation \cup {NoConversation}]
  /\ inbound \subseteq Conversations \X Time
  /\ reply \in [Agents -> Reply \cup {NoReply}]
  /\ queued \in [Agents -> Checked \cup {NoReply}]
  /\ privacy \in [PrivacyRequests -> PrivacyRequest \cup {NoPrivacyRequest}]

\* Messages processed late or out of order, reads that are stale when they are used, and
\* conversations that were redacted, deleted and made anew only ever close the window: a
\* free text that was enqueued was checked less than a window after the customer wrote.
WindowIsTrue ==
  \A a \in Agents : queued[a] # NoReply /\ queued[a].kind = "text" =>
    \E m \in inbound : /\ m[1] = queued[a].conversation
                       /\ m[2] <= queued[a].at /\ queued[a].at < m[2] + Window
=============================================================================
