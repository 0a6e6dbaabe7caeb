------------------------------ MODULE Realtime ------------------------------
(***************************************************************************)
(* The realtime stream of modules/realtime: the stored events, the route   *)
(* that replays them to a browser and registers its connection, the hub    *)
(* that fans new events out, the registry with its quotas and queues, and  *)
(* the browser's client of public/js/realtime-inbox.js.                    *)
(*                                                                         *)
(* Each SQL statement is a step; what JavaScript does between two awaits   *)
(* is one step with the await before it.  server.js mounts the route but   *)
(* calls neither publish nor prune, and no page creates the client: their  *)
(* callers here are those of the tests.  Frames reach the browser in the   *)
(* order of their writes; EventSource reconnects by itself with the id of  *)
(* the last frame it received, and gives up on any status but 200.         *)
(***************************************************************************)
EXTENDS Integers, Sequences, FiniteSets

CONSTANTS
  Events,         \* what is ever appended to the stream of one tenant
  Aggregates,
  Aggregate,      \* the aggregate of each event
  Version,        \* and its version
  Pages,          \* browser tabs
  Users,
  User,           \* the user of each page
  Audience,       \* the pages whose teams and capabilities each event asks for
  Publishers,     \* bound: calls of publish, each used once
  Connections,    \* bound: requests of /events, each used once
  MaxPerUser, MaxPerTenant,
  MaxQueueEvents,
  PageLimit,      \* the limit of a replay
  NoEvent, NoConnection

ASSUME RealtimeAssumption ==
  /\ Aggregate \in [Events -> Aggregates]
  /\ Version \in [Events -> Nat \ {0}]
  /\ User \in [Pages -> Users]
  /\ Audience \in [Events -> SUBSET Pages]
  /\ MaxPerUser \in Nat \ {0} /\ MaxPerTenant \in Nat \ {0}
  /\ MaxQueueEvents \in Nat \ {0} /\ PageLimit \in Nat \ {0}
  /\ IsFiniteSet(Events) /\ IsFiniteSet(Connections)
  /\ NoEvent \notin Events
  /\ NoConnection \notin Connections

VARIABLES
  sequence,    \* realtime_events.sequence of each event; 0 before the insert
  drawn,       \* the last sequence number drawn
  stored,      \* the rows of realtime_events that are committed
  expired,     \* those past their expires_at
  session,     \* whether the session of each user is good
  connection,  \* server side of each connection
  publisher,   \* each call of publish
  page         \* each browser tab

store == <<sequence, drawn, stored, expired>>
rvars == <<store, session, connection, publisher, page>>

-----------------------------------------------------------------------------
Frame == [type : {"event"}, event : Events, id : Nat]
           \cup [type : {"reconcile", "revoked"}, event : {NoEvent}, id : Nat]

EventFrame(e) == [type |-> "event", event |-> e, id |-> sequence[e]]

\* The pc names the route's next statement.  open: the browser still reads.  handed is
\* history: the frames that the registry
\* was given for it.
Connection ==
  [pc : {"free", "current", "expiry", "select", "streaming", "ended", "refused", "thrown"},
   page : Pages \cup {NoConnection}, cursor : Nat, current : Nat, open : BOOLEAN,
   registered : BOOLEAN, blocked : BOOLEAN,
   replay : Seq(Frame), live : Seq(Frame), queue : Seq(Frame), handed : Seq(Frame)]

Free == [pc |-> "free", page |-> NoConnection, cursor |-> 0, current |-> 0, open |-> FALSE,
         registered |-> FALSE, blocked |-> FALSE,
         replay |-> <<>>, live |-> <<>>, queue |-> <<>>, handed |-> <<>>]

\* A connection of the same browser at another point of its life.
At(pc, k) == [Free EXCEPT !.pc = pc, !.page = k.page, !.open = k.open]

\* What reaches the socket.
Written(k) == k.replay \o k.live

Publisher ==
  [pc : {"idle", "next", "answer", "done"}, event : Events \cup {NoEvent},
   todo : SUBSET Connections, to : Connections \cup {NoConnection}, allowed : BOOLEAN]

Idle == [pc |-> "idle", event |-> NoEvent, todo |-> {}, to |-> NoConnection, allowed |-> FALSE]

Done == [Idle EXCEPT !.pc = "done"]

\* source: the connection of the EventSource; closed: it gave up.  read counts the frames
\* of source that were received; lastEventId is the browser's own.  seenEventIds is the
\* range of applied.
Page ==
  [source : Connections \cup {NoConnection}, closed : BOOLEAN, read : Nat, lastEventId : Nat,
   versions : [Aggregates -> Nat], applied : Seq(Events)]

Loaded == [source |-> NoConnection, closed |-> FALSE, read |-> 0, lastEventId |-> 0,
           versions |-> [a \in Aggregates |-> 0], applied |-> <<>>]

RealtimeInit ==
  /\ sequence = [e \in Events |-> 0] /\ drawn = 0 /\ stored = {} /\ expired = {}
  /\ session = [u \in Users |-> TRUE]
  /\ connection = [c \in Connections |-> Free]
  /\ publisher = [b \in Publishers |-> Idle]
  /\ page = [p \in Pages |-> Loaded]

-----------------------------------------------------------------------------
(* The stored stream *)

\* Transactions over one aggregate are serialised by the lock on its row; others
\* commit in any order, whatever sequence they drew.
Insert(e) ==
  /\ sequence[e] = 0
  /\ \A d \in Events : Aggregate[d] = Aggregate[e] /\ sequence[d] # 0 => d \in stored \cup expired
  /\ drawn' = drawn + 1
  /\ sequence' = [sequence EXCEPT ![e] = drawn']
  /\ UNCHANGED <<stored, expired, session, connection, publisher, page>>

Commit(e) ==
  /\ sequence[e] # 0 /\ e \notin stored \cup expired
  /\ stored' = stored \cup {e}
  /\ UNCHANGED <<sequence, drawn, expired, session, connection, publisher, page>>

Expire(e) ==
  /\ e \in stored \ expired
  /\ expired' = expired \cup {e}
  /\ UNCHANGED <<sequence, drawn, stored, session, connection, publisher, page>>

Prune ==
  /\ stored \cap expired # {}
  /\ stored' = stored \ expired
  /\ UNCHANGED <<sequence, drawn, expired, session, connection, publisher, page>>

SignOut(u) ==
  /\ session[u]
  /\ session' = [session EXCEPT ![u] = FALSE]
  /\ UNCHANGED <<store, connection, publisher, page>>

-----------------------------------------------------------------------------
(* The registry *)

Registered == {c \in Connections : connection[c].registered}

ConnectionCount(u) == Cardinality({c \in Registered : User[connection[c].page] = u})

\* What register checks once more, for its user and for the tenant.
QuotaUnchecked(u) == TRUE

QuotaFree(u) == ConnectionCount(u) < MaxPerUser /\ Cardinality(Registered) < MaxPerTenant

EndedStaysRegistered(k) == [k EXCEPT !.pc = "ended"]

\* terminate and the 'close' event both remove a connection; its queue is dropped.
Ended(k) == [k EXCEPT !.pc = "ended", !.registered = FALSE]

\* A queue of MaxQueueEvents ends a connection; so may the bytes of a shorter one.
OverflowDropsFrame(k) == k

Overflowed(k) == Ended(k)

TakenAfterClose(k) == k.pc \in {"streaming", "ended"}

Takes(k) == k.registered

\* What a connection can become when a frame is sent to it.  Writing to a socket that is
\* gone is refused like writing to a full one.
Sent(k, f) ==
  LET given == [k EXCEPT !.handed = Append(@, f)]
      queued == [given EXCEPT !.queue = Append(@, f)]
  IN CASE ~Takes(k) -> {k}
       [] Takes(k) /\ k.blocked ->
            {Overflowed(given)} \cup {q \in {queued} : Len(k.queue) < MaxQueueEvents}
       [] Takes(k) /\ ~k.blocked /\ k.open ->
            {[given EXCEPT !.live = Append(@, f), !.blocked = full] : full \in BOOLEAN}
       [] OTHER -> {[given EXCEPT !.blocked = TRUE]}

\* The 'drain' event: queued frames are written until a write says the socket is full.
Drain(c) ==
  LET k == connection[c]
      Flushed(n) == [k EXCEPT !.live = @ \o SubSeq(k.queue, 1, n),
                              !.queue = SubSeq(@, n + 1, Len(@))]
  IN /\ k.registered /\ k.open /\ k.blocked
     /\ \E n \in 0..Len(k.queue), full \in BOOLEAN :
          /\ full => n > 0
          /\ ~full => n = Len(k.queue)
          /\ connection' = [connection EXCEPT ![c] = [Flushed(n) EXCEPT !.blocked = full]]
     /\ UNCHANGED <<store, session, publisher, page>>

-----------------------------------------------------------------------------
(* The route *)

\* The browser connects; authentication, and the first look at the quota.
Connect(p, c) ==
  /\ page[p].source = NoConnection /\ ~page[p].closed
  /\ connection[c].pc = "free"
  /\ IF session[User[p]] /\ ConnectionCount(User[p]) < MaxPerUser
     THEN /\ connection' = [connection EXCEPT ![c] =
                [Free EXCEPT !.pc = "current", !.page = p, !.open = TRUE,
                             !.cursor = page[p].lastEventId]]
          /\ page' = [page EXCEPT ![p].source = c, ![p].read = 0]
     ELSE /\ page' = [page EXCEPT ![p].closed = TRUE]
          /\ UNCHANGED connection
  /\ UNCHANGED <<store, session, publisher>>

\* 409 and 503, by which an EventSource gives up.
Refuse(c) ==
  LET p == connection[c].page IN
  /\ connection' = [connection EXCEPT ![c] = [At("refused", @) EXCEPT !.open = FALSE]]
  /\ page' = IF page[p].source = c
             THEN [page EXCEPT ![p].source = NoConnection, ![p].closed = TRUE]
             ELSE page

\* max(sequence), and 0 of an empty stream; a set of one number.
CurrentSequence == {n \in {0} \cup {sequence[e] : e \in stored} :
                      \A e \in stored : sequence[e] <= n}

ReadCurrent(c) ==
  /\ connection[c].pc = "current"
  /\ \E n \in CurrentSequence :
       IF connection[c].cursor > n
       THEN Refuse(c)
       ELSE /\ connection' = [connection EXCEPT ![c].pc = "expiry", ![c].current = n]
            /\ UNCHANGED page
  /\ UNCHANGED <<store, session, publisher>>

After(c) == {e \in stored : sequence[e] > connection[c].cursor}

\* An expired row after the cursor ends the stream with an instruction to reconcile.
CheckExpiry(c) ==
  LET reconcile == [type |-> "reconcile", event |-> NoEvent, id |-> connection[c].current] IN
  /\ connection[c].pc = "expiry"
  /\ connection' =
       IF After(c) \cap expired = {}
       THEN [connection EXCEPT ![c].pc = "select"]
       ELSE [connection EXCEPT ![c] = [At("ended", @) EXCEPT !.replay = <<reconcile>>]]
  /\ UNCHANGED <<store, session, publisher, page>>

DatabaseFails(c) ==
  /\ connection[c].pc \in {"current", "expiry", "select"}
  /\ Refuse(c)
  /\ UNCHANGED <<store, session, publisher>>

\* audienceAllows, and the same filter in replayEvents.
Hears(p, e) == p \in Audience[e]

\* The first PageLimit rows after the cursor, less those for another audience.
ReplayedEvents(c) ==
  LET rows == After(c) \ expired IN
  {e \in rows : /\ Cardinality({d \in rows : sequence[d] < sequence[e]}) < PageLimit
                /\ Hears(connection[c].page, e)}

\* Their frames in the order of the sequence; a set of one list.
Replayed(c) ==
  LET S == ReplayedEvents(c)
      InOrder(s) == \A i, j \in DOMAIN s : i < j => sequence[s[i]] < sequence[s[j]]
  IN {[i \in 1..Cardinality(S) |-> EventFrame(s[i])] :
        s \in {r \in [1..Cardinality(S) -> S] : InOrder(r)}}

\* The rest is one step: the frames are written, and the connection registered at current,
\* were it closed meanwhile.  When register throws, the headers are out and nobody catches
\* the rejection, so the process goes down, with every connection and every publish.
SelectAndRegister(c) ==
  LET old == connection[c]
      Begun(pc, frames) == [At(pc, old) EXCEPT !.replay = IF old.open THEN frames ELSE <<>>]
      Alive(d) == connection[d].pc \notin {"free", "refused"}
  IN /\ connection[c].pc = "select"
     /\ \E frames \in Replayed(c) :
          IF QuotaFree(User[old.page])
          THEN /\ connection' = [connection EXCEPT ![c] =
                                   [Begun("streaming", frames) EXCEPT !.registered = TRUE]]
               /\ UNCHANGED publisher
          ELSE /\ connection' = [d \in Connections |->
                     IF d = c THEN Begun("thrown", frames)
                     ELSE IF Alive(d) THEN Ended(connection[d]) ELSE connection[d]]
               /\ publisher' = [b \in Publishers |->
                                 IF publisher[b].pc = "idle" THEN publisher[b] ELSE Done]
     /\ UNCHANGED <<store, session, page>>

-----------------------------------------------------------------------------
(* publish: the connections there are when it starts, each asked about in turn *)

Publish(b, e) ==
  /\ publisher[b].pc = "idle"
  /\ e \in stored
  /\ publisher' = [publisher EXCEPT ![b] =
       [Idle EXCEPT !.pc = "next", !.event = e,
                      !.todo = {c \in Registered : Hears(connection[c].page, e)}]]
  /\ UNCHANGED <<store, session, connection, page>>

\* The statement that authorizes the session; a failed one ends the call.
Authorize(b, c) ==
  /\ publisher[b].pc = "next" /\ c \in publisher[b].todo
  /\ publisher' = [publisher EXCEPT ![b] =
       [@ EXCEPT !.pc = "answer", !.todo = publisher[b].todo \ {c}, !.to = c,
                 !.allowed = session[User[connection[c].page]]]]
  /\ UNCHANGED <<store, session, connection, page>>

PublishEnds(b) ==
  /\ \/ publisher[b].pc = "next" /\ publisher[b].todo = {}
     \/ publisher[b].pc = "answer"
  /\ publisher' = [publisher EXCEPT ![b] = Done]
  /\ UNCHANGED <<store, session, connection, page>>

Deliver(b) ==
  LET c == publisher[b].to
      revoked == [type |-> "revoked", event |-> NoEvent, id |-> sequence[publisher[b].event]]
  IN /\ publisher[b].pc = "answer"
     /\ \E k \in IF publisher[b].allowed
                 THEN Sent(connection[c], EventFrame(publisher[b].event))
                 ELSE {IF q.registered THEN Ended(q) ELSE q : q \in Sent(connection[c], revoked)} :
          connection' = [connection EXCEPT ![c] = k]
     /\ publisher' = [publisher EXCEPT ![b] = [@ EXCEPT !.pc = "next", !.to = NoConnection, !.allowed = FALSE]]
     /\ UNCHANGED <<store, session, page>>

-----------------------------------------------------------------------------
(* The browser *)

NotSeen(q, e) == e \notin {q.applied[i] : i \in DOMAIN q.applied}

\* Neither seen before nor older than what is known of its aggregate.
Newer(q, e) ==
  /\ NotSeen(q, e)
  /\ Version[e] > q.versions[Aggregate[e]]

\* receive() returns early from a frame that names no aggregate.
Received(q, f) ==
  LET got == [q EXCEPT !.read = @ + 1, !.lastEventId = f.id] IN
  IF f.type = "event" /\ Newer(q, f.event)
  THEN [got EXCEPT !.applied = Append(@, f.event),
                   !.versions = [@ EXCEPT ![Aggregate[f.event]] = Version[f.event]]]
  ELSE got

Receive(p) ==
  LET k == connection[page[p].source] IN
  /\ page[p].source # NoConnection
  /\ page[p].read < Len(Written(k))
  /\ page' = [page EXCEPT ![p] = Received(@, Written(k)[page[p].read + 1])]
  /\ UNCHANGED <<store, session, connection, publisher>>

\* The connection breaks or the server ended it, and the browser will reconnect; or the
\* tab is loaded anew.  Only a registered connection hears of it.
Leave(p) ==
  LET c == page[p].source IN
  /\ c # NoConnection
  /\ page' \in {[page EXCEPT ![p].source = NoConnection, ![p].read = 0],
                [page EXCEPT ![p] = Loaded]}
  /\ connection' = [connection EXCEPT ![c] =
       [IF @.pc \in {"current", "expiry", "select"} THEN @ ELSE At("ended", @) EXCEPT !.open = FALSE]]
  /\ UNCHANGED <<store, session, publisher>>

Reload(p) ==
  /\ page[p].closed
  /\ page' = [page EXCEPT ![p] = Loaded]
  /\ UNCHANGED <<store, session, connection, publisher>>

-----------------------------------------------------------------------------
RealtimeNext ==
  \/ \E e \in Events : Insert(e) \/ Commit(e) \/ Expire(e)
  \/ Prune
  \/ \E u \in Users : SignOut(u)
  \/ \E c \in Connections :
       \/ Drain(c) \/ ReadCurrent(c) \/ CheckExpiry(c) \/ SelectAndRegister(c)
       \/ DatabaseFails(c)
       \/ \E p \in Pages : Connect(p, c)
       \/ \E b \in Publishers : Authorize(b, c)
  \/ \E b \in Publishers :
       \/ \E e \in Events : Publish(b, e)
       \/ PublishEnds(b) \/ Deliver(b)
  \/ \E p \in Pages : Receive(p) \/ Leave(p) \/ Reload(p)

RealtimeSpec == RealtimeInit /\ [][RealtimeNext]_rvars
-----------------------------------------------------------------------------
RealtimeTypeOK ==
  /\ sequence \in [Events -> 0..drawn] /\ drawn \in Nat
  /\ stored \subseteq Events /\ expired \subseteq Events
  /\ session \in [Users -> BOOLEAN]
  /\ connection \in [Connections -> Connection]
  /\ \A c \in Connections : connection[c].registered <=> connection[c].pc = "streaming"
  /\ publisher \in [Publishers -> Publisher]
  /\ page \in [Pages -> Page]

\* The quotas of a user and of the tenant hold, though the route looks at them before it
\* waits for the database twice and other requests are registered meanwhile.
QuotaHeld ==
  /\ \A u \in Users : ConnectionCount(u) <= MaxPerUser
  /\ Cardinality(Registered) <= MaxPerTenant

\* A browser that still reads gets the frames that publish sent its connection in that
\* order and without a gap, written or waiting; a connection that could not keep up is
\* ended and never thinned out.
StreamUnbroken ==
  \A c \in Connections :
    LET k == connection[c] IN
    k.open => IF k.registered THEN k.live \o k.queue = k.handed
              ELSE /\ Len(k.live) <= Len(k.handed)
                   /\ k.live = SubSeq(k.handed, 1, Len(k.live))

\* Once a connection was told that its permission is revoked it gets nothing more, though
\* other calls of publish asked earlier and were allowed.
RevokedIsFinal ==
  \A c \in Connections : \A i \in DOMAIN connection[c].live :
    connection[c].live[i].type = "revoked" =>
      i = Len(connection[c].live) /\ ~connection[c].registered

\* A page applies what it was meant to hear and what was committed, each event once and
\* each aggregate's in the order of versions, whatever replays repeat and concurrent
\* publishes reorder.
AppliedInOrder ==
  \A p \in Pages : \A i, j \in DOMAIN page[p].applied :
    LET d == page[p].applied[i]
        e == page[p].applied[j]
    IN /\ p \in Audience[d] /\ d \in stored \cup expired
       /\ i < j /\ Aggregate[d] = Aggregate[e] => Version[d] < Version[e]

\* "429: connection quota exceeded": a request beyond the quota is answered so, and never
\* fails after its headers were sent.
QuotaIsAnswered == \A c \in Connections : connection[c].pc # "thrown"
=============================================================================
