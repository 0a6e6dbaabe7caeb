--------------------------- MODULE RealtimeProofs ---------------------------
(***************************************************************************)
(* Theorems about Realtime, for any pages, connections, events and calls   *)
(* of publish: the quotas hold, a stream has no gap, nothing follows a     *)
(* revocation, and a page applies versions in order.                       *)
(***************************************************************************)
EXTENDS Realtime, FiniteSetTheorems, TLAPS

Committed == stored \cup expired

\* What a step may do to a connection and leave those that refer to it right.
Kept(k, l) == k.pc # "free" => l.pc # "free" /\ l.page = k.page

\* A frame that the page of k may be shown, the events of S being committed.
Deliverable(k, f, S) == f.type = "event" => f.event \in S /\ k.page \in Audience[f.event]

\* What was written is the beginning of what was handed over; what waits is the rest, until
\* the connection ends.
Unbroken(k) ==
  k.open =>
    /\ Len(k.live) <= Len(k.handed)
    /\ \A i \in 1 .. Len(k.live) : k.live[i] = k.handed[i]
    /\ k.registered =>
         /\ Len(k.handed) = Len(k.live) + Len(k.queue)
         /\ \A i \in 1 .. Len(k.queue) : k.queue[i] = k.handed[Len(k.live) + i]

\* A revocation is the last frame of a stream and ends it.
Silenced(k) ==
  /\ \A i \in 1 .. Len(k.live) :
       k.live[i].type = "revoked" => i = Len(k.live) /\ ~k.registered
  /\ k.registered => \A i \in 1 .. Len(k.queue) : k.queue[i].type # "revoked"

\* Frames on their way are the page's to see; a socket that is not full has no queue.
Addressed(k, S) ==
  /\ k.pc # "free" => k.page \in Pages
  /\ k.registered /\ ~k.blocked => k.queue = <<>>
  /\ \A i \in 1 .. Len(k.replay) : Deliverable(k, k.replay[i], S)
  /\ \A i \in 1 .. Len(k.live) : Deliverable(k, k.live[i], S)
  /\ \A i \in 1 .. Len(k.queue) : Deliverable(k, k.queue[i], S)

Sound(k, S) ==
  /\ k \in Connection /\ (k.registered <=> k.pc = "streaming")
  /\ Unbroken(k) /\ Silenced(k) /\ Addressed(k, S)

ConnectionsAreSound == \A c \in Connections : Sound(connection[c], Committed)

\* A call of publish has in hand a committed event and connections that may hear it.
PublishersAreSound ==
  \A b \in Publishers : publisher[b].pc \in {"next", "answer"} =>
    /\ publisher[b].event \in Committed
    /\ publisher[b].pc = "answer" => publisher[b].to \in Connections
    /\ \A c \in publisher[b].todo \cup ({publisher[b].to} \ {NoConnection}) :
         /\ connection[c].pc # "free"
         /\ connection[c].page \in Audience[publisher[b].event]

\* A page reads its own connection.
SourcesAreTheirs ==
  \A p \in Pages : page[p].source # NoConnection =>
    /\ connection[page[p].source].pc # "free"
    /\ connection[page[p].source].page = p

\* versions bounds what was applied, so what is newer than it comes after.
VersionsBound ==
  \A p \in Pages : \A i \in 1 .. Len(page[p].applied) :
    Version[page[p].applied[i]] <= page[p].versions[Aggregate[page[p].applied[i]]]

RealtimeIInv ==
  /\ RealtimeTypeOK /\ QuotaHeld /\ AppliedInOrder
  /\ ConnectionsAreSound /\ PublishersAreSound /\ SourcesAreTheirs /\ VersionsBound

-----------------------------------------------------------------------------
(* Connections, one at a time *)

LEMMA Appended ==
  ASSUME NEW S, NEW s \in Seq(S), NEW x \in S
  PROVE  /\ Append(s, x) \in Seq(S) /\ Len(s) \in Nat /\ Len(Append(s, x)) = Len(s) + 1
         /\ Append(s, x)[Len(s) + 1] = x
         /\ \A i \in 1 .. Len(s) : Append(s, x)[i] = s[i]
  OBVIOUS

\* What follows the first a elements of g keeps following them when both grow by x.
LEMMA TailGrows ==
  ASSUME NEW a \in Nat, NEW b \in Nat, NEW n \in Nat, n = a + b,
         NEW g, NEW h, NEW q, NEW v, NEW x,
         h[n + 1] = x, \A i \in 1 .. n : h[i] = g[i],
         v[b + 1] = x, \A i \in 1 .. b : v[i] = q[i],
         \A i \in 1 .. b : q[i] = g[a + i]
  PROVE  \A i \in 1 .. b + 1 : v[i] = h[a + i]
<1> SUFFICES ASSUME NEW i \in 1 .. b + 1
             PROVE  v[i] = h[a + i]
  OBVIOUS
<1>1. CASE i = b + 1
  <2>1. a + i = n + 1
    BY <1>1
  <2> QED
    BY <1>1, <2>1
<1>2. CASE i # b + 1
  <2>1. i \in 1 .. b /\ a + i \in 1 .. n
    BY <1>2
  <2> QED
    BY <2>1
<1> QED
  BY <1>1, <1>2

\* A frame that waits keeps the queue the rest of what was handed over.
LEMMA QueuedCount ==
  ASSUME NEW S, NEW live \in Seq(S), NEW queue \in Seq(S), NEW handed \in Seq(S), NEW f \in S,
         Len(handed) = Len(live) + Len(queue)
  PROVE  /\ Len(live) <= Len(handed) /\ Len(live) <= Len(Append(handed, f))
         /\ Len(Append(handed, f)) = Len(live) + Len(Append(queue, f))
         /\ Len(Append(queue, f)) = Len(queue) + 1
  OBVIOUS

LEMMA QueuedIsTheRest ==
  \A live, queue, handed \in Seq(Frame), f \in Frame :
    /\ Len(handed) = Len(live) + Len(queue)
    /\ \A i \in 1 .. Len(queue) : queue[i] = handed[Len(live) + i]
    => \A i \in 1 .. Len(queue) + 1 :
         Append(queue, f)[i] = Append(handed, f)[Len(live) + i]
<1> SUFFICES ASSUME NEW live \in Seq(Frame), NEW queue \in Seq(Frame),
                    NEW handed \in Seq(Frame), NEW f \in Frame,
                    Len(handed) = Len(live) + Len(queue),
                    \A i \in 1 .. Len(queue) : queue[i] = handed[Len(live) + i]
             PROVE  \A i \in 1 .. Len(queue) + 1 :
                      Append(queue, f)[i] = Append(handed, f)[Len(live) + i]
  BY Zenon
<1> QED
  BY TailGrows

\* More committed events leave what was addressed rightly so.
LEMMA SoundGrows ==
  ASSUME NEW k, NEW S, NEW T, S \subseteq T, Sound(k, S)
  PROVE  Sound(k, T)
  BY DEF Sound, Addressed, Deliverable

LEMMA EmptyIsSound ==
  ASSUME NEW S, NEW k \in Connection, k.registered <=> k.pc = "streaming",
         k.live = <<>>, k.queue = <<>>, k.handed = <<>>, k.pc # "free" => k.page \in Pages,
         \A i \in 1 .. Len(k.replay) : Deliverable(k, k.replay[i], S)
  PROVE  Sound(k, S)
  BY DEF Sound, Unbroken, Silenced, Addressed

\* The end of a connection drops its queue and leaves the rest.
LEMMA EndedIsSound ==
  ASSUME NEW S, NEW k, Sound(k, S), k.pc # "free"
  PROVE  /\ Sound(Ended(k), S) /\ Kept(k, Ended(k)) /\ ~Ended(k).registered
         /\ Ended(k).pc # "free"
<1> DEFINE l == [k EXCEPT !.pc = "ended", !.registered = FALSE]
<1>1. /\ l \in Connection /\ l.pc = "ended" /\ l.registered = FALSE /\ l.page = k.page
      /\ l.live = k.live /\ l.queue = k.queue /\ l.handed = k.handed /\ l.replay = k.replay
      /\ l.open = k.open /\ l.blocked = k.blocked
  BY DEF Sound, Connection
<1>2. Ended(k) = l
  BY DEF Ended
<1> HIDE DEF l
<1>3. Unbroken(l) /\ Silenced(l) /\ Addressed(l, S)
  BY <1>1, ZenonT(30) DEF Sound, Unbroken, Silenced, Addressed, Deliverable
<1> QED
  BY <1>1, <1>2, <1>3 DEF Sound, Kept

\* A frame that is handed to a connection is written, waits, or ends it.  A revocation may
\* be the last of the queue until the connection is ended in the same step.
LEMMA SentIsSound ==
  ASSUME NEW S, NEW k, Sound(k, S), k.pc # "free", NEW f \in Frame, Deliverable(k, f, S),
         NEW l \in Sent(k, f)
  PROVE  /\ l \in Connection /\ (l.registered <=> l.pc = "streaming")
         /\ Unbroken(l) /\ Addressed(l, S) /\ Kept(k, l)
         /\ l.registered => k.registered
         /\ f.type # "revoked" => Silenced(l)
         /\ ~k.registered => l = k
         /\ \A i \in 1 .. Len(l.live) : l.live[i].type = "revoked" => i = Len(l.live)
<1> DEFINE given == [k EXCEPT !.handed = Append(@, f)]
           queued == [given EXCEPT !.queue = Append(@, f)]
           written(full) == [given EXCEPT !.live = Append(@, f), !.blocked = full]
           stuck == [given EXCEPT !.blocked = TRUE]
<1>1. /\ k \in Connection /\ (k.registered <=> k.pc = "streaming")
      /\ Unbroken(k) /\ Silenced(k) /\ Addressed(k, S)
  BY DEF Sound
<1>2. CASE ~k.registered
  <2>1. l = k
    BY <1>2 DEF Sent, Takes
  <2> QED
    BY <1>1, <1>2, <2>1 DEF Kept, Silenced
<1>3. CASE k.registered
  <2> DEFINE h == Append(k.handed, f)
             w == Append(k.live, f)
             v == Append(k.queue, f)
  <2>1. /\ k.live \in Seq(Frame) /\ k.queue \in Seq(Frame) /\ k.handed \in Seq(Frame)
        /\ k.registered \in BOOLEAN /\ k.blocked \in BOOLEAN /\ k.open \in BOOLEAN
    BY <1>1 DEF Connection
  <2>2. /\ given \in Connection /\ given.handed = h
        /\ given.pc = k.pc /\ given.page = k.page /\ given.open = k.open
        /\ given.registered = k.registered /\ given.blocked = k.blocked
        /\ given.replay = k.replay /\ given.live = k.live /\ given.queue = k.queue
    BY <1>1, <2>1, Appended DEF Connection
  <2> HIDE DEF given
  <2>3. \/ k.blocked /\ l = Ended(given)
        \/ k.blocked /\ l = queued
        \/ ~k.blocked /\ k.open /\ \E full \in BOOLEAN : l = written(full)
        \/ ~k.blocked /\ ~k.open /\ l = stuck
    BY <1>3, <2>1 DEF Sent, Takes, Overflowed, given
  <2>4. /\ h \in Seq(Frame) /\ Len(k.handed) \in Nat /\ Len(h) = Len(k.handed) + 1
        /\ h[Len(k.handed) + 1] = f /\ \A i \in 1 .. Len(k.handed) : h[i] = k.handed[i]
    BY <2>1, Appended
  <2>a. /\ w \in Seq(Frame) /\ Len(w) = Len(k.live) + 1
        /\ w[Len(k.live) + 1] = f /\ \A i \in 1 .. Len(k.live) : w[i] = k.live[i]
    BY <2>1, Appended
  <2>b. /\ v \in Seq(Frame) /\ Len(v) = Len(k.queue) + 1
        /\ v[Len(k.queue) + 1] = f /\ \A i \in 1 .. Len(k.queue) : v[i] = k.queue[i]
    BY <2>1, Appended
  <2>5. Len(k.live) \in Nat /\ Len(k.queue) \in Nat
    BY <2>1
  <2>c. k.open => /\ Len(k.live) <= Len(k.handed)
                  /\ \A i \in 1 .. Len(k.live) : k.live[i] = k.handed[i]
                  /\ Len(k.handed) = Len(k.live) + Len(k.queue)
                  /\ \A i \in 1 .. Len(k.queue) : k.queue[i] = k.handed[Len(k.live) + i]
    BY <1>1, <1>3 DEF Unbroken
  <2>6. CASE k.blocked /\ l = Ended(given)
    <3>1. /\ l \in Connection /\ l.pc = "ended" /\ l.registered = FALSE /\ l.page = k.page
          /\ l.live = k.live /\ l.queue = k.queue /\ l.handed = h
          /\ l.replay = k.replay /\ l.open = k.open
      BY <2>2, <2>6 DEF Ended, Connection
    <3> HIDE DEF h
    <3>2. Unbroken(l)
      <4> SUFFICES ASSUME k.open
                   PROVE  /\ Len(k.live) <= Len(h)
                          /\ \A i \in 1 .. Len(k.live) : k.live[i] = h[i]
        BY <3>1 DEF Unbroken
      <4> QED
        BY <2>4, <2>5, <2>c
    <3> QED
      BY <1>1, <1>3, <3>1, <3>2 DEF Silenced, Addressed, Deliverable, Kept
  <2>7. CASE k.blocked /\ l = queued
    <3>1. /\ l \in Connection /\ l.pc = k.pc /\ l.registered = k.registered /\ l.page = k.page
          /\ l.live = k.live /\ l.queue = v /\ l.handed = h
          /\ l.replay = k.replay /\ l.open = k.open /\ l.blocked = k.blocked
      BY <2>1, <2>2, <2>7, Appended DEF Connection
    <3> HIDE DEF h, v
    <3>3. Unbroken(l)
      <4> SUFFICES ASSUME k.open
                   PROVE  /\ Len(k.live) <= Len(h)
                          /\ \A i \in 1 .. Len(k.live) : k.live[i] = h[i]
                          /\ Len(h) = Len(k.live) + Len(v)
                          /\ \A i \in 1 .. Len(v) : v[i] = h[Len(k.live) + i]
        BY <3>1 DEF Unbroken
      <4>1. /\ Len(k.handed) = Len(k.live) + Len(k.queue)
            /\ \A i \in 1 .. Len(k.queue) : k.queue[i] = k.handed[Len(k.live) + i]
        BY <2>c
      <4>2. /\ Len(k.live) <= Len(k.handed) /\ Len(k.live) <= Len(h)
            /\ Len(h) = Len(k.live) + Len(v) /\ Len(v) = Len(k.queue) + 1
        BY <2>1, <4>1, QueuedCount DEF h, v
      <4>3. \A i \in 1 .. Len(k.queue) + 1 : v[i] = h[Len(k.live) + i]
        <5>1. \A i \in 1 .. Len(k.queue) + 1 :
                Append(k.queue, f)[i] = Append(k.handed, f)[Len(k.live) + i]
          BY <2>1, <4>1, QueuedIsTheRest, Zenon
        <5> QED
          BY <5>1 DEF h, v
      <4>4. \A i \in 1 .. Len(k.live) : k.live[i] = h[i]
        BY <2>4, <2>5, <2>c
      <4> QED
        BY <4>2, <4>3, <4>4
    <3>4. Addressed(l, S)
      <4>1. \A i \in 1 .. Len(v) : i = Len(k.queue) + 1 \/ i \in 1 .. Len(k.queue)
        BY <2>b, <2>5
      <4>2. \A i \in 1 .. Len(v) : Deliverable(l, v[i], S)
        BY <1>1, <2>b, <3>1, <4>1 DEF Addressed, Deliverable
      <4> QED
        <5>1. \A g : Deliverable(k, g, S) => Deliverable(l, g, S)
          BY <3>1 DEF Deliverable
        <5>2. /\ \A i \in 1 .. Len(l.replay) : Deliverable(l, l.replay[i], S)
              /\ \A i \in 1 .. Len(l.live) : Deliverable(l, l.live[i], S)
          BY <1>1, <3>1, <5>1 DEF Addressed
        <5>3. /\ l.pc # "free" => l.page \in Pages
              /\ l.registered /\ ~l.blocked => l.queue = <<>>
          BY <1>1, <2>7, <3>1 DEF Addressed
        <5> QED
          BY <3>1, <4>2, <5>2, <5>3 DEF Addressed
    <3>5. f.type # "revoked" => Silenced(l)
      BY <1>1, <1>3, <2>5, <3>1, <2>b DEF Silenced
    <3> QED
      BY <1>1, <1>3, <3>1, <3>3, <3>4, <3>5 DEF Silenced, Kept
  <2>8. CASE ~k.blocked /\ k.open /\ \E full \in BOOLEAN : l = written(full)
    <3> PICK full \in BOOLEAN : l = written(full)
      BY <2>8
    <3>1. /\ l \in Connection /\ l.pc = k.pc /\ l.registered = k.registered /\ l.page = k.page
          /\ l.live = w /\ l.queue = k.queue /\ l.handed = h
          /\ l.replay = k.replay /\ l.open = k.open
      BY <2>1, <2>2, Appended DEF Connection
    <3> HIDE DEF h, w
    <3>3. k.queue = <<>> /\ Len(k.queue) = 0
      BY <1>1, <1>3, <2>8 DEF Addressed
    <3>4. Unbroken(l)
      <4> SUFFICES ASSUME k.open
                   PROVE  /\ Len(w) <= Len(h)
                          /\ \A i \in 1 .. Len(w) : w[i] = h[i]
                          /\ Len(h) = Len(w) + Len(k.queue)
                          /\ \A i \in 1 .. Len(k.queue) : k.queue[i] = h[Len(w) + i]
        BY <3>1, ZenonT(30) DEF Unbroken
      <4>1. \A i \in 1 .. Len(w) : i = Len(k.live) + 1 \/ i \in 1 .. Len(k.live)
        BY <2>a, <2>5
      <4>2. Len(k.handed) = Len(k.live)
        BY <2>c, <2>5, <3>3
      <4> QED
        BY <2>4, <2>5, <2>a, <2>c, <3>3, <4>1, <4>2
    <3>5. Addressed(l, S)
      <4>1. \A g : Deliverable(k, g, S) => Deliverable(l, g, S)
        BY <3>1 DEF Deliverable
      <4>2. \A i \in 1 .. Len(w) : Deliverable(l, w[i], S)
        BY <1>1, <2>5, <3>1, <2>a, <4>1 DEF Addressed, Deliverable
      <4>3. \A i \in 1 .. Len(l.replay) : Deliverable(l, l.replay[i], S)
        BY <1>1, <3>1, <4>1 DEF Addressed
      <4>4. /\ l.pc # "free" => l.page \in Pages
            /\ l.queue = <<>>
        BY <1>1, <3>1, <3>3 DEF Addressed
      <4> QED
        BY <3>1, <3>3, <4>2, <4>3, <4>4 DEF Addressed
    <3>6. \A i \in 1 .. Len(k.live) : k.live[i].type # "revoked"
      BY <1>1, <1>3 DEF Silenced
    <3>7. f.type # "revoked" => Silenced(l)
      <4>1. \A i \in 1 .. Len(w) : i = Len(w) \/ i \in 1 .. Len(k.live)
        BY <2>a, <2>5
      <4>2. f.type # "revoked" => \A i \in 1 .. Len(w) : w[i].type # "revoked"
        BY <2>a, <3>6, <4>1
      <4> QED
        BY <3>1, <3>3, <4>2 DEF Silenced
    <3> QED
      <4>1. \A i \in 1 .. Len(w) : i = Len(w) \/ i \in 1 .. Len(k.live)
        BY <2>a, <2>5
      <4>2. \A i \in 1 .. Len(w) : w[i].type = "revoked" => i = Len(w)
        BY <2>a, <3>6, <4>1
      <4> QED
        BY <1>1, <1>3, <3>1, <3>4, <3>5, <3>7, <4>2 DEF Kept
  <2>9. CASE ~k.blocked /\ ~k.open /\ l = stuck
    <3>1. /\ l \in Connection /\ l.pc = k.pc /\ l.registered = k.registered /\ l.page = k.page
          /\ l.live = k.live /\ l.queue = k.queue /\ l.handed = h
          /\ l.replay = k.replay /\ l.open = k.open /\ l.blocked = TRUE
      BY <2>2, <2>9 DEF Connection
    <3>2. Unbroken(l)
      BY <2>9, <3>1 DEF Unbroken
    <3> QED
      BY <1>1, <1>3, <3>1, <3>2 DEF Silenced, Addressed, Deliverable, Kept
  <2> QED
    BY <2>3, <2>6, <2>7, <2>8, <2>9
<1> QED
  BY <1>2, <1>3

\* What Deliver makes of a connection.
LEMMA DeliveredIsSound ==
  ASSUME NEW S, NEW k, Sound(k, S), k.pc # "free", NEW f \in Frame, Deliverable(k, f, S),
         NEW q \in Sent(k, f), NEW l,
         \/ f.type # "revoked" /\ l = q
         \/ l = IF q.registered THEN Ended(q) ELSE q
  PROVE  Sound(l, S) /\ Kept(k, l) /\ (l.registered => k.registered)
<1>1. /\ q \in Connection /\ (q.registered <=> q.pc = "streaming")
      /\ Unbroken(q) /\ Addressed(q, S) /\ Kept(k, q)
      /\ q.registered => k.registered
      /\ f.type # "revoked" => Silenced(q)
      /\ ~k.registered => q = k
      /\ \A i \in 1 .. Len(q.live) : q.live[i].type = "revoked" => i = Len(q.live)
  BY SentIsSound
<1>2. CASE f.type # "revoked" /\ l = q
  BY <1>1, <1>2 DEF Sound
<1>3. CASE ~q.registered /\ l = q
  <2>1. Silenced(q)
    BY <1>1, <1>3 DEF Silenced
  <2> QED
    BY <1>1, <1>3, <2>1 DEF Sound
<1>4. CASE q.registered /\ l = Ended(q)
  <2>1. /\ l \in Connection /\ l.pc = "ended" /\ l.registered = FALSE /\ l.page = q.page
        /\ l.live = q.live /\ l.queue = q.queue /\ l.handed = q.handed /\ l.replay = q.replay
        /\ l.open = q.open
    BY <1>1, <1>4 DEF Ended, Connection
  <2>2. Unbroken(l) /\ Silenced(l)
    BY <1>1, <2>1 DEF Unbroken, Silenced
  <2>3. q.pc # "free" /\ Addressed(l, S)
    BY <1>1, <1>4, <2>1 DEF Addressed, Deliverable
  <2> QED
    BY <1>1, <2>1, <2>2, <2>3 DEF Sound, Kept
<1> QED
  BY <1>2, <1>3, <1>4

\* What a flush of n frames leaves: they are written after what was, the others wait.
LEMMA FlushedFrames ==
  ASSUME NEW live \in Seq(Frame), NEW queue \in Seq(Frame), NEW n \in 0 .. Len(queue)
  PROVE  /\ live \o SubSeq(queue, 1, n) \in Seq(Frame)
         /\ SubSeq(queue, n + 1, Len(queue)) \in Seq(Frame)
         /\ Len(live \o SubSeq(queue, 1, n)) = Len(live) + n
         /\ Len(SubSeq(queue, n + 1, Len(queue))) = Len(queue) - n
         /\ \A i \in 1 .. Len(live) : (live \o SubSeq(queue, 1, n))[i] = live[i]
         /\ \A i \in 1 .. n : (live \o SubSeq(queue, 1, n))[Len(live) + i] = queue[i]
         /\ \A i \in 1 .. Len(queue) - n :
              SubSeq(queue, n + 1, Len(queue))[i] = queue[n + i]
<1>1. /\ SubSeq(queue, 1, n) \in Seq(Frame) /\ Len(SubSeq(queue, 1, n)) = n
      /\ \A i \in 1 .. n : SubSeq(queue, 1, n)[i] = queue[i]
  OBVIOUS
<1>2. /\ SubSeq(queue, n + 1, Len(queue)) \in Seq(Frame)
      /\ Len(SubSeq(queue, n + 1, Len(queue))) = Len(queue) - n
      /\ \A i \in 1 .. Len(queue) - n : SubSeq(queue, n + 1, Len(queue))[i] = queue[n + i]
  OBVIOUS
<1>3. PICK head \in Seq(Frame) : head = SubSeq(queue, 1, n)
  BY <1>1
<1>4. /\ live \o head \in Seq(Frame) /\ Len(live \o head) = Len(live) + Len(head)
      /\ \A i \in 1 .. Len(live) : (live \o head)[i] = live[i]
      /\ \A i \in 1 .. Len(head) : (live \o head)[Len(live) + i] = head[i]
  OBVIOUS
<1> QED
  BY <1>1, <1>2, <1>3, <1>4

\* After a flush: frames come from where they were, and the boundary between what was written
\* and the rest of what was handed over has moved.
Flushes(live, queue, handed, n, w, v) ==
  /\ w \in Seq(Frame) /\ v \in Seq(Frame)
  /\ n = Len(queue) => v = <<>>
  /\ \A i \in 1 .. Len(w) : \/ i \in 1 .. Len(live) /\ w[i] = live[i]
                            \/ \E j \in 1 .. Len(queue) : w[i] = queue[j]
  /\ \A i \in 1 .. Len(v) : \E j \in 1 .. Len(queue) : v[i] = queue[j]
  /\ /\ Len(handed) = Len(live) + Len(queue)
     /\ \A i \in 1 .. Len(live) : live[i] = handed[i]
     /\ \A i \in 1 .. Len(queue) : queue[i] = handed[Len(live) + i]
     => /\ Len(w) <= Len(handed) /\ Len(handed) = Len(w) + Len(v)
        /\ \A i \in 1 .. Len(w) : w[i] = handed[i]
        /\ \A i \in 1 .. Len(v) : v[i] = handed[Len(w) + i]

LEMMA Flush ==
  \A live, queue, handed \in Seq(Frame) : \A n \in 0 .. Len(queue) :
    Flushes(live, queue, handed, n,
            live \o SubSeq(queue, 1, n), SubSeq(queue, n + 1, Len(queue)))
<1> TAKE live, queue, handed \in Seq(Frame)
<1> TAKE n \in 0 .. Len(queue)
<1> DEFINE w == live \o SubSeq(queue, 1, n)
           v == SubSeq(queue, n + 1, Len(queue))
<1>1. /\ w \in Seq(Frame) /\ v \in Seq(Frame)
      /\ Len(w) = Len(live) + n /\ Len(v) = Len(queue) - n
  BY FlushedFrames
<1>2. \A i \in 1 .. Len(live) : w[i] = live[i]
  BY FlushedFrames
<1>3. \A i \in 1 .. n : w[Len(live) + i] = queue[i]
  BY FlushedFrames
<1>4. \A i \in 1 .. Len(queue) - n : v[i] = queue[n + i]
  BY FlushedFrames
<1> HIDE DEF w, v
<1>5. n = Len(queue) => v = <<>>
  BY <1>1
<1>6. ASSUME NEW i \in 1 .. Len(w), i \notin 1 .. Len(live)
      PROVE  \E j \in 1 .. Len(queue) : w[i] = queue[j] /\ i = Len(live) + j
  <2>1. /\ i - Len(live) \in 1 .. n /\ i - Len(live) \in 1 .. Len(queue)
        /\ Len(live) + (i - Len(live)) = i
    BY <1>1, <1>6
  <2> QED
    BY <1>3, <2>1
<1>7. ASSUME NEW i \in 1 .. Len(v)
      PROVE  n + i \in 1 .. Len(queue) /\ v[i] = queue[n + i]
    BY <1>1, <1>4
<1>8. ASSUME Len(handed) = Len(live) + Len(queue),
             \A i \in 1 .. Len(live) : live[i] = handed[i],
             \A i \in 1 .. Len(queue) : queue[i] = handed[Len(live) + i]
      PROVE  /\ Len(w) <= Len(handed) /\ Len(handed) = Len(w) + Len(v)
             /\ \A i \in 1 .. Len(w) : w[i] = handed[i]
             /\ \A i \in 1 .. Len(v) : v[i] = handed[Len(w) + i]
  <2>1. Len(w) <= Len(handed) /\ Len(handed) = Len(w) + Len(v)
    <3>1. Len(handed) = Len(live) + Len(queue)
      BY <1>8
    <3> QED
      BY <1>1, <3>1
  <2>2. ASSUME NEW i \in 1 .. Len(w)
        PROVE  w[i] = handed[i]
    BY <1>2, <1>6, <1>8
  <2>3. ASSUME NEW i \in 1 .. Len(v)
        PROVE  v[i] = handed[Len(w) + i]
    <3>1. n + i \in 1 .. Len(queue) /\ v[i] = queue[n + i]
      BY <1>7
    <3>2. Len(live) + (n + i) = Len(w) + i
      BY <1>1
    <3> QED
      BY <1>8, <3>1, <3>2
  <2> QED
    BY <2>1, <2>2, <2>3
<1>9. /\ \A i \in 1 .. Len(w) : \/ i \in 1 .. Len(live) /\ w[i] = live[i]
                               \/ \E j \in 1 .. Len(queue) : w[i] = queue[j]
      /\ \A i \in 1 .. Len(v) : \E j \in 1 .. Len(queue) : v[i] = queue[j]
  BY <1>2, <1>6, <1>7
<1> QED
  <2>1. Flushes(live, queue, handed, n, w, v)
    BY <1>1, <1>5, <1>8, <1>9 DEF Flushes
  <2> QED
    BY <2>1 DEF w, v

\* What Drain makes of a connection.
LEMMA DrainedIsSound ==
  ASSUME NEW S, NEW k, Sound(k, S), k.registered,
         NEW n \in 0 .. Len(k.queue), NEW full \in BOOLEAN, ~full => n = Len(k.queue),
         NEW l,
         l = [[k EXCEPT !.live = @ \o SubSeq(k.queue, 1, n),
                        !.queue = SubSeq(@, n + 1, Len(@))] EXCEPT !.blocked = full]
  PROVE  Sound(l, S) /\ Kept(k, l)
<1> DEFINE w == k.live \o SubSeq(k.queue, 1, n)
           v == SubSeq(k.queue, n + 1, Len(k.queue))
<1>1. /\ k \in Connection /\ (k.registered <=> k.pc = "streaming")
      /\ Unbroken(k) /\ Silenced(k) /\ Addressed(k, S)
      /\ k.live \in Seq(Frame) /\ k.queue \in Seq(Frame) /\ k.handed \in Seq(Frame)
  BY DEF Sound, Connection
<1>2. Flushes(k.live, k.queue, k.handed, n, w, v)
  BY <1>1, Flush, Zenon
<1>3. /\ l.pc = k.pc /\ l.page = k.page /\ l.open = k.open /\ l.registered = k.registered
      /\ l.blocked = full /\ l.replay = k.replay /\ l.live = w /\ l.queue = v
      /\ l.handed = k.handed /\ l \in Connection
  <2>1. w \in Seq(Frame) /\ v \in Seq(Frame)
    BY <1>2, Zenon DEF Flushes
  <2>2. l = [[k EXCEPT !.live = w, !.queue = v] EXCEPT !.blocked = full]
    OBVIOUS
  <2> HIDE DEF w, v
  <2> QED
    BY <1>1, <2>1, <2>2 DEF Connection
<1> HIDE DEF w, v
<1>4. Unbroken(l)
  <2>0. l.open = k.open /\ l.live = w /\ l.queue = v /\ l.handed = k.handed
    BY <1>3
  <2> SUFFICES ASSUME k.open
               PROVE  /\ Len(w) <= Len(k.handed) /\ Len(k.handed) = Len(w) + Len(v)
                      /\ \A i \in 1 .. Len(w) : w[i] = k.handed[i]
                      /\ \A i \in 1 .. Len(v) : v[i] = k.handed[Len(w) + i]
    BY <2>0, ZenonT(30) DEF Unbroken
  <2>1. /\ Len(k.handed) = Len(k.live) + Len(k.queue)
        /\ \A i \in 1 .. Len(k.live) : k.live[i] = k.handed[i]
        /\ \A i \in 1 .. Len(k.queue) : k.queue[i] = k.handed[Len(k.live) + i]
    BY <1>1 DEF Unbroken
  <2> QED
    BY <1>2, <2>1, Zenon DEF Flushes
<1>5. /\ \A i \in 1 .. Len(k.live) : k.live[i].type # "revoked"
      /\ \A i \in 1 .. Len(k.queue) : k.queue[i].type # "revoked"
  BY <1>1 DEF Silenced
<1>6. /\ \A i \in 1 .. Len(w) : \/ i \in 1 .. Len(k.live) /\ w[i] = k.live[i]
                                \/ \E j \in 1 .. Len(k.queue) : w[i] = k.queue[j]
      /\ \A i \in 1 .. Len(v) : \E j \in 1 .. Len(k.queue) : v[i] = k.queue[j]
  BY <1>2, Zenon DEF Flushes
<1>7. Silenced(l)
  <2>1. /\ \A i \in 1 .. Len(w) : w[i].type # "revoked"
        /\ \A i \in 1 .. Len(v) : v[i].type # "revoked"
    BY <1>5, <1>6, Zenon
  <2> QED
    BY <1>3, <2>1 DEF Silenced
<1>8. Addressed(l, S)
  <2>1. /\ \A i \in 1 .. Len(w) : Deliverable(l, w[i], S)
        /\ \A i \in 1 .. Len(v) : Deliverable(l, v[i], S)
    <3>1. /\ \A i \in 1 .. Len(k.live) : Deliverable(k, k.live[i], S)
          /\ \A i \in 1 .. Len(k.queue) : Deliverable(k, k.queue[i], S)
      BY <1>1 DEF Addressed
    <3>2. \A f : Deliverable(k, f, S) => Deliverable(l, f, S)
      BY <1>3 DEF Deliverable
    <3> QED
      BY <1>6, <3>1, <3>2, Zenon
  <2>2. ~full => v = <<>>
    BY <1>2 DEF Flushes
  <2>3. \A i \in 1 .. Len(k.replay) : Deliverable(l, k.replay[i], S)
    <3>1. \A i \in 1 .. Len(k.replay) : Deliverable(k, k.replay[i], S)
      BY <1>1 DEF Addressed
    <3>2. \A f : Deliverable(k, f, S) => Deliverable(l, f, S)
      BY <1>3 DEF Deliverable
    <3> QED
      BY <3>1, <3>2
  <2>4. /\ l.pc # "free" => l.page \in Pages
        /\ l.registered /\ ~l.blocked => l.queue = <<>>
    BY <1>1, <1>3, <2>2 DEF Addressed
  <2> QED
    BY <1>3, <2>1, <2>3, <2>4 DEF Addressed
<1> QED
  BY <1>1, <1>3, <1>4, <1>7, <1>8 DEF Sound, Kept

-----------------------------------------------------------------------------
(* The quota *)

\* It is kept while nobody is registered that was not.
LEMMA QuotaKept ==
  ASSUME QuotaHeld, Registered' \subseteq Registered,
         \A c \in Registered' : connection'[c].page = connection[c].page
  PROVE  QuotaHeld'
<1> USE RealtimeAssumption DEF RealtimeAssumption
<1> DEFINE Of(u) == {c \in Registered : User[connection[c].page] = u}
           Then(u) == {c \in Registered' : User[connection'[c].page] = u}
<1>1. IsFiniteSet(Registered) /\ Cardinality(Registered) \in Nat
  <2>1. Registered \subseteq Connections
    BY DEF Registered
  <2> QED
    BY <2>1, FS_Subset, FS_CardinalityType
<1>2. /\ Cardinality(Registered') \in Nat
      /\ Cardinality(Registered') <= Cardinality(Registered)
  BY <1>1, FS_Subset, FS_CardinalityType
<1>3. ASSUME NEW u \in Users
      PROVE  ConnectionCount(u)' <= MaxPerUser
  <2>1. Then(u) \subseteq Of(u) /\ Of(u) \subseteq Registered
    OBVIOUS
  <2>2. IsFiniteSet(Of(u)) /\ Cardinality(Of(u)) \in Nat
    BY <1>1, <2>1, FS_Subset, FS_CardinalityType
  <2>3. Cardinality(Then(u)) \in Nat /\ Cardinality(Then(u)) <= Cardinality(Of(u))
    BY <2>1, <2>2, FS_Subset, FS_CardinalityType
  <2>4. Cardinality(Of(u)) <= MaxPerUser
    BY DEF QuotaHeld, ConnectionCount
  <2>5. ConnectionCount(u)' = Cardinality(Then(u))
    BY DEF ConnectionCount
  <2> QED
    BY <2>2, <2>3, <2>4, <2>5
<1>4. Cardinality(Registered') <= MaxPerTenant
  <2>1. Cardinality(Registered) <= MaxPerTenant
    BY DEF QuotaHeld
  <2> QED
    BY <1>1, <1>2, <2>1
<1> QED
  BY <1>3, <1>4 DEF QuotaHeld

\* And when the one that is added was counted before.
LEMMA QuotaTaken ==
  ASSUME RealtimeTypeOK, QuotaHeld, NEW c \in Connections, c \notin Registered,
         QuotaFree(User[connection[c].page]), Registered' = Registered \cup {c},
         connection'[c].page = connection[c].page,
         \A d \in Registered : connection'[d].page = connection[d].page
  PROVE  QuotaHeld'
<1> USE RealtimeAssumption DEF RealtimeAssumption
<1> DEFINE Of(u) == {d \in Registered : User[connection[d].page] = u}
           Then(u) == {d \in Registered' : User[connection'[d].page] = u}
<1>1. IsFiniteSet(Registered) /\ Cardinality(Registered) \in Nat
  <2>1. Registered \subseteq Connections
    BY DEF Registered
  <2> QED
    BY <2>1, FS_Subset, FS_CardinalityType
<1>2. Cardinality(Registered') = Cardinality(Registered) + 1
  <2>1. Cardinality(Registered \cup {c}) =
          IF c \in Registered THEN Cardinality(Registered) ELSE Cardinality(Registered) + 1
    BY <1>1, FS_AddElement
  <2> QED
    BY <2>1
<1>3. ASSUME NEW u \in Users
      PROVE  ConnectionCount(u)' <= MaxPerUser
  <2>1. IsFiniteSet(Of(u)) /\ Cardinality(Of(u)) \in Nat
    <3>1. Of(u) \subseteq Registered
      OBVIOUS
    <3> QED
      BY <1>1, <3>1, FS_Subset, FS_CardinalityType
  <2>2. Cardinality(Of(u)) <= MaxPerUser
    BY DEF QuotaHeld, ConnectionCount
  <2>3. ConnectionCount(u)' = Cardinality(Then(u))
    BY DEF ConnectionCount
  <2>4. CASE User[connection[c].page] = u
    <3>1. Then(u) = Of(u) \cup {c} /\ c \notin Of(u)
      BY <2>4
    <3>2. Cardinality(Of(u) \cup {c}) =
            IF c \in Of(u) THEN Cardinality(Of(u)) ELSE Cardinality(Of(u)) + 1
      BY <2>1, FS_AddElement
    <3>3. Cardinality(Of(u)) < MaxPerUser
      BY <2>4 DEF QuotaFree, ConnectionCount
    <3> QED
      <4>1. Cardinality(Then(u)) = Cardinality(Of(u)) + 1
        BY <3>1, <3>2
      <4> HIDE DEF Of, Then
      <4> QED
        BY <2>1, <2>3, <3>3, <4>1
  <2>5. CASE User[connection[c].page] # u
    <3>1. Then(u) = Of(u)
      BY <2>5
    <3> QED
      BY <2>2, <2>3, <3>1
  <2> QED
    BY <2>4, <2>5
<1>4. Cardinality(Registered') <= MaxPerTenant
  <2>1. Cardinality(Registered) < MaxPerTenant
    BY DEF QuotaFree
  <2> QED
    BY <1>1, <1>2, <2>1
<1> QED
  BY <1>3, <1>4 DEF QuotaHeld

-----------------------------------------------------------------------------
(* What most steps have in common *)

\* Calls of publish and pages that do not move stay right while connections keep their
\* pages.
LEMMA OthersFollow ==
  ASSUME RealtimeTypeOK, Committed \subseteq Committed',
         \A c \in Connections : Kept(connection[c], connection'[c])
  PROVE  /\ PublishersAreSound /\ UNCHANGED publisher => PublishersAreSound'
         /\ SourcesAreTheirs /\ UNCHANGED page => SourcesAreTheirs'
         /\ AppliedInOrder /\ UNCHANGED page => AppliedInOrder'
         /\ VersionsBound /\ UNCHANGED page => VersionsBound'
<1>1. ASSUME PublishersAreSound, UNCHANGED publisher
      PROVE  PublishersAreSound'
  <2> SUFFICES ASSUME NEW b \in Publishers, publisher[b].pc \in {"next", "answer"}
               PROVE  /\ publisher[b].event \in Committed'
                      /\ publisher[b].pc = "answer" => publisher[b].to \in Connections
                      /\ \A c \in publisher[b].todo \cup ({publisher[b].to} \ {NoConnection}) :
                           /\ connection'[c].pc # "free"
                           /\ connection'[c].page \in Audience[publisher[b].event]
    BY <1>1 DEF PublishersAreSound
  <2>1. /\ publisher[b].todo \subseteq Connections
        /\ publisher[b].to \in Connections \cup {NoConnection}
    BY DEF RealtimeTypeOK, Publisher
  <2>2. /\ publisher[b].event \in Committed
        /\ publisher[b].pc = "answer" => publisher[b].to \in Connections
        /\ \A c \in publisher[b].todo \cup ({publisher[b].to} \ {NoConnection}) :
             /\ connection[c].pc # "free"
             /\ connection[c].page \in Audience[publisher[b].event]
    BY <1>1 DEF PublishersAreSound
  <2> QED
    BY <2>1, <2>2 DEF Kept
<1>2. ASSUME SourcesAreTheirs, UNCHANGED page
      PROVE  SourcesAreTheirs'
  <2>1. \A p \in Pages : page[p].source \in Connections \cup {NoConnection}
    BY DEF RealtimeTypeOK, Page
  <2> QED
    BY <1>2, <2>1 DEF SourcesAreTheirs, Kept
<1>3. ASSUME AppliedInOrder, UNCHANGED page
      PROVE  AppliedInOrder'
  BY <1>3 DEF AppliedInOrder, Committed
<1>4. ASSUME VersionsBound, UNCHANGED page
      PROVE  VersionsBound'
  BY <1>4 DEF VersionsBound
<1> QED
  BY <1>1, <1>2, <1>3, <1>4

LEMMA ConnectionTypes ==
  ASSUME ConnectionsAreSound, DOMAIN connection = Connections,
         connection = [c \in DOMAIN connection |-> connection[c]]
  PROVE  /\ connection \in [Connections -> Connection]
         /\ \A c \in Connections : connection[c].registered <=> connection[c].pc = "streaming"
  BY DEF ConnectionsAreSound, Sound

\* One connection moves, and is not registered by it.
LEMMA OneConnection ==
  ASSUME RealtimeIInv, UNCHANGED store, NEW c \in Connections, NEW l,
         Sound(l, Committed), Kept(connection[c], l), l.registered => connection[c].registered,
         connection' = [connection EXCEPT ![c] = l], l.registered => l.page = connection[c].page
  PROVE  /\ connection' \in [Connections -> Connection]
         /\ \A d \in Connections : connection'[d].registered <=> connection'[d].pc = "streaming"
         /\ ConnectionsAreSound' /\ QuotaHeld' /\ Committed' = Committed
         /\ \A d \in Connections : Kept(connection[d], connection'[d])
<1>1. /\ connection \in [Connections -> Connection] /\ ConnectionsAreSound /\ QuotaHeld
  BY DEF RealtimeIInv, RealtimeTypeOK
<1>2. connection'[c] = l /\ \A d \in Connections \ {c} : connection'[d] = connection[d]
  BY <1>1
<1>3. Committed' = Committed
  BY DEF store, Committed
<1>4. \A d \in Connections : Kept(connection[d], connection'[d])
  BY <1>2 DEF Kept
<1>5. ConnectionsAreSound'
  BY <1>1, <1>2, <1>3 DEF ConnectionsAreSound
<1>6. /\ connection' \in [Connections -> Connection]
      /\ \A d \in Connections : connection'[d].registered <=> connection'[d].pc = "streaming"
  BY <1>1, <1>2, <1>5 DEF ConnectionsAreSound, Sound
<1>7. QuotaHeld'
  <2>1. Registered' \subseteq Registered
    BY <1>2 DEF Registered
  <2>2. \A d \in Registered' : connection'[d].page = connection[d].page
    BY <1>2 DEF Registered
  <2> QED
    BY <1>1, <2>1, <2>2, QuotaKept
<1> QED
  BY <1>3, <1>4, <1>5, <1>6, <1>7

-----------------------------------------------------------------------------
(* The steps *)

LEMMA InitHolds == RealtimeInit => RealtimeIInv
<1> USE RealtimeAssumption DEF RealtimeAssumption
<1> SUFFICES ASSUME RealtimeInit
             PROVE  RealtimeIInv
  OBVIOUS
<1>1. /\ Free \in Connection /\ Free.pc = "free" /\ Free.registered = FALSE
      /\ Free.live = <<>> /\ Free.queue = <<>> /\ Free.handed = <<>> /\ Free.replay = <<>>
  BY DEF Free, Connection
<1>2. Sound(Free, Committed)
  BY <1>1, EmptyIsSound
<1>3. Idle \in Publisher /\ Idle.pc = "idle"
  BY DEF Idle, Publisher
<1>4. Loaded \in Page /\ Loaded.source = NoConnection /\ Loaded.applied = <<>>
  BY DEF Loaded, Page
<1> HIDE DEF Free, Idle, Loaded
<1>5. /\ \A c \in Connections : connection[c] = Free
      /\ \A b \in Publishers : publisher[b] = Idle
      /\ \A p \in Pages : page[p] = Loaded
  BY DEF RealtimeInit
<1>6. RealtimeTypeOK
  BY <1>1, <1>3, <1>4, <1>5 DEF RealtimeInit, RealtimeTypeOK
<1>7. QuotaHeld
  <2>1. Registered = {}
    BY <1>1, <1>5 DEF Registered
  <2>2. Cardinality({}) = 0
    BY FS_EmptySet
  <2>3. \A u \in Users : {c \in Registered : User[connection[c].page] = u} = {}
    BY <2>1
  <2> QED
    BY <2>1, <2>2, <2>3 DEF QuotaHeld, ConnectionCount
<1>8. AppliedInOrder /\ VersionsBound /\ SourcesAreTheirs
  BY <1>4, <1>5 DEF AppliedInOrder, VersionsBound, SourcesAreTheirs
<1>9. PublishersAreSound /\ ConnectionsAreSound
  BY <1>2, <1>3, <1>5 DEF PublishersAreSound, ConnectionsAreSound
<1> QED
  BY <1>6, <1>7, <1>8, <1>9 DEF RealtimeIInv

\* The stored stream and the sessions: connections, calls and pages stay.
LEMMA StoreStep ==
  ASSUME RealtimeIInv,
         \/ \E e \in Events : Insert(e) \/ Commit(e) \/ Expire(e)
         \/ Prune
         \/ \E u \in Users : SignOut(u)
  PROVE  RealtimeIInv'
<1>0. /\ RealtimeTypeOK /\ QuotaHeld /\ AppliedInOrder /\ ConnectionsAreSound
      /\ PublishersAreSound /\ SourcesAreTheirs /\ VersionsBound
  BY DEF RealtimeIInv
<1>1. UNCHANGED <<connection, publisher, page>>
  BY DEF Insert, Commit, Expire, Prune, SignOut
<1>2. Committed \subseteq Committed'
  BY DEF Insert, Commit, Expire, Prune, SignOut, store, Committed
<1>3. /\ sequence' \in [Events -> 0 .. drawn'] /\ drawn' \in Nat
      /\ stored' \subseteq Events /\ expired' \subseteq Events /\ session' \in [Users -> BOOLEAN]
  <2>1. ASSUME NEW e \in Events, Insert(e)
        PROVE  sequence' \in [Events -> 0 .. drawn'] /\ drawn' \in Nat
    <3>1. /\ sequence \in [Events -> 0 .. drawn] /\ drawn \in Nat /\ drawn' = drawn + 1
          /\ sequence' = [sequence EXCEPT ![e] = drawn']
      BY <1>0, <2>1 DEF Insert, RealtimeTypeOK
    <3>2. 0 .. drawn \subseteq 0 .. drawn' /\ drawn' \in 0 .. drawn'
      BY <3>1
    <3> QED
      BY <3>1, <3>2
  <2> QED
    BY <1>0, <2>1 DEF RealtimeTypeOK, Insert, Commit, Expire, Prune, SignOut, store
<1>4. RealtimeTypeOK'
  BY <1>0, <1>1, <1>3 DEF RealtimeTypeOK
<1>5. QuotaHeld'
  BY <1>0, <1>1 DEF QuotaHeld, ConnectionCount, Registered
<1>6. ConnectionsAreSound'
  BY <1>0, <1>1, <1>2, SoundGrows DEF ConnectionsAreSound
<1>7. PublishersAreSound' /\ SourcesAreTheirs' /\ AppliedInOrder' /\ VersionsBound'
  <2>1. \A c \in Connections : Kept(connection[c], connection'[c])
    BY <1>1 DEF Kept
  <2> QED
    BY <1>0, <1>1, <1>2, <2>1, OthersFollow
<1> QED
  BY <1>4, <1>5, <1>6, <1>7 DEF RealtimeIInv

\* A connection at another point of its life has no frames.
LEMMA AtIsEmpty ==
  ASSUME NEW k \in Connection,
         NEW pc \in {"free", "current", "expiry", "select", "streaming", "ended", "refused", "thrown"}
  PROVE  /\ At(pc, k) \in Connection /\ At(pc, k).pc = pc /\ At(pc, k).page = k.page
         /\ At(pc, k).open = k.open /\ At(pc, k).registered = FALSE
         /\ At(pc, k).live = <<>> /\ At(pc, k).queue = <<>> /\ At(pc, k).handed = <<>>
         /\ At(pc, k).replay = <<>>
<1>1. /\ Free \in Connection /\ Free.registered = FALSE /\ Free.replay = <<>>
      /\ Free.live = <<>> /\ Free.queue = <<>> /\ Free.handed = <<>>
  BY DEF Free, Connection
<1>2. k.page \in Pages \cup {NoConnection} /\ k.open \in BOOLEAN
  BY DEF Connection
<1> HIDE DEF Free
<1>3. At(pc, k) = [Free EXCEPT !.pc = pc, !.page = k.page, !.open = k.open]
  BY DEF At
<1> QED
  BY <1>1, <1>2, <1>3 DEF Connection

\* What was applied stays right as long as the pages' lists stay.
LEMMA AppliedStays ==
  ASSUME Committed \subseteq Committed', AppliedInOrder, VersionsBound,
         \A p \in Pages : page'[p].applied = page[p].applied /\ page'[p].versions = page[p].versions
  PROVE  AppliedInOrder' /\ VersionsBound'
<1>1. AppliedInOrder'
  BY DEF AppliedInOrder, Committed
<1>2. VersionsBound'
  BY DEF VersionsBound
<1> QED
  BY <1>1, <1>2

\* A refused browser gives up the connection, if it still has it.
LEMMA RefuseStep ==
  ASSUME RealtimeIInv, NEW c \in Connections, connection[c].pc \in {"current", "expiry", "select"},
         Refuse(c), UNCHANGED <<store, session, publisher>>
  PROVE  RealtimeIInv'
<1>0. /\ RealtimeTypeOK /\ QuotaHeld /\ AppliedInOrder /\ ConnectionsAreSound
      /\ PublishersAreSound /\ SourcesAreTheirs /\ VersionsBound
  BY DEF RealtimeIInv
<1>1. /\ connection[c] \in Connection /\ connection[c].page \in Pages
      /\ connection[c].pc # "free"
  BY <1>0 DEF ConnectionsAreSound, Sound, Addressed
<1>2. PICK l : l = [At("refused", connection[c]) EXCEPT !.open = FALSE]
  OBVIOUS
<1>3. /\ l \in Connection /\ l.pc = "refused" /\ l.page = connection[c].page
      /\ l.registered = FALSE /\ l.replay = <<>>
      /\ l.live = <<>> /\ l.queue = <<>> /\ l.handed = <<>>
  <2>1. PICK r : r = At("refused", connection[c])
    OBVIOUS
  <2>2. /\ r \in Connection /\ r.pc = "refused" /\ r.page = connection[c].page
        /\ r.registered = FALSE /\ r.replay = <<>>
        /\ r.live = <<>> /\ r.queue = <<>> /\ r.handed = <<>>
    BY <1>1, <2>1, AtIsEmpty
  <2>3. l = [r EXCEPT !.open = FALSE]
    BY <1>2, <2>1
  <2> QED
    BY <2>2, <2>3 DEF Connection
<1>4. Sound(l, Committed) /\ Kept(connection[c], l)
  BY <1>1, <1>3, EmptyIsSound DEF Kept
<1>5. connection' = [connection EXCEPT ![c] = l]
  BY <1>2 DEF Refuse
<1>6. /\ connection' \in [Connections -> Connection]
      /\ \A d \in Connections : connection'[d].registered <=> connection'[d].pc = "streaming"
      /\ ConnectionsAreSound' /\ QuotaHeld' /\ Committed' = Committed
      /\ \A d \in Connections : Kept(connection[d], connection'[d])
  BY <1>3, <1>4, <1>5, OneConnection
<1>7. PICK p \in Pages : p = connection[c].page
  BY <1>1
<1>8. page' = IF page[p].source = c
              THEN [page EXCEPT ![p].source = NoConnection, ![p].closed = TRUE]
              ELSE page
  BY <1>7 DEF Refuse
<1>9. page \in [Pages -> Page] /\ page[p] \in Page
  BY <1>0 DEF RealtimeTypeOK
<1>10. /\ page' \in [Pages -> Page]
       /\ \A q \in Pages : /\ page'[q].applied = page[q].applied
                           /\ page'[q].versions = page[q].versions
                           /\ page'[q].source \in {page[q].source, NoConnection}
  <2>1. CASE page[p].source = c
    <3> DEFINE new == [page[p] EXCEPT !.source = NoConnection, !.closed = TRUE]
    <3>1. /\ new \in Page /\ new.applied = page[p].applied /\ new.versions = page[p].versions
          /\ new.source = NoConnection
      BY <1>9 DEF Page
    <3>2. page' = [page EXCEPT ![p] = new]
      BY <1>8, <2>1
    <3> HIDE DEF new
    <3> QED
      BY <1>9, <3>1, <3>2
  <2>2. CASE page[p].source # c
    BY <1>8, <1>9, <2>2
  <2> QED
    BY <2>1, <2>2
<1>11. SourcesAreTheirs'
  <2>1. \A q \in Pages : page[q].source \in Connections \cup {NoConnection}
    BY <1>0 DEF RealtimeTypeOK, Page
  <2> QED
    BY <1>0, <1>6, <1>10, <2>1 DEF SourcesAreTheirs, Kept
<1>12. AppliedInOrder' /\ VersionsBound'
  BY <1>0, <1>6, <1>10, AppliedStays
<1>13. PublishersAreSound'
  BY <1>0, <1>6, OthersFollow
<1>14. RealtimeTypeOK'
  BY <1>0, <1>6, <1>10 DEF RealtimeTypeOK, store
<1> QED
  BY <1>6, <1>11, <1>12, <1>13, <1>14 DEF RealtimeIInv

\* One connection moves on the server, and nothing else.
LEMMA ServerStep ==
  ASSUME RealtimeIInv, UNCHANGED <<store, session, publisher, page>>, NEW c \in Connections, NEW l,
         Sound(l, Committed), Kept(connection[c], l), l.registered => connection[c].registered,
         connection' = [connection EXCEPT ![c] = l], l.registered => l.page = connection[c].page
  PROVE  RealtimeIInv'
<1>0. /\ RealtimeTypeOK /\ AppliedInOrder
      /\ PublishersAreSound /\ SourcesAreTheirs /\ VersionsBound
  BY DEF RealtimeIInv
<1>1. /\ connection' \in [Connections -> Connection]
      /\ \A d \in Connections : connection'[d].registered <=> connection'[d].pc = "streaming"
      /\ ConnectionsAreSound' /\ QuotaHeld' /\ Committed' = Committed
      /\ \A d \in Connections : Kept(connection[d], connection'[d])
  BY OneConnection
<1>2. PublishersAreSound' /\ SourcesAreTheirs' /\ AppliedInOrder' /\ VersionsBound'
  BY <1>0, <1>1, OthersFollow
<1>3. RealtimeTypeOK'
  BY <1>0, <1>1 DEF RealtimeTypeOK, store
<1> QED
  BY <1>1, <1>2, <1>3 DEF RealtimeIInv

LEMMA DrainStep ==
  ASSUME RealtimeIInv, NEW c \in Connections, Drain(c)
  PROVE  RealtimeIInv'
<1>1. /\ Sound(connection[c], Committed) /\ connection[c].registered
      /\ connection[c].page = connection[c].page
  BY DEF RealtimeIInv, ConnectionsAreSound, Drain
<1>2. PICK n \in 0 .. Len(connection[c].queue), full \in BOOLEAN :
        /\ ~full => n = Len(connection[c].queue)
        /\ connection' = [connection EXCEPT ![c] =
             [[connection[c] EXCEPT !.live = @ \o SubSeq(connection[c].queue, 1, n),
                                    !.queue = SubSeq(@, n + 1, Len(@))] EXCEPT !.blocked = full]]
  BY DEF Drain
<1>3. PICK l : l = [[connection[c] EXCEPT !.live = @ \o SubSeq(connection[c].queue, 1, n),
                                          !.queue = SubSeq(@, n + 1, Len(@))] EXCEPT !.blocked = full]
  OBVIOUS
<1>4. Sound(l, Committed) /\ Kept(connection[c], l)
  BY <1>1, <1>2, <1>3, DrainedIsSound
<1>5. connection[c].pc # "free"
  BY <1>1 DEF Sound
<1>6. UNCHANGED <<store, session, publisher, page>> /\ connection' = [connection EXCEPT ![c] = l]
  BY <1>2, <1>3 DEF Drain
<1> QED
  BY <1>1, <1>4, <1>5, <1>6, ServerStep DEF Kept

\* A connection that waits for the database goes on to the next statement.
LEMMA WaitsOn ==
  ASSUME NEW S, NEW k, Sound(k, S), k.pc \in {"current", "expiry", "select"}, NEW l \in Connection,
         l.pc \in {"current", "expiry", "select"}, l.page = k.page, l.open = k.open,
         l.registered = k.registered, l.blocked = k.blocked, l.replay = k.replay,
         l.live = k.live, l.queue = k.queue, l.handed = k.handed
  PROVE  Sound(l, S) /\ Kept(k, l) /\ ~l.registered
<1>1. Unbroken(l) /\ Silenced(l)
  BY DEF Sound, Unbroken, Silenced
<1>2. Addressed(l, S)
  BY DEF Sound, Addressed, Deliverable
<1> QED
  BY <1>1, <1>2 DEF Sound, Kept

LEMMA ReadCurrentStep ==
  ASSUME RealtimeIInv, NEW c \in Connections, ReadCurrent(c)
  PROVE  RealtimeIInv'
<1>1. /\ Sound(connection[c], Committed) /\ connection[c].pc = "current"
      /\ connection[c] \in Connection
      /\ UNCHANGED <<store, session, publisher>>
  BY DEF RealtimeIInv, ConnectionsAreSound, Sound, ReadCurrent
<1>2. PICK n \in CurrentSequence :
        IF connection[c].cursor > n
        THEN Refuse(c)
        ELSE /\ connection' = [connection EXCEPT ![c].pc = "expiry", ![c].current = n]
             /\ UNCHANGED page
  BY DEF ReadCurrent
<1>3. n \in Nat
  <2>1. sequence \in [Events -> 0 .. drawn] /\ drawn \in Nat /\ stored \subseteq Events
    BY DEF RealtimeIInv, RealtimeTypeOK
  <2> QED
    BY <2>1 DEF CurrentSequence
<1>4. CASE connection[c].cursor > n
  BY <1>1, <1>2, <1>4, RefuseStep
<1>5. CASE ~ (connection[c].cursor > n)
  <2>1. PICK l : l = [connection[c] EXCEPT !.pc = "expiry", !.current = n]
    OBVIOUS
  <2>2. /\ l \in Connection /\ l.pc = "expiry" /\ l.page = connection[c].page
        /\ l.open = connection[c].open /\ l.registered = connection[c].registered
        /\ l.blocked = connection[c].blocked /\ l.replay = connection[c].replay
        /\ l.live = connection[c].live /\ l.queue = connection[c].queue
        /\ l.handed = connection[c].handed
    BY <1>1, <1>3, <2>1 DEF Connection
  <2>3. Sound(l, Committed) /\ Kept(connection[c], l) /\ ~l.registered
    BY <1>1, <2>2, WaitsOn
  <2>4. connection' = [connection EXCEPT ![c] = l] /\ UNCHANGED page
    BY <1>2, <1>5, <2>1
  <2>5. UNCHANGED <<store, session, publisher, page>>
    BY <1>1, <2>4
  <2> QED
    BY <2>3, <2>4, <2>5, ServerStep
<1> QED
  BY <1>4, <1>5

LEMMA CheckExpiryStep ==
  ASSUME RealtimeIInv, NEW c \in Connections, CheckExpiry(c)
  PROVE  RealtimeIInv'
<1>1. /\ Sound(connection[c], Committed) /\ connection[c].pc = "expiry"
      /\ connection[c] \in Connection /\ connection[c].page \in Pages
      /\ UNCHANGED <<store, session, publisher, page>>
  BY DEF RealtimeIInv, ConnectionsAreSound, Sound, Addressed, CheckExpiry
<1>2. CASE After(c) \cap expired = {}
  <2>1. PICK l : l = [connection[c] EXCEPT !.pc = "select"]
    OBVIOUS
  <2>2. /\ l \in Connection /\ l.pc = "select" /\ l.page = connection[c].page
        /\ l.open = connection[c].open /\ l.registered = connection[c].registered
        /\ l.blocked = connection[c].blocked /\ l.replay = connection[c].replay
        /\ l.live = connection[c].live /\ l.queue = connection[c].queue
        /\ l.handed = connection[c].handed
    BY <1>1, <2>1 DEF Connection
  <2>3. Sound(l, Committed) /\ Kept(connection[c], l) /\ ~l.registered
    BY <1>1, <2>2, WaitsOn
  <2>4. connection' = [connection EXCEPT ![c] = l]
    BY <1>2, <2>1 DEF CheckExpiry
  <2> QED
    BY <1>1, <2>3, <2>4, ServerStep
<1>3. CASE After(c) \cap expired # {}
  <2>1. PICK f : f = [type |-> "reconcile", event |-> NoEvent, id |-> connection[c].current]
    OBVIOUS
  <2>2. f \in Frame /\ f.type = "reconcile"
    BY <1>1, <2>1 DEF Frame, Connection
  <2>3. PICK r : r = At("ended", connection[c])
    OBVIOUS
  <2>4. /\ r \in Connection /\ r.pc = "ended" /\ r.page = connection[c].page
        /\ r.registered = FALSE /\ r.live = <<>> /\ r.queue = <<>> /\ r.handed = <<>>
    BY <1>1, <2>3, AtIsEmpty
  <2>5. PICK l : l = [r EXCEPT !.replay = <<f>>]
    OBVIOUS
  <2>6. <<f>> \in Seq(Frame) /\ \A i \in 1 .. Len(<<f>>) : <<f>>[i] = f
    BY <2>2
  <2>7. /\ l \in Connection /\ l.pc = "ended" /\ l.page = connection[c].page
        /\ l.registered = FALSE /\ l.live = <<>> /\ l.queue = <<>> /\ l.handed = <<>>
        /\ l.replay = <<f>>
    BY <2>4, <2>5, <2>6 DEF Connection
  <2>8. Sound(l, Committed) /\ Kept(connection[c], l)
    <3>1. \A i \in 1 .. Len(l.replay) : Deliverable(l, l.replay[i], Committed)
      BY <2>2, <2>6, <2>7 DEF Deliverable
    <3> QED
      BY <1>1, <2>7, <3>1, EmptyIsSound DEF Kept
  <2>9. connection' = [connection EXCEPT ![c] = l]
    BY <1>3, <2>1, <2>3, <2>5 DEF CheckExpiry
  <2> QED
    BY <1>1, <2>7, <2>8, <2>9, ServerStep
<1> QED
  BY <1>2, <1>3

LEMMA DatabaseFailsStep ==
  ASSUME RealtimeIInv, NEW c \in Connections, DatabaseFails(c)
  PROVE  RealtimeIInv'
  BY RefuseStep DEF DatabaseFails

\* The frames of a replay are committed events that its page may hear.
LEMMA ReplayIsAddressed ==
  ASSUME RealtimeTypeOK, NEW c \in Connections, NEW frames \in Replayed(c)
  PROVE  /\ frames \in Seq(Frame)
         /\ \A i \in 1 .. Len(frames) : Deliverable(connection[c], frames[i], Committed)
<1> USE RealtimeAssumption DEF RealtimeAssumption
<1> DEFINE S == ReplayedEvents(c)
<1>1. /\ S \subseteq stored /\ S \subseteq Events
      /\ \A e \in S : connection[c].page \in Audience[e]
  BY DEF ReplayedEvents, After, Hears, RealtimeTypeOK
<1>2. Cardinality(S) \in Nat
  BY <1>1, FS_Subset, FS_CardinalityType
<1>3. PICK s \in [1 .. Cardinality(S) -> S] :
        frames = [i \in 1 .. Cardinality(S) |-> EventFrame(s[i])]
  BY DEF Replayed
<1>4. \A e \in S : /\ EventFrame(e) \in Frame /\ EventFrame(e).event = e
                   /\ e \in Committed
  BY <1>1 DEF EventFrame, Frame, RealtimeTypeOK, Committed
<1> HIDE DEF S
<1>5. frames \in Seq(Frame) /\ Len(frames) = Cardinality(S)
  <2>1. \A i \in 1 .. Cardinality(S) : EventFrame(s[i]) \in Frame
    BY <1>3, <1>4
  <2>2. PICK n \in Nat : n = Cardinality(S)
    BY <1>2
  <2>3. frames \in [1 .. n -> Frame]
    BY <1>3, <2>1, <2>2
  <2>4. frames \in Seq(Frame) /\ Len(frames) = n
    BY <2>3
  <2> QED
    BY <2>2, <2>4
<1>6. ASSUME NEW i \in 1 .. Len(frames)
      PROVE  Deliverable(connection[c], frames[i], Committed)
  <2>1. s[i] \in S /\ frames[i] = EventFrame(s[i])
    BY <1>3, <1>5
  <2> QED
    BY <1>1, <1>4, <2>1 DEF Deliverable
<1> QED
  BY <1>5, <1>6

LEMMA ConnectStep ==
  ASSUME RealtimeIInv, NEW c \in Connections, NEW p \in Pages, Connect(p, c)
  PROVE  RealtimeIInv'
<1> USE RealtimeAssumption DEF RealtimeAssumption
<1>0. /\ RealtimeTypeOK /\ QuotaHeld /\ AppliedInOrder /\ ConnectionsAreSound
      /\ PublishersAreSound /\ SourcesAreTheirs /\ VersionsBound
  BY DEF RealtimeIInv
<1>1. /\ page[p] \in Page /\ page \in [Pages -> Page] /\ connection[c] \in Connection
      /\ connection \in [Connections -> Connection]
      /\ connection[c].pc = "free" /\ UNCHANGED <<store, session, publisher>>
      /\ page[p].source = NoConnection
  BY <1>0 DEF RealtimeTypeOK, Connect
<1>2. CASE ~ (session[User[p]] /\ ConnectionCount(User[p]) < MaxPerUser)
  <2>1. page' = [page EXCEPT ![p].closed = TRUE] /\ UNCHANGED connection
    BY <1>2 DEF Connect
  <2>2. PICK q : q = [page[p] EXCEPT !.closed = TRUE]
    OBVIOUS
  <2>3. /\ q \in Page /\ q.applied = page[p].applied /\ q.versions = page[p].versions
        /\ q.source = page[p].source
    BY <1>1, <2>2 DEF Page
  <2>4. page' = [page EXCEPT ![p] = q]
    BY <2>1, <2>2
  <2>5. /\ page' \in [Pages -> Page]
        /\ \A x \in Pages : /\ page'[x].applied = page[x].applied
                            /\ page'[x].versions = page[x].versions
                            /\ page'[x].source = page[x].source
    BY <1>1, <2>3, <2>4
  <2>6. Committed' = Committed /\ \A d \in Connections : Kept(connection[d], connection'[d])
    BY <1>1, <2>1 DEF store, Committed, Kept
  <2>7. AppliedInOrder' /\ VersionsBound'
    BY <1>0, <2>5, <2>6, AppliedStays
  <2>8. SourcesAreTheirs'
    BY <1>0, <2>1, <2>5 DEF SourcesAreTheirs
  <2>9. PublishersAreSound'
    BY <1>0, <1>1, <2>6, OthersFollow
  <2>10. RealtimeTypeOK' /\ QuotaHeld' /\ ConnectionsAreSound'
    <3>1. QuotaHeld'
      BY <1>0, <2>1 DEF QuotaHeld, ConnectionCount, Registered
    <3>2. ConnectionsAreSound'
      BY <1>0, <2>1, <2>6 DEF ConnectionsAreSound
    <3>3. RealtimeTypeOK'
      BY <1>0, <1>1, <2>1, <2>5 DEF RealtimeTypeOK, store
    <3> QED
      BY <3>1, <3>2, <3>3
  <2> QED
    BY <2>7, <2>8, <2>9, <2>10 DEF RealtimeIInv
<1>3. CASE session[User[p]] /\ ConnectionCount(User[p]) < MaxPerUser
  <2>1. PICK l : l = [Free EXCEPT !.pc = "current", !.page = p, !.open = TRUE,
                                  !.cursor = page[p].lastEventId]
    OBVIOUS
  <2>2. /\ l \in Connection /\ l.pc = "current" /\ l.page = p /\ l.registered = FALSE
        /\ l.live = <<>> /\ l.queue = <<>> /\ l.handed = <<>> /\ l.replay = <<>>
    <3>1. page[p].lastEventId \in Nat
      BY <1>1 DEF Page
    <3>2. /\ Free \in Connection /\ Free.registered = FALSE /\ Free.replay = <<>>
          /\ Free.live = <<>> /\ Free.queue = <<>> /\ Free.handed = <<>>
      BY DEF Free, Connection
    <3> HIDE DEF Free
    <3> QED
      BY <2>1, <3>1, <3>2 DEF Connection
  <2>3. Sound(l, Committed) /\ Kept(connection[c], l)
    BY <1>1, <2>2, EmptyIsSound DEF Kept
  <2>4. /\ connection' = [connection EXCEPT ![c] = l]
        /\ page' = [page EXCEPT ![p].source = c, ![p].read = 0]
    BY <1>3, <2>1 DEF Connect
  <2>5. /\ connection' \in [Connections -> Connection]
        /\ \A d \in Connections : connection'[d].registered <=> connection'[d].pc = "streaming"
        /\ ConnectionsAreSound' /\ QuotaHeld' /\ Committed' = Committed
        /\ \A d \in Connections : Kept(connection[d], connection'[d])
    BY <1>1, <2>2, <2>3, <2>4, OneConnection
  <2>6. PICK q : q = [page[p] EXCEPT !.source = c, !.read = 0]
    OBVIOUS
  <2>7. /\ q \in Page /\ q.applied = page[p].applied /\ q.versions = page[p].versions
        /\ q.source = c
    BY <1>1, <2>6 DEF Page
  <2>8. page' = [page EXCEPT ![p] = q]
    BY <2>4, <2>6
  <2>9. /\ page' \in [Pages -> Page]
        /\ \A x \in Pages : /\ page'[x].applied = page[x].applied
                            /\ page'[x].versions = page[x].versions
        /\ \A x \in Pages \ {p} : page'[x].source = page[x].source
        /\ page'[p].source = c
    BY <1>1, <2>7, <2>8
  <2>10. AppliedInOrder' /\ VersionsBound'
    BY <1>0, <2>5, <2>9, AppliedStays
  <2>11. SourcesAreTheirs'
    <3>1. \A x \in Pages : page[x].source \in Connections \cup {NoConnection}
      BY <1>0 DEF RealtimeTypeOK, Page
    <3>2. connection'[c].pc # "free" /\ connection'[c].page = p
      BY <1>1, <2>2, <2>4
    <3> QED
      BY <1>0, <2>5, <2>9, <3>1, <3>2 DEF SourcesAreTheirs, Kept
  <2>12. PublishersAreSound'
    BY <1>0, <1>1, <2>5, OthersFollow
  <2>13. RealtimeTypeOK'
    BY <1>0, <1>1, <2>5, <2>9 DEF RealtimeTypeOK, store
  <2> QED
    BY <2>5, <2>10, <2>11, <2>12, <2>13 DEF RealtimeIInv
<1> QED
  BY <1>2, <1>3

\* The connection is registered, or its failure ends all of them.
LEMMA SelectAndRegisterStep ==
  ASSUME RealtimeIInv, NEW c \in Connections, SelectAndRegister(c)
  PROVE  RealtimeIInv'
<1>0. /\ RealtimeTypeOK /\ QuotaHeld /\ AppliedInOrder /\ ConnectionsAreSound
      /\ PublishersAreSound /\ SourcesAreTheirs /\ VersionsBound
  BY DEF RealtimeIInv
<1>1. /\ connection \in [Connections -> Connection] /\ connection[c] \in Connection
      /\ connection[c].pc = "select" /\ connection[c].page \in Pages
      /\ connection[c].registered = FALSE
      /\ UNCHANGED <<store, session, page>> /\ Committed' = Committed
      /\ publisher \in [Publishers -> Publisher]
  <2>1. Sound(connection[c], Committed) /\ connection[c].pc = "select"
    BY <1>0 DEF ConnectionsAreSound, SelectAndRegister
  <2> QED
    BY <1>0, <2>1 DEF Sound, Addressed, Connection, SelectAndRegister, RealtimeTypeOK, store, Committed
<1> DEFINE Begun(pc, frames) ==
             [At(pc, connection[c]) EXCEPT !.replay = IF connection[c].open THEN frames ELSE <<>>]
<1>2. PICK frames \in Replayed(c) :
        IF QuotaFree(User[connection[c].page])
        THEN /\ connection' = [connection EXCEPT ![c] =
                                 [Begun("streaming", frames) EXCEPT !.registered = TRUE]]
             /\ UNCHANGED publisher
        ELSE /\ connection' = [d \in Connections |->
                   IF d = c THEN Begun("thrown", frames)
                   ELSE IF connection[d].pc \notin {"free", "refused"}
                        THEN Ended(connection[d]) ELSE connection[d]]
             /\ publisher' = [b \in Publishers |->
                               IF publisher[b].pc = "idle" THEN publisher[b] ELSE Done]
  BY DEF SelectAndRegister
<1>3. /\ frames \in Seq(Frame)
      /\ \A i \in 1 .. Len(frames) : Deliverable(connection[c], frames[i], Committed)
  BY <1>0, ReplayIsAddressed
<1>4. ASSUME NEW pc \in {"streaming", "thrown"}, NEW l, l = Begun(pc, frames)
      PROVE  /\ l \in Connection /\ l.pc = pc /\ l.page = connection[c].page
             /\ l.registered = FALSE /\ l.live = <<>> /\ l.queue = <<>> /\ l.handed = <<>>
             /\ \A i \in 1 .. Len(l.replay) : Deliverable(l, l.replay[i], Committed)
  <2>1. PICK r : r = At(pc, connection[c])
    OBVIOUS
  <2>2. /\ r \in Connection /\ r.pc = pc /\ r.page = connection[c].page
        /\ r.registered = FALSE /\ r.live = <<>> /\ r.queue = <<>> /\ r.handed = <<>>
    <3>1. pc \in {"free", "current", "expiry", "select", "streaming", "ended", "refused", "thrown"}
      BY <1>4
    <3> QED
      BY <1>1, <2>1, <3>1, AtIsEmpty, ZenonT(30)
  <2>3. PICK t : t = IF connection[c].open THEN frames ELSE <<>>
    OBVIOUS
  <2>4. t \in Seq(Frame) /\ \A i \in 1 .. Len(t) : Deliverable(connection[c], t[i], Committed)
    BY <1>3, <2>3
  <2>5. l = [r EXCEPT !.replay = t]
    BY <1>4, <2>1, <2>3
  <2>6. /\ l \in Connection /\ l.pc = pc /\ l.page = connection[c].page /\ l.replay = t
        /\ l.registered = FALSE /\ l.live = <<>> /\ l.queue = <<>> /\ l.handed = <<>>
    BY <2>2, <2>4, <2>5 DEF Connection
  <2> QED
    BY <2>4, <2>6 DEF Deliverable
<1>5. CASE QuotaFree(User[connection[c].page])
  <2>1. PICK r : r = Begun("streaming", frames)
    OBVIOUS
  <2>2. PICK l : l = [r EXCEPT !.registered = TRUE]
    OBVIOUS
  <2>3. connection' = [connection EXCEPT ![c] = l] /\ UNCHANGED publisher
    BY <1>2, <1>5, <2>1, <2>2
  <2>4. /\ r \in Connection /\ r.pc = "streaming" /\ r.page = connection[c].page
        /\ r.live = <<>> /\ r.queue = <<>> /\ r.handed = <<>>
        /\ \A i \in 1 .. Len(r.replay) : Deliverable(r, r.replay[i], Committed)
    BY <1>4, <2>1
  <2>5. /\ l \in Connection /\ l.pc = "streaming" /\ l.page = connection[c].page
        /\ l.live = <<>> /\ l.queue = <<>> /\ l.handed = <<>> /\ l.registered = TRUE
        /\ l.replay = r.replay
    BY <2>2, <2>4 DEF Connection
  <2>6. Sound(l, Committed)
    <3>1. \A i \in 1 .. Len(l.replay) : Deliverable(l, l.replay[i], Committed)
      BY <2>4, <2>5 DEF Deliverable
    <3> QED
      BY <1>1, <2>5, <3>1, EmptyIsSound
  <2>7. connection'[c] = l /\ \A d \in Connections \ {c} : connection'[d] = connection[d]
    BY <1>1, <2>3
  <2>8. ConnectionsAreSound'
    BY <1>0, <1>1, <2>6, <2>7 DEF ConnectionsAreSound
  <2>9. \A d \in Connections : Kept(connection[d], connection'[d])
    BY <2>5, <2>7 DEF Kept
  <2>10. QuotaHeld'
    <3>1. c \notin Registered /\ Registered' = Registered \cup {c}
      BY <1>1, <2>5, <2>7 DEF Registered
    <3>2. /\ connection'[c].page = connection[c].page
          /\ \A d \in Registered : connection'[d].page = connection[d].page
      BY <2>5, <2>7 DEF Registered
    <3> QED
      BY <1>0, <1>5, <3>1, <3>2, QuotaTaken
  <2>11. PublishersAreSound' /\ SourcesAreTheirs' /\ AppliedInOrder' /\ VersionsBound'
    BY <1>0, <1>1, <2>3, <2>9, OthersFollow
  <2>12. RealtimeTypeOK'
    <3>1. connection' \in [Connections -> Connection]
      BY <1>1, <2>3, <2>5
    <3>2. \A d \in Connections : connection'[d].registered <=> connection'[d].pc = "streaming"
      BY <2>8 DEF ConnectionsAreSound, Sound
    <3> QED
      BY <1>0, <1>1, <2>3, <3>1, <3>2 DEF RealtimeTypeOK, store
  <2> QED
    BY <2>8, <2>10, <2>11, <2>12 DEF RealtimeIInv
<1>6. CASE ~QuotaFree(User[connection[c].page])
  <2>1. PICK l : l = Begun("thrown", frames)
    OBVIOUS
  <2>2. /\ l \in Connection /\ l.pc = "thrown" /\ l.page = connection[c].page
        /\ l.registered = FALSE /\ l.live = <<>> /\ l.queue = <<>> /\ l.handed = <<>>
        /\ \A i \in 1 .. Len(l.replay) : Deliverable(l, l.replay[i], Committed)
    BY <1>4, <2>1
  <2>3. Sound(l, Committed) /\ Kept(connection[c], l)
    BY <1>1, <2>2, EmptyIsSound DEF Kept
  <2>4. connection' = [d \in Connections |->
                        IF d = c THEN l
                        ELSE IF connection[d].pc \notin {"free", "refused"}
                             THEN Ended(connection[d]) ELSE connection[d]]
    BY <1>2, <1>6, <2>1
  <2>5. publisher' = [b \in Publishers |->
                       IF publisher[b].pc = "idle" THEN publisher[b] ELSE Done]
    BY <1>2, <1>6
  <2>6. ASSUME NEW d \in Connections
        PROVE  /\ Sound(connection'[d], Committed) /\ Kept(connection[d], connection'[d])
               /\ ~connection'[d].registered
    <3>1. Sound(connection[d], Committed)
      BY <1>0 DEF ConnectionsAreSound
    <3>2. CASE d = c
      <4>1. connection'[d] = l
        BY <2>4, <3>2
      <4> QED
        BY <2>2, <2>3, <3>2, <4>1
    <3>3. CASE d # c /\ connection[d].pc \notin {"free", "refused"}
      <4>1. connection'[d] = Ended(connection[d])
        BY <2>4, <3>3
      <4> QED
        BY <3>1, <3>3, <4>1, EndedIsSound
    <3>4. CASE d # c /\ connection[d].pc \in {"free", "refused"}
      <4>1. connection'[d] = connection[d]
        BY <2>4, <3>4
      <4> QED
        BY <3>1, <3>4, <4>1 DEF Sound, Kept
    <3> QED
      BY <3>2, <3>3, <3>4
  <2>7. ConnectionsAreSound'
    BY <1>1, <2>6 DEF ConnectionsAreSound
  <2>8. QuotaHeld'
    <3>1. Registered' = {}
      BY <2>6 DEF Registered
    <3> QED
      BY <1>0, <3>1, QuotaKept
  <2>9. PublishersAreSound'
    <3>1. \A b \in Publishers : publisher'[b].pc \in {"idle", "done"}
      BY <2>5 DEF Done, Idle
    <3> QED
      BY <3>1 DEF PublishersAreSound
  <2>10. SourcesAreTheirs' /\ AppliedInOrder' /\ VersionsBound'
    BY <1>0, <1>1, <2>6, OthersFollow
  <2>11. RealtimeTypeOK'
    <3>1. connection' \in [Connections -> Connection]
      BY <2>4, <2>6 DEF Sound
    <3>2. \A d \in Connections : connection'[d].registered <=> connection'[d].pc = "streaming"
      BY <2>7 DEF ConnectionsAreSound, Sound
    <3>3. publisher' \in [Publishers -> Publisher]
      <4>1. Done \in Publisher
        BY DEF Done, Idle, Publisher
      <4> HIDE DEF Done
      <4> QED
        BY <1>1, <2>5, <4>1
    <3> QED
      BY <1>0, <1>1, <3>1, <3>2, <3>3 DEF RealtimeTypeOK, store
  <2> QED
    BY <2>7, <2>8, <2>9, <2>10, <2>11 DEF RealtimeIInv
<1> QED
  BY <1>5, <1>6

\* A call of publish moves, and no connection or page.
LEMMA PublisherStep ==
  ASSUME RealtimeIInv, UNCHANGED <<store, session, connection, page>>,
         NEW b \in Publishers, NEW r \in Publisher, publisher' = [publisher EXCEPT ![b] = r],
         r.pc \in {"next", "answer"} =>
           /\ r.event \in Committed
           /\ r.pc = "answer" => r.to \in Connections
           /\ \A c \in r.todo \cup ({r.to} \ {NoConnection}) :
                /\ connection[c].pc # "free"
                /\ connection[c].page \in Audience[r.event]
  PROVE  RealtimeIInv'
<1>0. /\ RealtimeTypeOK /\ QuotaHeld /\ AppliedInOrder /\ ConnectionsAreSound
      /\ PublishersAreSound /\ SourcesAreTheirs /\ VersionsBound
  BY DEF RealtimeIInv
<1>1. Committed' = Committed /\ \A c \in Connections : Kept(connection[c], connection'[c])
  BY DEF store, Committed, Kept
<1>2. SourcesAreTheirs' /\ AppliedInOrder' /\ VersionsBound'
  BY <1>0, <1>1, OthersFollow
<1>3. QuotaHeld' /\ ConnectionsAreSound'
  BY <1>0, <1>1 DEF QuotaHeld, ConnectionCount, Registered, ConnectionsAreSound
<1>4. publisher \in [Publishers -> Publisher]
  BY <1>0 DEF RealtimeTypeOK
<1>5. PublishersAreSound'
  <2>1. publisher'[b] = r /\ \A x \in Publishers \ {b} : publisher'[x] = publisher[x]
    BY <1>4
  <2> SUFFICES ASSUME NEW x \in Publishers, publisher'[x].pc \in {"next", "answer"}
               PROVE  /\ publisher'[x].event \in Committed
                      /\ publisher'[x].pc = "answer" => publisher'[x].to \in Connections
                      /\ \A c \in publisher'[x].todo \cup ({publisher'[x].to} \ {NoConnection}) :
                           /\ connection[c].pc # "free"
                           /\ connection[c].page \in Audience[publisher'[x].event]
    BY <1>1 DEF PublishersAreSound
  <2>2. CASE x = b
    BY <2>1, <2>2
  <2>3. CASE x # b
    BY <1>0, <2>1, <2>3 DEF PublishersAreSound
  <2> QED
    BY <2>2, <2>3
<1>6. RealtimeTypeOK'
  BY <1>0, <1>4 DEF RealtimeTypeOK, store
<1> QED
  BY <1>2, <1>3, <1>5, <1>6 DEF RealtimeIInv

LEMMA PublishStep ==
  ASSUME RealtimeIInv, NEW b \in Publishers, NEW e \in Events, Publish(b, e)
  PROVE  RealtimeIInv'
<1> USE RealtimeAssumption DEF RealtimeAssumption
<1>1. PICK T : T = {c \in Registered : Hears(connection[c].page, e)}
  OBVIOUS
<1>2. PICK r : r = [Idle EXCEPT !.pc = "next", !.event = e, !.todo = T]
  OBVIOUS
<1>3. /\ T \subseteq Connections
      /\ \A c \in T : connection[c].registered /\ connection[c].page \in Audience[e]
  BY <1>1 DEF Registered, Hears
<1>4. /\ r \in Publisher /\ r.pc = "next" /\ r.event = e /\ r.todo = T /\ r.to = NoConnection
  BY <1>2, <1>3 DEF Idle, Publisher
<1>5. \A c \in T : connection[c].pc # "free"
  BY <1>3 DEF RealtimeIInv, RealtimeTypeOK
<1>6. e \in Committed
  BY DEF Publish, Committed
<1>7. /\ publisher' = [publisher EXCEPT ![b] = r]
      /\ UNCHANGED <<store, session, connection, page>>
  BY <1>1, <1>2 DEF Publish
<1> QED
  BY <1>3, <1>4, <1>5, <1>6, <1>7, PublisherStep

LEMMA AuthorizeStep ==
  ASSUME RealtimeIInv, NEW b \in Publishers, NEW c \in Connections, Authorize(b, c)
  PROVE  RealtimeIInv'
<1> USE RealtimeAssumption DEF RealtimeAssumption
<1>1. /\ RealtimeTypeOK /\ publisher[b] \in Publisher /\ publisher[b].pc = "next"
      /\ c \in publisher[b].todo
  BY DEF RealtimeIInv, RealtimeTypeOK, Authorize
<1>2. /\ publisher[b].event \in Committed
      /\ \A d \in publisher[b].todo : /\ connection[d].pc # "free"
                                      /\ connection[d].page \in Audience[publisher[b].event]
  BY <1>1 DEF RealtimeIInv, PublishersAreSound
<1>3. PICK s \in BOOLEAN : s = session[User[connection[c].page]]
  <2>1. connection[c].page \in Pages
    BY <1>1, <1>2 DEF RealtimeIInv, ConnectionsAreSound, Sound, Addressed
  <2> QED
    BY <1>1, <2>1 DEF RealtimeTypeOK
<1>4. PICK r : r = [publisher[b] EXCEPT !.pc = "answer", !.todo = @ \ {c}, !.to = c, !.allowed = s]
  OBVIOUS
<1>5. /\ r \in Publisher /\ r.pc = "answer" /\ r.event = publisher[b].event
      /\ r.todo = publisher[b].todo \ {c} /\ r.to = c
  BY <1>1, <1>4 DEF Publisher
<1>6. /\ publisher' = [publisher EXCEPT ![b] = r]
      /\ UNCHANGED <<store, session, connection, page>>
  BY <1>3, <1>4 DEF Authorize
<1> QED
  BY <1>1, <1>2, <1>5, <1>6, PublisherStep

LEMMA PublishEndsStep ==
  ASSUME RealtimeIInv, NEW b \in Publishers, PublishEnds(b)
  PROVE  RealtimeIInv'
<1>1. Done \in Publisher /\ Done.pc = "done"
  BY DEF Done, Idle, Publisher
<1>2. /\ publisher' = [publisher EXCEPT ![b] = Done]
      /\ UNCHANGED <<store, session, connection, page>>
  BY DEF PublishEnds
<1> HIDE DEF Done
<1> QED
  BY <1>1, <1>2, PublisherStep

\* The event, or the revocation that ends the connection.
LEMMA DeliverStep ==
  ASSUME RealtimeIInv, NEW b \in Publishers, Deliver(b)
  PROVE  RealtimeIInv'
<1> USE RealtimeAssumption DEF RealtimeAssumption
<1>0. /\ RealtimeTypeOK /\ QuotaHeld /\ AppliedInOrder /\ ConnectionsAreSound
      /\ PublishersAreSound /\ SourcesAreTheirs /\ VersionsBound
  BY DEF RealtimeIInv
<1>1. /\ publisher \in [Publishers -> Publisher] /\ publisher[b] \in Publisher
      /\ publisher[b].pc = "answer" /\ UNCHANGED <<store, session, page>>
  BY <1>0 DEF RealtimeTypeOK, Deliver
<1>2. PICK c \in Connections, e \in Events : c = publisher[b].to /\ e = publisher[b].event
  <2>1. publisher[b].to \in Connections /\ publisher[b].event \in Committed
    BY <1>0, <1>1 DEF PublishersAreSound
  <2> QED
    BY <1>0, <2>1 DEF Committed, RealtimeTypeOK
<1>3. /\ connection[c].pc # "free" /\ connection[c].page \in Audience[e] /\ e \in Committed
      /\ sequence[e] \in Nat /\ Sound(connection[c], Committed)
  <2>1. c \in {publisher[b].to} \ {NoConnection}
    BY <1>2
  <2> QED
    BY <1>0, <1>1, <1>2, <2>1 DEF PublishersAreSound, RealtimeTypeOK, ConnectionsAreSound
<1>4. PICK f : f = IF publisher[b].allowed THEN EventFrame(e)
                   ELSE [type |-> "revoked", event |-> NoEvent, id |-> sequence[e]]
  OBVIOUS
<1>5. /\ f \in Frame /\ Deliverable(connection[c], f, Committed)
      /\ publisher[b].allowed => f.type = "event"
  BY <1>3, <1>4 DEF Frame, EventFrame, Deliverable
<1>6. \E q \in Sent(connection[c], f) : \E l :
        /\ \/ publisher[b].allowed /\ l = q
           \/ l = IF q.registered THEN Ended(q) ELSE q
        /\ connection' = [connection EXCEPT ![c] = l]
  <2>1. CASE publisher[b].allowed
    <3>1. \E k \in Sent(connection[c], f) : connection' = [connection EXCEPT ![c] = k]
      BY <1>2, <1>4, <2>1 DEF Deliver
    <3> QED
      BY <2>1, <3>1
  <2>2. CASE ~publisher[b].allowed
    <3>1. \E k \in {IF q.registered THEN Ended(q) ELSE q : q \in Sent(connection[c], f)} :
            connection' = [connection EXCEPT ![c] = k]
      BY <1>2, <1>4, <2>2 DEF Deliver
    <3> QED
      BY <3>1
  <2> QED
    BY <2>1, <2>2
<1>a. PICK q \in Sent(connection[c], f) : \E l :
        /\ \/ publisher[b].allowed /\ l = q
           \/ l = IF q.registered THEN Ended(q) ELSE q
        /\ connection' = [connection EXCEPT ![c] = l]
  BY <1>6, Zenon
<1>b. PICK l :
        /\ \/ publisher[b].allowed /\ l = q
           \/ l = IF q.registered THEN Ended(q) ELSE q
        /\ connection' = [connection EXCEPT ![c] = l]
  BY <1>a, Zenon
<1>7. /\ Sound(l, Committed) /\ Kept(connection[c], l)
      /\ l.registered => connection[c].registered
  <2>1. \/ f.type # "revoked" /\ l = q
        \/ l = IF q.registered THEN Ended(q) ELSE q
    BY <1>5, <1>b
  <2> QED
    BY <1>3, <1>5, <2>1, DeliveredIsSound
<1>8. /\ connection' \in [Connections -> Connection]
      /\ \A d \in Connections : connection'[d].registered <=> connection'[d].pc = "streaming"
      /\ ConnectionsAreSound' /\ QuotaHeld' /\ Committed' = Committed
      /\ \A d \in Connections : Kept(connection[d], connection'[d])
  <2>1. l.registered => l.page = connection[c].page
    BY <1>3, <1>7 DEF Kept
  <2> QED
    BY <1>1, <1>b, <1>7, <2>1, OneConnection
<1>9. PICK r : r = [publisher[b] EXCEPT !.pc = "next", !.to = NoConnection, !.allowed = FALSE]
  OBVIOUS
<1>10. /\ r \in Publisher /\ r.pc = "next" /\ r.event = publisher[b].event
       /\ r.todo = publisher[b].todo /\ r.to = NoConnection
  BY <1>1, <1>9 DEF Publisher
<1>11. /\ publisher' = [publisher EXCEPT ![b] = r] /\ publisher' \in [Publishers -> Publisher]
       /\ publisher'[b] = r /\ \A x \in Publishers \ {b} : publisher'[x] = publisher[x]
  BY <1>1, <1>9, <1>10 DEF Deliver
<1>12. PublishersAreSound'
  <2> SUFFICES ASSUME NEW x \in Publishers, publisher'[x].pc \in {"next", "answer"}
               PROVE  /\ publisher'[x].event \in Committed
                      /\ publisher'[x].pc = "answer" => publisher'[x].to \in Connections
                      /\ \A d \in publisher'[x].todo \cup ({publisher'[x].to} \ {NoConnection}) :
                           /\ connection'[d].pc # "free"
                           /\ connection'[d].page \in Audience[publisher'[x].event]
    BY <1>8 DEF PublishersAreSound
  <2>1. /\ publisher[x].pc \in {"next", "answer"} /\ publisher[x].event = publisher'[x].event
        /\ publisher'[x].todo = publisher[x].todo
        /\ publisher'[x].to \in {publisher[x].to, NoConnection}
        /\ publisher'[x].pc = "answer" => publisher[x].pc = "answer" /\ publisher'[x].to = publisher[x].to
    BY <1>1, <1>10, <1>11
  <2>2. /\ publisher[x].event \in Committed
        /\ publisher[x].pc = "answer" => publisher[x].to \in Connections
        /\ \A d \in publisher[x].todo \cup ({publisher[x].to} \ {NoConnection}) :
             /\ connection[d].pc # "free"
             /\ connection[d].page \in Audience[publisher[x].event]
    BY <1>0, <2>1 DEF PublishersAreSound
  <2>3. publisher[x].todo \subseteq Connections /\ publisher[x].to \in Connections \cup {NoConnection}
    BY <1>1 DEF Publisher
  <2> QED
    BY <1>8, <2>1, <2>2, <2>3 DEF Kept
<1>13. SourcesAreTheirs' /\ AppliedInOrder' /\ VersionsBound'
  BY <1>0, <1>1, <1>8, OthersFollow
<1>14. RealtimeTypeOK'
  BY <1>0, <1>1, <1>8, <1>11 DEF RealtimeTypeOK, store
<1> QED
  BY <1>8, <1>12, <1>13, <1>14 DEF RealtimeIInv

\* What page p applied is committed, its to hear, and in the order of versions.
Heard(q, p, S) ==
  /\ \A i \in 1 .. Len(q.applied) :
       /\ q.applied[i] \in S /\ p \in Audience[q.applied[i]]
       /\ Version[q.applied[i]] <= q.versions[Aggregate[q.applied[i]]]
  /\ \A i, j \in 1 .. Len(q.applied) :
       i < j /\ Aggregate[q.applied[i]] = Aggregate[q.applied[j]]
       => Version[q.applied[i]] < Version[q.applied[j]]

\* What a browser makes of a frame that it may be shown.
LEMMA ReceivedIsSound ==
  ASSUME NEW q \in Page, NEW f \in Frame, NEW p \in Pages, NEW S \in SUBSET Events,
         f.type = "event" => f.event \in S /\ p \in Audience[f.event],
         Heard(q, p, S),
         NEW r, r = Received(q, f)
  PROVE  r \in Page /\ r.source = q.source /\ Heard(r, p, S)
<1> USE RealtimeAssumption DEF RealtimeAssumption
<1> DEFINE got == [q EXCEPT !.read = @ + 1, !.lastEventId = f.id]
           e == f.event
<1>1. /\ got \in Page /\ got.source = q.source /\ got.applied = q.applied
      /\ got.versions = q.versions
  <2>1. f.id \in Nat
    BY DEF Frame
  <2>2. q.read + 1 \in Nat
    BY DEF Page
  <2>3. PICK n \in Nat, m \in Nat : n = q.read + 1 /\ m = f.id
    BY <2>1, <2>2
  <2>4. got = [q EXCEPT !.read = n, !.lastEventId = m]
    BY <2>3
  <2> HIDE DEF got
  <2> QED
    BY <2>4 DEF Page
<1>2. CASE ~ (f.type = "event" /\ Newer(q, e))
  <2>1. r = got
    BY <1>2 DEF Received
  <2> QED
    BY <1>1, <2>1 DEF Heard
<1>3. CASE f.type = "event" /\ Newer(q, e)
  <2> DEFINE s == Append(q.applied, e)
             v == [q.versions EXCEPT ![Aggregate[e]] = Version[e]]
  <2>1. /\ e \in Events /\ e \in S /\ p \in Audience[e]
        /\ Version[e] \in Nat /\ Aggregate[e] \in Aggregates
        /\ q.versions \in [Aggregates -> Nat] /\ q.applied \in Seq(Events)
    BY <1>3 DEF Frame, Page
  <2>2. /\ s \in Seq(Events) /\ Len(q.applied) \in Nat /\ Len(s) = Len(q.applied) + 1
        /\ s[Len(q.applied) + 1] = e
        /\ \A i \in 1 .. Len(q.applied) : s[i] = q.applied[i]
    BY <2>1, Appended
  <2>3. /\ v \in [Aggregates -> Nat] /\ v[Aggregate[e]] = Version[e]
        /\ \A a \in Aggregates : a # Aggregate[e] => v[a] = q.versions[a]
    BY <2>1
  <2>4. r = [got EXCEPT !.applied = s, !.versions = v]
    BY <1>1, <1>3 DEF Received
  <2>5. Version[e] > q.versions[Aggregate[e]]
    BY <1>3 DEF Newer
  <2> HIDE DEF got, s, v, e
  <2>6. r \in Page /\ r.source = q.source /\ r.applied = s /\ r.versions = v
    BY <1>1, <2>2, <2>3, <2>4 DEF Page
  <2>7. \A i \in 1 .. Len(s) : i = Len(q.applied) + 1 \/ i \in 1 .. Len(q.applied)
    BY <2>2
  <2>8. \A i \in 1 .. Len(q.applied) : /\ q.applied[i] \in Events
                                       /\ Version[q.applied[i]] \in Nat
                                       /\ Aggregate[q.applied[i]] \in Aggregates
                                       /\ q.versions[Aggregate[q.applied[i]]] \in Nat
    <3>1. \A i \in 1 .. Len(q.applied) : q.applied[i] \in Events
      BY <2>1
    <3>2. \A d \in Events : /\ Version[d] \in Nat /\ Aggregate[d] \in Aggregates
                            /\ q.versions[Aggregate[d]] \in Nat
      BY <2>1
    <3> QED
      BY <3>1, <3>2, Zenon
  <2>9. ASSUME NEW i \in 1 .. Len(s)
        PROVE  s[i] \in S /\ p \in Audience[s[i]] /\ Version[s[i]] <= v[Aggregate[s[i]]]
    <3>1. CASE i = Len(q.applied) + 1
      BY <2>1, <2>2, <2>3, <3>1
    <3>2. CASE i \in 1 .. Len(q.applied)
      <4>1. /\ s[i] = q.applied[i] /\ Version[s[i]] \in Nat /\ Aggregate[s[i]] \in Aggregates
            /\ q.versions[Aggregate[s[i]]] \in Nat
            /\ Version[s[i]] <= q.versions[Aggregate[s[i]]]
            /\ s[i] \in S /\ p \in Audience[s[i]]
        BY <2>2, <2>8, <3>2 DEF Heard
      <4>2. Version[s[i]] <= v[Aggregate[s[i]]]
        <5>1. CASE Aggregate[s[i]] = Aggregate[e]
          BY <2>1, <2>3, <2>5, <4>1, <5>1
        <5>2. CASE Aggregate[s[i]] # Aggregate[e]
          BY <2>3, <4>1, <5>2
        <5> QED
          BY <5>1, <5>2
      <4> QED
        BY <4>1, <4>2
    <3> QED
      BY <2>7, <3>1, <3>2
  <2>10. ASSUME NEW i \in 1 .. Len(s), NEW j \in 1 .. Len(s), i < j,
                Aggregate[s[i]] = Aggregate[s[j]]
         PROVE  Version[s[i]] < Version[s[j]]
    <3>1. i \in 1 .. Len(q.applied)
      BY <2>2, <2>10
    <3>2. s[i] = q.applied[i] /\ Version[s[i]] \in Nat
      BY <2>2, <2>8, <3>1
    <3>3. CASE j \in 1 .. Len(q.applied)
      BY <2>2, <2>10, <3>1, <3>3 DEF Heard
    <3>4. CASE j = Len(q.applied) + 1
      <4>1. s[j] = e
        BY <2>2, <3>4
      <4>2. /\ q.versions[Aggregate[e]] \in Nat
            /\ Version[s[i]] <= q.versions[Aggregate[e]]
        BY <2>8, <2>10, <3>1, <3>2, <4>1 DEF Heard
      <4> QED
        BY <2>1, <2>5, <3>2, <4>1, <4>2
    <3> QED
      BY <2>7, <3>3, <3>4
  <2>11. Heard(r, p, S)
    BY <2>6, <2>9, <2>10 DEF Heard
  <2> QED
    BY <2>6, <2>11
<1> QED
  BY <1>2, <1>3

LEMMA ReceiveStep ==
  ASSUME RealtimeIInv, NEW p \in Pages, Receive(p)
  PROVE  RealtimeIInv'
<1> USE RealtimeAssumption DEF RealtimeAssumption
<1>0. /\ RealtimeTypeOK /\ QuotaHeld /\ AppliedInOrder /\ ConnectionsAreSound
      /\ PublishersAreSound /\ SourcesAreTheirs /\ VersionsBound
  BY DEF RealtimeIInv
<1>1. /\ page \in [Pages -> Page] /\ page[p] \in Page /\ page[p].source \in Connections
      /\ UNCHANGED <<store, session, connection, publisher>>
      /\ Committed \subseteq Events
  BY <1>0 DEF RealtimeTypeOK, Receive, Page, Committed
<1>2. PICK k \in Connection : k = connection[page[p].source]
  BY <1>0, <1>1 DEF RealtimeTypeOK
<1>3. Sound(k, Committed) /\ k.page = p
  BY <1>0, <1>1, <1>2 DEF ConnectionsAreSound, SourcesAreTheirs
<1>4. PICK n \in Nat : n = page[p].read + 1
  BY <1>1 DEF Page
<1>5. PICK f : f = Written(k)[n]
  OBVIOUS
<1>6. f \in Frame /\ Deliverable(k, f, Committed)
  <2>1. k.replay \in Seq(Frame) /\ k.live \in Seq(Frame)
    BY DEF Connection
  <2>2. PICK s \in Seq(Frame), t \in Seq(Frame) : s = k.replay /\ t = k.live
    BY <2>1
  <2>3. n \in 1 .. Len(s \o t)
    <3>1. page[p].read < Len(s \o t) /\ page[p].read \in Nat
      BY <1>1, <1>2, <2>2 DEF Receive, Page, Written
    <3>2. Len(s \o t) \in Nat
      OBVIOUS
    <3> QED
      BY <1>4, <3>1, <3>2
  <2>4. \/ n \in 1 .. Len(s) /\ (s \o t)[n] = s[n]
        \/ n - Len(s) \in 1 .. Len(t) /\ (s \o t)[n] = t[n - Len(s)]
    BY <2>3
  <2>5. f = (s \o t)[n]
    BY <1>5, <2>2 DEF Written
  <2>6. /\ \A i \in 1 .. Len(s) : s[i] \in Frame /\ Deliverable(k, s[i], Committed)
        /\ \A i \in 1 .. Len(t) : t[i] \in Frame /\ Deliverable(k, t[i], Committed)
    <3>1. /\ \A i \in 1 .. Len(s) : Deliverable(k, s[i], Committed)
          /\ \A i \in 1 .. Len(t) : Deliverable(k, t[i], Committed)
      BY <1>3, <2>2 DEF Sound, Addressed
    <3> QED
      BY <3>1
  <2> QED
    BY <2>4, <2>5, <2>6
<1>7. PICK r : r = Received(page[p], f)
  OBVIOUS
<1>8. /\ page' = [page EXCEPT ![p] = r]
  BY <1>2, <1>4, <1>5, <1>7 DEF Receive
<1>9. r \in Page /\ r.source = page[p].source /\ Heard(r, p, Committed)
  <2>1. page[p].applied \in Seq(Events)
    BY <1>1 DEF Page
  <2>2. DOMAIN page[p].applied = 1 .. Len(page[p].applied)
    BY <2>1
  <2>3. Heard(page[p], p, Committed)
    BY <1>0, <2>2 DEF AppliedInOrder, VersionsBound, Committed, Heard
  <2>4. f.type = "event" => f.event \in Committed /\ p \in Audience[f.event]
    BY <1>3, <1>6 DEF Deliverable
  <2>5. Committed \in SUBSET Events
    BY <1>1
  <2> QED
    BY <1>1, <1>6, <1>7, <2>3, <2>4, <2>5, ReceivedIsSound
<1>10. page'[p] = r /\ page' \in [Pages -> Page] /\ \A x \in Pages \ {p} : page'[x] = page[x]
  BY <1>1, <1>8, <1>9
<1>11. Committed' = Committed
  BY <1>1 DEF store, Committed
<1>12. AppliedInOrder'
  <2> SUFFICES ASSUME NEW x \in Pages, NEW i \in DOMAIN page'[x].applied, NEW j \in DOMAIN page'[x].applied
               PROVE  /\ x \in Audience[page'[x].applied[i]] /\ page'[x].applied[i] \in Committed
                      /\ i < j /\ Aggregate[page'[x].applied[i]] = Aggregate[page'[x].applied[j]]
                         => Version[page'[x].applied[i]] < Version[page'[x].applied[j]]
    BY <1>11 DEF AppliedInOrder, Committed
  <2>1. CASE x = p
    <3>1. r.applied \in Seq(Events)
      BY <1>9 DEF Page
    <3>2. DOMAIN r.applied = 1 .. Len(r.applied)
      BY <3>1
    <3> QED
      BY <1>9, <1>10, <2>1, <3>2 DEF Heard
  <2>2. CASE x # p
    BY <1>0, <1>10, <2>2 DEF AppliedInOrder, Committed
  <2> QED
    BY <2>1, <2>2
<1>13. VersionsBound'
  BY <1>0, <1>9, <1>10 DEF VersionsBound, Heard
<1>14. SourcesAreTheirs'
  BY <1>0, <1>1, <1>9, <1>10 DEF SourcesAreTheirs
<1>15. PublishersAreSound'
  <2>1. \A c \in Connections : Kept(connection[c], connection'[c])
    BY <1>1 DEF Kept
  <2> QED
    BY <1>0, <1>1, <1>11, <2>1, OthersFollow
<1>16. RealtimeTypeOK' /\ QuotaHeld' /\ ConnectionsAreSound'
  <2>1. QuotaHeld'
    BY <1>0, <1>1 DEF QuotaHeld, ConnectionCount, Registered
  <2>2. ConnectionsAreSound'
    BY <1>0, <1>1, <1>11 DEF ConnectionsAreSound
  <2>3. RealtimeTypeOK'
    BY <1>0, <1>1, <1>10 DEF RealtimeTypeOK, store
  <2> QED
    BY <2>1, <2>2, <2>3
<1> QED
  BY <1>12, <1>13, <1>14, <1>15, <1>16 DEF RealtimeIInv

LEMMA LoadedIsEmpty ==
  /\ Loaded \in Page /\ Loaded.source = NoConnection /\ Loaded.applied = <<>>
  BY DEF Loaded, Page

\* A page that lets go of its connection, or starts anew.
LEMMA LetsGo ==
  ASSUME RealtimeIInv, Committed' = Committed, NEW p \in Pages, NEW q \in Page,
         page' = [page EXCEPT ![p] = q], q.source = NoConnection,
         \/ q.applied = page[p].applied /\ q.versions = page[p].versions
         \/ q.applied = <<>>,
         \A c \in Connections : Kept(connection[c], connection'[c])
  PROVE  page' \in [Pages -> Page] /\ SourcesAreTheirs' /\ AppliedInOrder' /\ VersionsBound'
<1>0. RealtimeTypeOK /\ AppliedInOrder /\ SourcesAreTheirs /\ VersionsBound
  BY DEF RealtimeIInv
<1>1. page \in [Pages -> Page]
  BY <1>0 DEF RealtimeTypeOK
<1>2. /\ page' \in [Pages -> Page] /\ page'[p] = q
      /\ \A x \in Pages \ {p} : page'[x] = page[x]
  BY <1>1
<1>3. SourcesAreTheirs'
  <2>1. \A x \in Pages : page[x].source \in Connections \cup {NoConnection}
    BY <1>1 DEF Page
  <2> QED
    BY <1>0, <1>2, <2>1 DEF SourcesAreTheirs, Kept
<1>4. AppliedInOrder'
  <2> SUFFICES ASSUME NEW x \in Pages, NEW i \in DOMAIN page'[x].applied, NEW j \in DOMAIN page'[x].applied
               PROVE  /\ x \in Audience[page'[x].applied[i]] /\ page'[x].applied[i] \in Committed
                      /\ i < j /\ Aggregate[page'[x].applied[i]] = Aggregate[page'[x].applied[j]]
                         => Version[page'[x].applied[i]] < Version[page'[x].applied[j]]
    BY DEF AppliedInOrder, Committed
  <2>1. page'[x].applied = page[x].applied
    BY <1>2
  <2> QED
    BY <1>0, <2>1 DEF AppliedInOrder, Committed
<1>5. VersionsBound'
  <2> SUFFICES ASSUME NEW x \in Pages, NEW i \in 1 .. Len(page'[x].applied)
               PROVE  Version[page'[x].applied[i]] <= page'[x].versions[Aggregate[page'[x].applied[i]]]
    BY DEF VersionsBound
  <2>1. page'[x].applied = page[x].applied /\ page'[x].versions = page[x].versions
    BY <1>2
  <2> QED
    BY <1>0, <2>1 DEF VersionsBound
<1> QED
  BY <1>2, <1>3, <1>4, <1>5

LEMMA ReloadStep ==
  ASSUME RealtimeIInv, NEW p \in Pages, Reload(p)
  PROVE  RealtimeIInv'
<1>0. /\ RealtimeTypeOK /\ QuotaHeld /\ ConnectionsAreSound /\ PublishersAreSound
  BY DEF RealtimeIInv
<1>1. /\ page' = [page EXCEPT ![p] = Loaded]
      /\ UNCHANGED <<store, session, connection, publisher>>
  BY DEF Reload
<1>2. Committed' = Committed /\ \A c \in Connections : Kept(connection[c], connection'[c])
  BY <1>1 DEF store, Committed, Kept
<1>3. page' \in [Pages -> Page] /\ SourcesAreTheirs' /\ AppliedInOrder' /\ VersionsBound'
  BY <1>1, <1>2, LetsGo, LoadedIsEmpty
<1>4. PublishersAreSound'
  BY <1>0, <1>1, <1>2, OthersFollow
<1>5. QuotaHeld'
  BY <1>0, <1>1 DEF QuotaHeld, ConnectionCount, Registered
<1>6. ConnectionsAreSound'
  BY <1>0, <1>1, <1>2 DEF ConnectionsAreSound
<1>7. RealtimeTypeOK'
  BY <1>0, <1>1, <1>3 DEF RealtimeTypeOK, store
<1> QED
  BY <1>3, <1>4, <1>5, <1>6, <1>7 DEF RealtimeIInv

LEMMA LeaveStep ==
  ASSUME RealtimeIInv, NEW p \in Pages, Leave(p)
  PROVE  RealtimeIInv'
<1> USE RealtimeAssumption DEF RealtimeAssumption
<1>0. /\ RealtimeTypeOK /\ QuotaHeld /\ ConnectionsAreSound /\ PublishersAreSound /\ SourcesAreTheirs
  BY DEF RealtimeIInv
<1>1. PICK c \in Connections : c = page[p].source
  BY <1>0 DEF RealtimeTypeOK, Page, Leave
<1>2. /\ Sound(connection[c], Committed) /\ connection[c] \in Connection
      /\ connection[c].pc # "free" /\ connection[c].page \in Pages
      /\ page[p] \in Page /\ UNCHANGED <<store, session, publisher>>
  BY <1>0, <1>1 DEF RealtimeTypeOK, ConnectionsAreSound, SourcesAreTheirs, Sound, Addressed, Leave
<1>3. PICK r : r = IF connection[c].pc \in {"current", "expiry", "select"}
                   THEN connection[c] ELSE At("ended", connection[c])
  OBVIOUS
<1>4. PICK l : l = [r EXCEPT !.open = FALSE]
  OBVIOUS
<1>5. connection' = [connection EXCEPT ![c] = l]
  BY <1>1, <1>3, <1>4 DEF Leave
<1>6. Sound(l, Committed) /\ Kept(connection[c], l) /\ ~l.registered
  <2>1. CASE connection[c].pc \in {"current", "expiry", "select"}
    <3>1. /\ l \in Connection /\ l.pc = connection[c].pc /\ l.page = connection[c].page
          /\ l.open = FALSE /\ l.registered = connection[c].registered
          /\ l.blocked = connection[c].blocked /\ l.replay = connection[c].replay
          /\ l.live = connection[c].live /\ l.queue = connection[c].queue
          /\ l.handed = connection[c].handed
      BY <1>2, <1>3, <1>4, <2>1 DEF Connection
    <3>2. Unbroken(l)
      BY <3>1 DEF Unbroken
    <3>3. Silenced(l) /\ Addressed(l, Committed)
      BY <1>2, <3>1 DEF Sound, Silenced, Addressed, Deliverable
    <3> QED
      BY <1>2, <2>1, <3>1, <3>2, <3>3 DEF Sound, Kept
  <2>2. CASE connection[c].pc \notin {"current", "expiry", "select"}
    <3>1. /\ r \in Connection /\ r.pc = "ended" /\ r.page = connection[c].page
          /\ r.registered = FALSE /\ r.live = <<>> /\ r.queue = <<>> /\ r.handed = <<>>
          /\ r.replay = <<>>
      BY <1>2, <1>3, <2>2, AtIsEmpty
    <3>2. /\ l \in Connection /\ l.pc = "ended" /\ l.page = connection[c].page
          /\ l.registered = FALSE /\ l.live = <<>> /\ l.queue = <<>> /\ l.handed = <<>>
          /\ l.replay = <<>>
      BY <1>4, <3>1 DEF Connection
    <3> QED
      BY <1>2, <3>2, EmptyIsSound DEF Kept
  <2> QED
    BY <2>1, <2>2
<1>7. /\ connection' \in [Connections -> Connection]
      /\ \A d \in Connections : connection'[d].registered <=> connection'[d].pc = "streaming"
      /\ ConnectionsAreSound' /\ QuotaHeld' /\ Committed' = Committed
      /\ \A d \in Connections : Kept(connection[d], connection'[d])
  BY <1>2, <1>5, <1>6, OneConnection
<1>8. PICK q \in Page : /\ page' = [page EXCEPT ![p] = q] /\ q.source = NoConnection
                        /\ \/ q.applied = page[p].applied /\ q.versions = page[p].versions
                           \/ q.applied = <<>>
  <2>1. \/ page' = [page EXCEPT ![p].source = NoConnection, ![p].read = 0]
        \/ page' = [page EXCEPT ![p] = Loaded]
    BY DEF Leave
  <2>2. PICK q : q = [page[p] EXCEPT !.source = NoConnection, !.read = 0]
    OBVIOUS
  <2>3. /\ q \in Page /\ q.source = NoConnection /\ q.applied = page[p].applied
        /\ q.versions = page[p].versions
    BY <1>2, <2>2 DEF Page
  <2>4. CASE page' = [page EXCEPT ![p].source = NoConnection, ![p].read = 0]
    BY <2>2, <2>3, <2>4, ZenonT(30)
  <2>5. CASE page' = [page EXCEPT ![p] = Loaded]
    BY <2>5, LoadedIsEmpty
  <2> QED
    BY <2>1, <2>4, <2>5
<1>9. page' \in [Pages -> Page] /\ SourcesAreTheirs' /\ AppliedInOrder' /\ VersionsBound'
  BY <1>7, <1>8, LetsGo
<1>10. PublishersAreSound'
  BY <1>0, <1>2, <1>7, OthersFollow
<1>11. RealtimeTypeOK'
  BY <1>0, <1>2, <1>7, <1>9 DEF RealtimeTypeOK, store
<1> QED
  BY <1>7, <1>9, <1>10, <1>11 DEF RealtimeIInv

-----------------------------------------------------------------------------
(* The theorems *)

LEMMA NextHolds ==
  ASSUME RealtimeIInv, [RealtimeNext]_rvars
  PROVE  RealtimeIInv'
<1>1. CASE UNCHANGED rvars
  <2> USE <1>1 DEF rvars, store
  <2>1. RealtimeTypeOK' /\ QuotaHeld' /\ AppliedInOrder'
    BY DEF RealtimeIInv, RealtimeTypeOK, QuotaHeld, ConnectionCount, Registered, AppliedInOrder
  <2>2. SourcesAreTheirs' /\ VersionsBound'
    BY DEF RealtimeIInv, SourcesAreTheirs, VersionsBound
  <2>3. Committed' = Committed
    BY DEF Committed
  <2>4. ConnectionsAreSound'
    BY <2>3 DEF RealtimeIInv, ConnectionsAreSound
  <2>5. PublishersAreSound'
    BY <2>3 DEF RealtimeIInv, PublishersAreSound
  <2> QED
    BY <2>1, <2>2, <2>4, <2>5 DEF RealtimeIInv
<1>2. CASE \/ \E e \in Events : Insert(e) \/ Commit(e) \/ Expire(e)
           \/ Prune
           \/ \E u \in Users : SignOut(u)
  BY <1>2, StoreStep
<1>3. ASSUME NEW c \in Connections,
             \/ Drain(c) \/ ReadCurrent(c) \/ CheckExpiry(c) \/ SelectAndRegister(c)
             \/ DatabaseFails(c)
             \/ \E p \in Pages : Connect(p, c)
             \/ \E b \in Publishers : Authorize(b, c)
      PROVE  RealtimeIInv'
  BY <1>3, DrainStep, ReadCurrentStep, CheckExpiryStep, SelectAndRegisterStep,
     DatabaseFailsStep, ConnectStep, AuthorizeStep
<1>4. ASSUME NEW b \in Publishers,
             \/ \E e \in Events : Publish(b, e)
             \/ PublishEnds(b) \/ Deliver(b)
      PROVE  RealtimeIInv'
  BY <1>4, PublishStep, PublishEndsStep, DeliverStep
<1>5. ASSUME NEW p \in Pages, Receive(p) \/ Leave(p) \/ Reload(p)
      PROVE  RealtimeIInv'
  BY <1>5, ReceiveStep, LeaveStep, ReloadStep
<1> QED
  BY <1>1, <1>2, <1>3, <1>4, <1>5 DEF RealtimeNext

\* The invariant of the stream, its types included, in every reachable state.
THEOREM RealtimeInvariance == RealtimeSpec => []RealtimeIInv
  BY InitHolds, NextHolds, PTL DEF RealtimeSpec

\* Every reachable state of the stream is well typed, and exactly the connections that
\* stream are in the registry.
THEOREM RealtimeTypeCorrect == RealtimeSpec => []RealtimeTypeOK
<1>1. RealtimeIInv => RealtimeTypeOK
  BY DEF RealtimeIInv
<1> QED
  BY <1>1, RealtimeInvariance, PTL

\* However many requests pass the first look at the quota and wait for the database, the
\* registry never holds more connections of a user, or of the tenant, than it may.
THEOREM QuotasHold == RealtimeSpec => []QuotaHeld
<1>1. RealtimeIInv => QuotaHeld
  BY DEF RealtimeIInv
<1> QED
  BY <1>1, RealtimeInvariance, PTL

\* A page applies each aggregate's events in the order of versions and none that it may
\* not see, however many publishes race and replays repeat.
THEOREM VersionsInOrder == RealtimeSpec => []AppliedInOrder
<1>1. RealtimeIInv => AppliedInOrder
  BY DEF RealtimeIInv
<1> QED
  BY <1>1, RealtimeInvariance, PTL

LEMMA SameSequence ==
  ASSUME NEW S, NEW s \in Seq(S), NEW t \in Seq(S), Len(s) = Len(t),
         \A i \in 1 .. Len(s) : s[i] = t[i]
  PROVE  s = t
<1>1. /\ s = [i \in 1 .. Len(s) |-> s[i]]
      /\ t = [i \in 1 .. Len(s) |-> t[i]]
  OBVIOUS
<1> QED
  BY <1>1

\* Two sequences that follow one another make up a third of their joint length.
LEMMA Joined ==
  ASSUME NEW S, NEW s \in Seq(S), NEW t \in Seq(S), NEW u \in Seq(S),
         Len(u) = Len(s) + Len(t),
         \A i \in 1 .. Len(s) : s[i] = u[i],
         \A i \in 1 .. Len(t) : t[i] = u[Len(s) + i]
  PROVE  s \o t = u
<1>1. s \o t \in Seq(S) /\ Len(s \o t) = Len(u)
  OBVIOUS
<1>2. ASSUME NEW i \in 1 .. Len(u)
      PROVE  (s \o t)[i] = u[i]
  <2>1. CASE i <= Len(s)
    <3>1. i \in 1 .. Len(s) /\ (s \o t)[i] = s[i]
      BY <2>1
    <3> QED
      BY <3>1
  <2>2. CASE i > Len(s)
    <3>1. PICK j \in 1 .. Len(t) : i = Len(s) + j
      <4>1. i - Len(s) \in 1 .. Len(t) /\ i = Len(s) + (i - Len(s))
        BY <2>2
      <4> QED
        BY <4>1
    <3>2. (s \o t)[i] = t[j]
      BY <2>2, <3>1
    <3> QED
      BY <3>1, <3>2
  <2> QED
    BY <2>1, <2>2
<1> QED
  BY <1>1, <1>2, SameSequence

LEMMA Begins ==
  ASSUME NEW S, NEW s \in Seq(S), NEW u \in Seq(S), Len(s) <= Len(u),
         \A i \in 1 .. Len(s) : s[i] = u[i]
  PROVE  s = SubSeq(u, 1, Len(s))
<1>1. /\ SubSeq(u, 1, Len(s)) \in Seq(S) /\ Len(SubSeq(u, 1, Len(s))) = Len(s)
      /\ \A i \in 1 .. Len(s) : SubSeq(u, 1, Len(s))[i] = u[i]
  OBVIOUS
<1> QED
  BY <1>1

\* What a browser that reads was written, with what waits for it, is what publish handed to
\* its connection; an ended connection was written a beginning of it.
THEOREM NoGapInStream == RealtimeSpec => []StreamUnbroken
<1>1. ASSUME RealtimeIInv
      PROVE  StreamUnbroken
  <2> SUFFICES ASSUME NEW c \in Connections, connection[c].open
               PROVE  IF connection[c].registered
                      THEN connection[c].live \o connection[c].queue = connection[c].handed
                      ELSE /\ Len(connection[c].live) <= Len(connection[c].handed)
                           /\ connection[c].live
                                = SubSeq(connection[c].handed, 1, Len(connection[c].live))
    BY DEF StreamUnbroken
  <2>1. PICK live \in Seq(Frame), queue \in Seq(Frame), handed \in Seq(Frame) :
          live = connection[c].live /\ queue = connection[c].queue /\ handed = connection[c].handed
    BY <1>1 DEF RealtimeIInv, ConnectionsAreSound, Sound, Connection
  <2>2. Unbroken(connection[c])
    BY <1>1 DEF RealtimeIInv, ConnectionsAreSound, Sound
  <2>3. /\ Len(live) <= Len(handed)
        /\ \A i \in 1 .. Len(live) : live[i] = handed[i]
        /\ connection[c].registered =>
             /\ Len(handed) = Len(live) + Len(queue)
             /\ \A i \in 1 .. Len(queue) : queue[i] = handed[Len(live) + i]
    BY <2>1, <2>2, Zenon DEF Unbroken
  <2>4. connection[c].registered => live \o queue = handed
    BY <2>3, Joined
  <2>5. live = SubSeq(handed, 1, Len(live))
    BY <2>3, Begins
  <2> QED
    BY <2>1, <2>3, <2>4, <2>5, Zenon
<1> QED
  BY <1>1, RealtimeInvariance, PTL

\* A connection that was told of the revocation is out of the registry, and the frame that
\* told it is the last it ever gets.
THEOREM SilentAfterRevocation == RealtimeSpec => []RevokedIsFinal
<1>1. ASSUME RealtimeIInv
      PROVE  RevokedIsFinal
  <2> SUFFICES ASSUME NEW c \in Connections, NEW i \in DOMAIN connection[c].live,
                      connection[c].live[i].type = "revoked"
               PROVE  i = Len(connection[c].live) /\ ~connection[c].registered
    BY DEF RevokedIsFinal
  <2>1. connection[c].live \in Seq(Frame) /\ Silenced(connection[c])
    BY <1>1 DEF RealtimeIInv, ConnectionsAreSound, Sound, Connection
  <2>2. i \in 1 .. Len(connection[c].live)
    BY <2>1
  <2> QED
    BY <2>1, <2>2 DEF Silenced
<1> QED
  BY <1>1, RealtimeInvariance, PTL
=============================================================================
