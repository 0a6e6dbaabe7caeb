---------------------------- MODULE RecordProofs ----------------------------
(***************************************************************************)
(* Proofs about the components whose requests look at rows, or counters,   *)
(* and write them later: sessions, providers, the service desk, the        *)
(* command line and setup.  Each invariant says what a request under way   *)
(* still stands for when it writes.                                        *)
(***************************************************************************)
EXTENDS Sessions, Providers, Desk, Operations, Setup, FiniteSetTheorems, TLAPS

-----------------------------------------------------------------------------
(* Sessions *)

\* Logins the limiter let through, that have not failed or passed yet.
Checking == {l \in Logins : login[l].pc = "check"}

\* Logins that have rotated the sessions of a user and not made the new one.
Inserting(u) == {l \in Logins : login[l].pc = "insert" /\ login[l].user = u}

\* A failure that is still to be counted has its place; so has a session to be made.
PlacesAreKept ==
  /\ failed + Cardinality(Checking) < Limit + Cardinality(Logins)
  /\ \A u \in Users : /\ IsFiniteSet(LiveOf(u))
                      /\ Cardinality(LiveOf(u)) + Cardinality(Inserting(u))
                           <= Cardinality(Logins)

SessionsIInv == SessionsTypeOK /\ PlacesAreKept

\* What requests and rows are made of.
LEMMA LoginShapes ==
  /\ NoLogin \in LoginRequest /\ NoLogin.pc = "idle"
  /\ NoSession \notin SessionRow /\ NoSession.status = "none"
  /\ \A x \in LoginRequest : x.pc \in {"rotate", "insert"} => x.user \in Users
  /\ \A x \in LoginRequest : x.pc \in {"rotate", "insert"} =>
       x = [pc |-> x.pc, user |-> x.user]
  /\ \A x \in SessionRow : /\ x.user \in Users /\ x.status \in {"live", "revoked"}
                           /\ x = [status |-> x.status, user |-> x.user]
  BY DEF NoLogin, LoginRequest, NoSession, SessionRow

\* The logins that check and insert are counted.
LEMMA LoginsAreFinite ==
  /\ IsFiniteSet(Logins) /\ Cardinality(Logins) \in Nat
  /\ \A S \in SUBSET Logins : /\ IsFiniteSet(S) /\ Cardinality(S) \in Nat
                              /\ Cardinality(S) <= Cardinality(Logins)
  /\ Checking \subseteq Logins /\ \A u : Inserting(u) \subseteq Logins
<1>1. IsFiniteSet(Logins)
  BY SessionsAssumption DEF SessionsAssumption
<1>2. \A S \in SUBSET Logins : IsFiniteSet(S) /\ Cardinality(S) <= Cardinality(Logins)
  BY <1>1, FS_Subset
<1> QED
  BY <1>1, <1>2, FS_CardinalityType DEF Checking, Inserting

\* A subset of a finite set is no larger.
LEMMA Smaller ==
  ASSUME NEW S, IsFiniteSet(S), NEW T \in SUBSET S
  PROVE  /\ IsFiniteSet(T) /\ Cardinality(T) \in Nat /\ Cardinality(S) \in Nat
         /\ Cardinality(T) <= Cardinality(S)
  BY FS_Subset, FS_CardinalityType

\* The invariant holds at first.
LEMMA SessionsInitInv == SessionsInit => SessionsIInv
<1> SUFFICES ASSUME SessionsInit PROVE SessionsIInv
  OBVIOUS
<1>1. SessionsTypeOK
  BY LoginShapes DEF SessionsInit, SessionsTypeOK
<1>2. Checking = {} /\ \A u \in Users : Inserting(u) = {} /\ LiveOf(u) = {}
  BY LoginShapes DEF SessionsInit, Checking, Inserting, LiveOf
<1>3. failed + Cardinality(Checking) < Limit + Cardinality(Logins)
  <2>1. failed = 0 /\ Cardinality(Checking) = 0 /\ Limit \in Nat \ {0}
    BY <1>2, FS_EmptySet, SessionsAssumption DEF SessionsInit, SessionsAssumption
  <2>2. Cardinality(Logins) \in Nat
    BY LoginsAreFinite
  <2> QED
    BY <2>1, <2>2
<1>4. ASSUME NEW u \in Users
      PROVE  /\ IsFiniteSet(LiveOf(u))
             /\ Cardinality(LiveOf(u)) + Cardinality(Inserting(u)) <= Cardinality(Logins)
  <2>1. /\ Cardinality(Inserting(u)) = 0 /\ Cardinality(LiveOf(u)) = 0
        /\ IsFiniteSet(LiveOf(u)) /\ Cardinality(Logins) \in Nat
    BY <1>2, FS_EmptySet, LoginsAreFinite
  <2> QED
    BY <2>1
<1> QED
  BY <1>1, <1>3, <1>4 DEF SessionsIInv, PlacesAreKept

\* A step that counts nothing, makes no session and lets nobody through.
LEMMA PlacesStay ==
  ASSUME SessionsIInv, SessionsTypeOK', failed' <= failed,
         Checking' \subseteq Checking,
         \A u \in Users : LiveOf(u)' \subseteq LiveOf(u) /\ Inserting(u)' \subseteq Inserting(u)
  PROVE  SessionsIInv'
<1>1. Limit \in Nat /\ Cardinality(Logins) \in Nat /\ failed \in Nat /\ failed' \in Nat
  BY LoginsAreFinite, SessionsAssumption DEF SessionsAssumption, SessionsIInv, SessionsTypeOK
<1>2. /\ Cardinality(Checking) \in Nat /\ Cardinality(Checking') \in Nat
      /\ Cardinality(Checking') <= Cardinality(Checking)
  BY LoginsAreFinite, Smaller
<1>3. failed' + Cardinality(Checking') < Limit + Cardinality(Logins)
  BY <1>1, <1>2 DEF SessionsIInv, PlacesAreKept
<1>4. ASSUME NEW u \in Users
      PROVE  /\ IsFiniteSet(LiveOf(u)')
             /\ Cardinality(LiveOf(u)') + Cardinality(Inserting(u)') <= Cardinality(Logins)
  <2>1. IsFiniteSet(LiveOf(u)) /\ IsFiniteSet(Inserting(u))
    BY LoginsAreFinite DEF SessionsIInv, PlacesAreKept
  <2>2. /\ IsFiniteSet(LiveOf(u)') /\ Cardinality(LiveOf(u)') <= Cardinality(LiveOf(u))
        /\ Cardinality(LiveOf(u)') \in Nat /\ Cardinality(LiveOf(u)) \in Nat
    BY <2>1, Smaller
  <2>3. /\ Cardinality(Inserting(u)') <= Cardinality(Inserting(u))
        /\ Cardinality(Inserting(u)') \in Nat /\ Cardinality(Inserting(u)) \in Nat
    BY <2>1, Smaller
  <2>4. Cardinality(LiveOf(u)) + Cardinality(Inserting(u)) <= Cardinality(Logins)
    BY DEF SessionsIInv, PlacesAreKept
  <2> QED
    BY <1>1, <2>2, <2>3, <2>4
<1> QED
  BY <1>3, <1>4 DEF SessionsIInv, PlacesAreKept

\* Every step preserves it.
LEMMA SessionsNextInv == SessionsIInv /\ [SessionsNext]_sevars => SessionsIInv'
<1> SUFFICES ASSUME SessionsIInv, [SessionsNext]_sevars PROVE SessionsIInv'
  OBVIOUS
<1>0. /\ SessionsTypeOK /\ failed \in Nat /\ Limit \in Nat \ {0}
      /\ Cardinality(Logins) \in Nat
  BY LoginsAreFinite, SessionsAssumption DEF SessionsAssumption, SessionsIInv, SessionsTypeOK
<1>1. ASSUME NEW l \in Logins, BeginLogin(l) PROVE SessionsIInv'
  <2> DEFINE row == [pc |-> "check"]
  <2>1. row \in LoginRequest /\ row.pc = "check"
    BY DEF LoginRequest
  <2>2. /\ login' = [login EXCEPT ![l] = row] /\ failed < Limit
        /\ UNCHANGED <<failed, sessions>>
    BY <1>0, <1>1 DEF BeginLogin, IsBlocked
  <2> HIDE DEF row
  <2>3. SessionsTypeOK'
    BY <1>0, <2>1, <2>2 DEF SessionsTypeOK
  <2>4. Cardinality(Checking') \in Nat /\ Cardinality(Checking') <= Cardinality(Logins)
    <3>1. Checking' \subseteq Logins
      BY DEF Checking
    <3> QED
      BY <3>1, LoginsAreFinite
  <2>5. failed' + Cardinality(Checking') < Limit + Cardinality(Logins)
    BY <1>0, <2>2, <2>4
  <2>6. \A u \in Users : LiveOf(u)' = LiveOf(u)
    BY <2>2 DEF LiveOf
  <2>7. \A u \in Users : Inserting(u)' \subseteq Inserting(u)
    BY <1>0, <2>1, <2>2 DEF Inserting, SessionsTypeOK
  <2>8. ASSUME NEW u \in Users
        PROVE  /\ IsFiniteSet(LiveOf(u)')
               /\ Cardinality(LiveOf(u)') + Cardinality(Inserting(u)') <= Cardinality(Logins)
    <3>1. /\ IsFiniteSet(LiveOf(u)) /\ IsFiniteSet(Inserting(u))
          /\ Cardinality(LiveOf(u)) \in Nat
          /\ Cardinality(LiveOf(u)) + Cardinality(Inserting(u)) <= Cardinality(Logins)
      BY LoginsAreFinite, FS_CardinalityType DEF SessionsIInv, PlacesAreKept
    <3>2. /\ Cardinality(Inserting(u)') <= Cardinality(Inserting(u))
          /\ Cardinality(Inserting(u)') \in Nat /\ Cardinality(Inserting(u)) \in Nat
      BY <2>7, <3>1, Smaller
    <3> QED
      BY <1>0, <2>6, <3>1, <3>2
  <2> QED
    BY <2>3, <2>5, <2>8 DEF SessionsIInv, PlacesAreKept
<1>2. ASSUME NEW l \in Logins, RecordFailure(l) PROVE SessionsIInv'
  <2>1. /\ login' = [login EXCEPT ![l] = NoLogin] /\ failed' = failed + 1
        /\ UNCHANGED sessions /\ l \in Checking
    BY <1>2 DEF RecordFailure, Checking
  <2>2. SessionsTypeOK'
    BY <1>0, <2>1, LoginShapes DEF SessionsTypeOK
  <2>3. Checking' \subseteq Checking \ {l} /\ \A u \in Users : Inserting(u)' \subseteq Inserting(u)
    BY <1>0, <2>1, LoginShapes DEF Checking, Inserting, SessionsTypeOK
  <2>4. /\ IsFiniteSet(Checking \ {l}) /\ Cardinality(Checking) \in Nat
        /\ Cardinality(Checking \ {l}) = Cardinality(Checking) - 1
    BY <2>1, LoginsAreFinite, FS_RemoveElement
  <2>5. Cardinality(Checking') \in Nat /\ Cardinality(Checking') <= Cardinality(Checking) - 1
    BY <2>3, <2>4, Smaller
  <2>6. failed' + Cardinality(Checking') < Limit + Cardinality(Logins)
    BY <1>0, <2>1, <2>4, <2>5 DEF SessionsIInv, PlacesAreKept
  <2>7. ASSUME NEW u \in Users
        PROVE  /\ IsFiniteSet(LiveOf(u)')
               /\ Cardinality(LiveOf(u)') + Cardinality(Inserting(u)') <= Cardinality(Logins)
    <3>1. /\ IsFiniteSet(LiveOf(u)) /\ IsFiniteSet(Inserting(u))
          /\ Cardinality(LiveOf(u)) \in Nat /\ LiveOf(u)' = LiveOf(u)
          /\ Cardinality(LiveOf(u)) + Cardinality(Inserting(u)) <= Cardinality(Logins)
      BY <2>1, LoginsAreFinite, FS_CardinalityType DEF SessionsIInv, PlacesAreKept, LiveOf
    <3>2. /\ Cardinality(Inserting(u)') <= Cardinality(Inserting(u))
          /\ Cardinality(Inserting(u)') \in Nat /\ Cardinality(Inserting(u)) \in Nat
      BY <2>3, <3>1, Smaller
    <3> QED
      BY <1>0, <3>1, <3>2
  <2> QED
    BY <2>2, <2>6, <2>7 DEF SessionsIInv, PlacesAreKept
<1>3. ASSUME NEW l \in Logins, NEW u \in Users, Authenticate(l, u) PROVE SessionsIInv'
  <2> DEFINE row == [pc |-> "rotate", user |-> u]
  <2>1. row \in LoginRequest /\ row.pc = "rotate"
    BY DEF LoginRequest
  <2>2. /\ login' = [login EXCEPT ![l] = row] /\ failed' = 0 /\ UNCHANGED sessions
    BY <1>3 DEF Authenticate
  <2> HIDE DEF row
  <2>3. SessionsTypeOK'
    BY <1>0, <2>1, <2>2 DEF SessionsTypeOK
  <2>4. Checking' \subseteq Checking /\ \A x \in Users : Inserting(x)' \subseteq Inserting(x)
    BY <1>0, <2>1, <2>2 DEF Checking, Inserting, SessionsTypeOK
  <2> QED
    BY <1>0, <2>2, <2>3, <2>4, PlacesStay DEF LiveOf
<1>4. ASSUME NEW l \in Logins, RotateSession(l) PROVE SessionsIInv'
  <2> DEFINE v == login[l].user
             row == [login[l] EXCEPT !.pc = "insert"]
  <2>1. login[l] \in LoginRequest /\ login[l].pc = "rotate" /\ v \in Users
    BY <1>0, <1>4, LoginShapes DEF RotateSession, SessionsTypeOK
  <2>2. row \in LoginRequest /\ row.pc = "insert" /\ row.user = v
    BY <2>1, LoginShapes DEF LoginRequest
  <2>3. login' = [login EXCEPT ![l] = row] /\ failed' = failed
    BY <1>0, <1>4 DEF RotateSession, SessionsTypeOK
  <2>4. \A s \in SessionIds :
          /\ s \in LiveOf(v) => sessions'[s] = [status |-> "revoked", user |-> v]
          /\ s \notin LiveOf(v) => sessions'[s] = sessions[s]
    <3>1. \A s \in SessionIds :
            /\ s \in LiveOf(v) => sessions'[s] = [sessions[s] EXCEPT !.status = "revoked"]
            /\ s \notin LiveOf(v) => sessions'[s] = sessions[s]
      BY <1>4 DEF RotateSession
    <3>2. \A s \in LiveOf(v) : sessions[s] = [status |-> "live", user |-> v]
      BY DEF LiveOf
    <3>3. [[status |-> "live", user |-> v] EXCEPT !.status = "revoked"]
            = [status |-> "revoked", user |-> v]
      OBVIOUS
    <3> QED
      BY <3>1, <3>2, <3>3
  <2>5. sessions' = [s \in SessionIds |-> sessions'[s]]
    BY <1>4 DEF RotateSession
  <2> HIDE DEF row, v
  <2>6. [status |-> "revoked", user |-> v] \in SessionRow
    BY <2>1 DEF SessionRow
  <2>7. SessionsTypeOK'
    BY <1>0, <2>2, <2>3, <2>4, <2>5, <2>6 DEF SessionsTypeOK
  <2>8. Checking' \subseteq Checking
    BY <1>0, <2>2, <2>3 DEF Checking, SessionsTypeOK
  <2>9. failed' + Cardinality(Checking') < Limit + Cardinality(Logins)
    <3>1. /\ Cardinality(Checking') \in Nat /\ Cardinality(Checking) \in Nat
          /\ Cardinality(Checking') <= Cardinality(Checking)
      BY <2>8, LoginsAreFinite, Smaller
    <3> QED
      BY <1>0, <2>3, <3>1 DEF SessionsIInv, PlacesAreKept
  <2>10. ASSUME NEW u \in Users
         PROVE  /\ IsFiniteSet(LiveOf(u)')
                /\ Cardinality(LiveOf(u)') + Cardinality(Inserting(u)') <= Cardinality(Logins)
    <3>1. CASE u = v
      <4>1. LiveOf(u)' = {}
        BY <2>4, <3>1 DEF LiveOf
      <4>2. Inserting(u)' \subseteq Logins
        BY DEF Inserting
      <4>3. /\ Cardinality(LiveOf(u)') = 0 /\ IsFiniteSet(LiveOf(u)')
            /\ Cardinality(Inserting(u)') \in Nat
            /\ Cardinality(Inserting(u)') <= Cardinality(Logins)
        BY <4>1, <4>2, FS_EmptySet, LoginsAreFinite
      <4> QED
        BY <1>0, <4>3
    <3>2. CASE u # v
      <4>1. LiveOf(u)' = LiveOf(u) /\ Inserting(u)' \subseteq Inserting(u)
        <5>1. LiveOf(u)' = LiveOf(u)
          BY <2>4, <3>2 DEF LiveOf
        <5>2. Inserting(u)' \subseteq Inserting(u)
          BY <1>0, <2>2, <2>3, <3>2 DEF Inserting, SessionsTypeOK
        <5> QED
          BY <5>1, <5>2
      <4>2. /\ IsFiniteSet(LiveOf(u)) /\ IsFiniteSet(Inserting(u))
            /\ Cardinality(LiveOf(u)) \in Nat
            /\ Cardinality(LiveOf(u)) + Cardinality(Inserting(u)) <= Cardinality(Logins)
        BY LoginsAreFinite, FS_CardinalityType DEF SessionsIInv, PlacesAreKept
      <4>3. /\ Cardinality(Inserting(u)') <= Cardinality(Inserting(u))
            /\ Cardinality(Inserting(u)') \in Nat /\ Cardinality(Inserting(u)) \in Nat
        BY <4>1, <4>2, Smaller
      <4> QED
        BY <1>0, <4>1, <4>2, <4>3
    <3> QED
      BY <3>1, <3>2
  <2> QED
    BY <2>7, <2>9, <2>10 DEF SessionsIInv, PlacesAreKept
<1>5. ASSUME NEW l \in Logins, NEW s \in SessionIds, InsertSession(l, s) PROVE SessionsIInv'
  <2>0. PICK v \in Users : v = login[l].user
    BY <1>0, <1>5, LoginShapes DEF InsertSession, SessionsTypeOK
  <2> DEFINE row == [status |-> "live", user |-> v]
  <2>1. login[l] \in LoginRequest /\ login[l].pc = "insert"
    BY <1>0, <1>5 DEF InsertSession, SessionsTypeOK
  <2>2. row \in SessionRow /\ row = [status |-> "live", user |-> v]
    BY DEF SessionRow
  <2>3. /\ sessions' = [sessions EXCEPT ![s] = row] /\ login' = [login EXCEPT ![l] = NoLogin]
        /\ failed' = failed
    BY <1>5, <2>0 DEF InsertSession
  <2> HIDE DEF row
  <2>4. SessionsTypeOK'
    BY <1>0, <2>2, <2>3, LoginShapes DEF SessionsTypeOK
  <2>5. /\ Checking' \subseteq Checking /\ l \in Inserting(v)
        /\ Inserting(v)' \subseteq Inserting(v) \ {l}
        /\ \A u \in Users : Inserting(u)' \subseteq Inserting(u)
    BY <1>0, <2>0, <2>1, <2>3, LoginShapes DEF Checking, Inserting, SessionsTypeOK
  <2>6. /\ LiveOf(v)' \subseteq LiveOf(v) \cup {s}
        /\ \A u \in Users \ {v} : LiveOf(u)' \subseteq LiveOf(u)
    <3>1. \A u \in Users \ {v} : row # [status |-> "live", user |-> u]
      BY <2>2
    <3>2. \A x \in SessionIds : sessions'[x] = IF x = s THEN row ELSE sessions[x]
      BY <1>0, <2>3 DEF SessionsTypeOK
    <3> QED
      BY <3>1, <3>2 DEF LiveOf
  <2>7. failed' + Cardinality(Checking') < Limit + Cardinality(Logins)
    <3>1. /\ Cardinality(Checking') \in Nat /\ Cardinality(Checking) \in Nat
          /\ Cardinality(Checking') <= Cardinality(Checking)
      BY <2>5, LoginsAreFinite, Smaller
    <3> QED
      BY <1>0, <2>3, <3>1 DEF SessionsIInv, PlacesAreKept
  <2>8. ASSUME NEW u \in Users
        PROVE  /\ IsFiniteSet(LiveOf(u)')
               /\ Cardinality(LiveOf(u)') + Cardinality(Inserting(u)') <= Cardinality(Logins)
    <3>1. /\ IsFiniteSet(LiveOf(u)) /\ IsFiniteSet(Inserting(u))
          /\ Cardinality(LiveOf(u)) \in Nat /\ Cardinality(Inserting(u)) \in Nat
          /\ Cardinality(LiveOf(u)) + Cardinality(Inserting(u)) <= Cardinality(Logins)
      BY LoginsAreFinite, FS_CardinalityType DEF SessionsIInv, PlacesAreKept
    <3>2. CASE u = v
      <4>1. /\ IsFiniteSet(Inserting(u) \ {l})
            /\ Cardinality(Inserting(u) \ {l}) = Cardinality(Inserting(u)) - 1
        BY <2>5, <3>1, <3>2, FS_RemoveElement
      <4>2. /\ Cardinality(Inserting(u)') \in Nat
            /\ Cardinality(Inserting(u)') <= Cardinality(Inserting(u)) - 1
        BY <2>5, <3>2, <4>1, Smaller
      <4>3. /\ IsFiniteSet(LiveOf(u) \cup {s})
            /\ Cardinality(LiveOf(u) \cup {s})
                 = IF s \in LiveOf(u) THEN Cardinality(LiveOf(u)) ELSE Cardinality(LiveOf(u)) + 1
        BY <3>1, FS_AddElement
      <4>4. Cardinality(LiveOf(u) \cup {s}) <= Cardinality(LiveOf(u)) + 1
        BY <3>1, <4>3
      <4>5. /\ IsFiniteSet(LiveOf(u)') /\ Cardinality(LiveOf(u)') \in Nat
            /\ Cardinality(LiveOf(u) \cup {s}) \in Nat
            /\ Cardinality(LiveOf(u)') <= Cardinality(LiveOf(u) \cup {s})
        BY <2>6, <3>2, <4>3, Smaller
      <4> QED
        BY <1>0, <3>1, <4>2, <4>4, <4>5
    <3>3. CASE u # v
      <4>1. /\ IsFiniteSet(LiveOf(u)') /\ Cardinality(LiveOf(u)') \in Nat
            /\ Cardinality(LiveOf(u)') <= Cardinality(LiveOf(u))
        BY <2>6, <3>1, <3>3, Smaller
      <4>2. /\ Cardinality(Inserting(u)') \in Nat
            /\ Cardinality(Inserting(u)') <= Cardinality(Inserting(u))
        BY <2>5, <3>1, Smaller
      <4> QED
        BY <1>0, <3>1, <4>1, <4>2
    <3> QED
      BY <3>2, <3>3
  <2> QED
    BY <2>4, <2>7, <2>8 DEF SessionsIInv, PlacesAreKept
<1>6. ASSUME NEW l \in Logins, LoginFails(l) PROVE SessionsIInv'
  <2>1. login' = [login EXCEPT ![l] = NoLogin] /\ UNCHANGED <<failed, sessions>>
    BY <1>6 DEF LoginFails
  <2>2. SessionsTypeOK'
    BY <1>0, <2>1, LoginShapes DEF SessionsTypeOK
  <2>3. Checking' \subseteq Checking /\ \A x \in Users : Inserting(x)' \subseteq Inserting(x)
    BY <1>0, <2>1, LoginShapes DEF Checking, Inserting, SessionsTypeOK
  <2> QED
    BY <1>0, <2>1, <2>2, <2>3, PlacesStay DEF LiveOf
<1>7. ASSUME NEW s \in SessionIds, EndSession(s) PROVE SessionsIInv'
  <2> DEFINE row == [sessions[s] EXCEPT !.status = "revoked"]
  <2>1. sessions[s] \in SessionRow
    BY <1>0, <1>7, LoginShapes DEF EndSession, SessionsTypeOK
  <2>2. row \in SessionRow /\ row.status = "revoked"
    BY <2>1 DEF SessionRow
  <2>3. sessions' = [sessions EXCEPT ![s] = row] /\ UNCHANGED <<failed, login>>
    BY <1>0, <1>7 DEF EndSession, SessionsTypeOK
  <2> HIDE DEF row
  <2>4. SessionsTypeOK'
    BY <1>0, <2>2, <2>3 DEF SessionsTypeOK
  <2>5. \A u \in Users : LiveOf(u)' \subseteq LiveOf(u)
    BY <1>0, <2>2, <2>3 DEF LiveOf, SessionsTypeOK
  <2> QED
    BY <1>0, <2>3, <2>4, <2>5, PlacesStay DEF Checking, Inserting
<1>8. CASE AttemptsForgotten
  <2>1. failed' = 0 /\ UNCHANGED <<login, sessions>> /\ SessionsTypeOK'
    BY <1>0, <1>8 DEF AttemptsForgotten, SessionsTypeOK
  <2> QED
    BY <1>0, <2>1, PlacesStay DEF Checking, Inserting, LiveOf
<1>9. CASE ServerRestarts
  <2>1. failed' = 0 /\ login' = [l \in Logins |-> NoLogin] /\ UNCHANGED sessions
    BY <1>9 DEF ServerRestarts
  <2>2. SessionsTypeOK'
    BY <1>0, <2>1, LoginShapes DEF SessionsTypeOK
  <2>3. Checking' \subseteq Checking /\ \A x \in Users : Inserting(x)' \subseteq Inserting(x)
    BY <2>1, LoginShapes DEF Checking, Inserting
  <2> QED
    BY <1>0, <2>1, <2>2, <2>3, PlacesStay DEF LiveOf
<1>10. CASE UNCHANGED sevars
  BY <1>0, <1>10, PlacesStay DEF sevars, SessionsTypeOK, Checking, Inserting, LiveOf
<1> QED
  BY <1>1, <1>2, <1>3, <1>4, <1>5, <1>6, <1>7, <1>8, <1>9, <1>10 DEF SessionsNext, LogIn

\* Whatever logins overlap, fail or are forgotten, an address makes fewer failed attempts
\* in a window than the limit and the logins under way, and a user has no more live
\* sessions than logins can overlap.
THEOREM LoginsStayBounded == SessionsSpec => []LoginsBounded
<1>1. SessionsIInv => LoginsBounded
  <2> SUFFICES ASSUME SessionsIInv PROVE LoginsBounded
    OBVIOUS
  <2>1. /\ failed \in Nat /\ Limit \in Nat /\ Cardinality(Logins) \in Nat
        /\ Cardinality(Checking) \in Nat
    BY LoginsAreFinite, SessionsAssumption DEF SessionsAssumption, SessionsIInv, SessionsTypeOK
  <2>2. failed < Limit + Cardinality(Logins)
    BY <2>1 DEF SessionsIInv, PlacesAreKept
  <2>3. ASSUME NEW u \in Users PROVE Cardinality(LiveOf(u)) <= Cardinality(Logins)
    <3>1. /\ Cardinality(LiveOf(u)) \in Nat /\ Cardinality(Inserting(u)) \in Nat
          /\ Cardinality(LiveOf(u)) + Cardinality(Inserting(u)) <= Cardinality(Logins)
      BY LoginsAreFinite, FS_CardinalityType DEF SessionsIInv, PlacesAreKept
    <3> QED
      BY <2>1, <3>1
  <2> QED
    BY <2>2, <2>3 DEF LoginsBounded
<1> QED
  BY <1>1, SessionsInitInv, SessionsNextInv, PTL DEF SessionsSpec

-----------------------------------------------------------------------------
(* The service desk *)

\* A time the customer wrote at, up to now, that was stored for a conversation.
WroteIn(c, t) == <<c, t>> \in inbound /\ t <= clock

\* A row's last_inbound_at, and what was read of it, are times the customer wrote at.
ReadsAreTrue ==
  /\ \A c \in Conversations : conversation[c] # NoConversation =>
       WroteIn(c, conversation[c].last_inbound)
  /\ \A a \in Agents : reply[a].pc = "loaded" => WroteIn(reply[a].conversation, reply[a].last_inbound)
  /\ \A t \in written : t <= clock

\* What the window's rule asks of a text.
WithinWindow(r) ==
  r # NoReply /\ r.pc = "checked" /\ r.kind = "text" =>
    \E m \in inbound : m[1] = r.conversation /\ m[2] <= r.at /\ r.at < m[2] + Window

ChecksAreTrue == \A a \in Agents : WithinWindow(reply[a]) /\ WithinWindow(queued[a])

DeskIInv == DeskTypeOK /\ ReadsAreTrue /\ ChecksAreTrue

\* What rows and requests are made of.
LEMMA DeskShapes ==
  /\ NoConversation \notin Conversation /\ NoReply \notin Reply /\ NoReply.pc = "idle"
  /\ NoPrivacyRequest \notin PrivacyRequest /\ Checked \subseteq Reply
  /\ \A x \in Reply : x.pc = "checked" => x \in Checked
  /\ \A x \in Checked : x.pc = "checked" /\ x # NoReply
  /\ \A x \in Reply : x.conversation \in Conversations
  /\ \A x \in Reply : x.pc = "loaded" => x.last_inbound \in Time
  /\ \A x \in Conversation : x.last_inbound \in Time /\ x.created \in Time
  BY DEF NoConversation, Conversation, NoReply, Reply, Checked, NoPrivacyRequest, PrivacyRequest

\* The invariant holds at first.
LEMMA DeskInitInv == DeskInit => DeskIInv
<1> SUFFICES ASSUME DeskInit PROVE DeskIInv
  OBVIOUS
<1>1. DeskTypeOK
  BY DeskAssumption DEF DeskAssumption, DeskInit, DeskTypeOK, Time
<1>2. ReadsAreTrue
  BY DeskShapes DEF DeskInit, ReadsAreTrue
<1>3. ChecksAreTrue
  BY DEF DeskInit, ChecksAreTrue, WithinWindow
<1> QED
  BY <1>1, <1>2, <1>3 DEF DeskIInv

\* Time goes on, and what was stored stays stored: so does what it shows.
LEMMA StaysTrue ==
  ASSUME DeskTypeOK, clock' \in Time, clock <= clock', inbound \subseteq inbound'
  PROVE  /\ \A c, t \in Time : WroteIn(c, t) => WroteIn(c, t)'
         /\ \A t \in Time : t <= clock => t <= clock'
         /\ \A r : WithinWindow(r) => WithinWindow(r)'
<1>1. clock \in Nat /\ clock' \in Nat /\ \A t \in Time : t \in Nat
  BY DeskAssumption DEF DeskAssumption, DeskTypeOK, Time
<1> QED
  BY <1>1 DEF WroteIn, WithinWindow

\* A step that stores no message and asks no agent's question.
LEMMA RowsChange ==
  ASSUME DeskIInv, UNCHANGED <<clock, written, inbound, reply, queued>>,
         privacy' \in [PrivacyRequests -> PrivacyRequest \cup {NoPrivacyRequest}],
         conversation' \in [Conversations -> Conversation \cup {NoConversation}],
         \A c \in Conversations : conversation'[c] # NoConversation =>
           conversation[c] # NoConversation
             /\ conversation'[c].last_inbound = conversation[c].last_inbound
  PROVE  DeskIInv'
<1>1. DeskTypeOK'
  BY DEF DeskIInv, DeskTypeOK
<1>2. ReadsAreTrue'
  BY DEF DeskIInv, ReadsAreTrue, WroteIn
<1>3. ChecksAreTrue'
  BY DEF DeskIInv, ChecksAreTrue, WithinWindow
<1> QED
  BY <1>1, <1>2, <1>3 DEF DeskIInv

\* Every step preserves it.
LEMMA DeskNextInv == DeskIInv /\ [DeskNext]_devars => DeskIInv'
<1> SUFFICES ASSUME DeskIInv, [DeskNext]_devars PROVE DeskIInv'
  OBVIOUS
<1>0. DeskTypeOK /\ ReadsAreTrue /\ ChecksAreTrue /\ clock \in Nat /\ \A t \in Time : t \in Nat
  BY DeskAssumption DEF DeskAssumption, DeskIInv, DeskTypeOK, Time
<1>1. CASE Tick
  <2>1. clock' \in Time /\ clock <= clock' /\ inbound \subseteq inbound'
        /\ UNCHANGED <<written, conversation, inbound, reply, queued, privacy>>
    BY <1>0, <1>1, DeskAssumption DEF DeskAssumption, Tick, Time
  <2>2. DeskTypeOK'
    BY <1>0, <2>1 DEF DeskTypeOK
  <2>3. ReadsAreTrue'
    <3>1. \A a \in Agents : reply[a].pc = "loaded" => reply[a].last_inbound \in Time
      BY <1>0, DeskShapes DEF DeskTypeOK
    <3>2. \A c \in Conversations : conversation[c] # NoConversation =>
            conversation[c].last_inbound \in Time
      BY <1>0, DeskShapes DEF DeskTypeOK
    <3>3. written \subseteq Time
      BY <1>0 DEF DeskTypeOK
    <3>4. \A c, t : t \in Time /\ WroteIn(c, t) => <<c, t>> \in inbound /\ t <= clock'
      BY <1>0, <2>1 DEF WroteIn, Time
    <3>5. \A t \in written : t <= clock'
      BY <1>0, <2>1, <3>3 DEF ReadsAreTrue, Time
    <3> QED
      BY <1>0, <2>1, <3>1, <3>2, <3>4, <3>5 DEF ReadsAreTrue, WroteIn
  <2>4. ChecksAreTrue'
    BY <1>0, <2>1, StaysTrue DEF ChecksAreTrue, WithinWindow
  <2> QED
    BY <2>2, <2>3, <2>4 DEF DeskIInv
<1>2. CASE CustomerWrites
  <2>1. /\ written' = written \cup {clock} /\ clock <= clock
        /\ UNCHANGED <<clock, conversation, inbound, reply, queued, privacy>>
    BY <1>0, <1>2 DEF CustomerWrites
  <2>2. DeskTypeOK'
    BY <1>0, <2>1 DEF DeskTypeOK
  <2>3. ReadsAreTrue'
    BY <1>0, <2>1 DEF ReadsAreTrue, WroteIn
  <2>4. ChecksAreTrue'
    BY <1>0, <2>1 DEF ChecksAreTrue, WithinWindow
  <2> QED
    BY <2>2, <2>3, <2>4 DEF DeskIInv
<1>3. ASSUME NEW t \in Time, NEW c \in Conversations, ProcessInbound(t, c) PROVE DeskIInv'
  <2> DEFINE at == IF c \in Live THEN conversation[c].created ELSE clock
             row == [status |-> "open", known |-> TRUE, last_inbound |-> t, created |-> at]
  <2>1. row \in Conversation /\ row.last_inbound = t /\ row # NoConversation
    <3>1. at \in Time
      BY <1>0, DeskShapes DEF Live, DeskTypeOK
    <3> HIDE DEF at
    <3>2. row \in Conversation
      BY <3>1 DEF Conversation
    <3>3. row.last_inbound = t
      OBVIOUS
    <3> QED
      BY <3>2, <3>3, DeskShapes
  <2>2. /\ t \in written /\ written' = written \ {t}
        /\ conversation' = [conversation EXCEPT ![c] = row]
        /\ inbound' = inbound \cup {<<c, t>>} /\ UNCHANGED <<clock, reply, queued, privacy>>
    BY <1>3 DEF ProcessInbound
  <2> HIDE DEF row
  <2>3. DeskTypeOK'
    BY <1>0, <2>1, <2>2 DEF DeskTypeOK
  <2>4. /\ <<c, t>> \in inbound' /\ t <= clock'
        /\ \A d, u : WroteIn(d, u) => <<d, u>> \in inbound' /\ u <= clock'
    BY <1>0, <2>2 DEF WroteIn, ReadsAreTrue
  <2>5. \A d \in Conversations : conversation'[d] = IF d = c THEN row ELSE conversation[d]
    BY <1>0, <2>2 DEF DeskTypeOK
  <2>6. ReadsAreTrue'
    <3>1. \A d \in Conversations : conversation'[d] # NoConversation =>
            <<d, conversation'[d].last_inbound>> \in inbound'
              /\ conversation'[d].last_inbound <= clock'
      BY <1>0, <2>1, <2>4, <2>5 DEF ReadsAreTrue
    <3>2. \A a \in Agents : reply'[a].pc = "loaded" =>
            <<reply'[a].conversation, reply'[a].last_inbound>> \in inbound'
              /\ reply'[a].last_inbound <= clock'
      BY <1>0, <2>2, <2>4 DEF ReadsAreTrue
    <3>3. \A u \in written' : u <= clock'
      BY <1>0, <2>2 DEF ReadsAreTrue
    <3> QED
      BY <3>1, <3>2, <3>3 DEF ReadsAreTrue, WroteIn
  <2>7. ChecksAreTrue'
    BY <1>0, <2>2 DEF ChecksAreTrue, WithinWindow
  <2> QED
    BY <2>3, <2>6, <2>7 DEF DeskIInv
<1>4. ASSUME NEW a \in Agents, reply' = [reply EXCEPT ![a] = NoReply],
             UNCHANGED <<clock, written, conversation, inbound, privacy>>,
             \/ UNCHANGED queued
             \/ reply[a].pc = "checked" /\ queued' = [queued EXCEPT ![a] = reply[a]]
      PROVE  DeskIInv'
  <2>1. DeskTypeOK'
    BY <1>0, <1>4, DeskShapes DEF DeskTypeOK
  <2>2. ReadsAreTrue'
    BY <1>0, <1>4, DeskShapes DEF ReadsAreTrue, WroteIn, DeskTypeOK
  <2>3. WithinWindow(NoReply)' /\ \A r : WithinWindow(r) => WithinWindow(r)'
    BY <1>4 DEF WithinWindow
  <2>4. \A b \in Agents : /\ reply'[b] = reply[b] \/ reply'[b] = NoReply
                          /\ queued'[b] = queued[b] \/ queued'[b] = reply[b]
    BY <1>0, <1>4 DEF DeskTypeOK
  <2>5. ChecksAreTrue'
    <3> SUFFICES ASSUME NEW b \in Agents PROVE WithinWindow(reply[b])' /\ WithinWindow(queued[b])'
      BY DEF ChecksAreTrue
    <3>1. WithinWindow(reply[b]) /\ WithinWindow(queued[b])
      BY <1>0 DEF ChecksAreTrue
    <3> QED
      BY <1>4, <2>4, <3>1 DEF WithinWindow
  <2> QED
    BY <2>1, <2>2, <2>5 DEF DeskIInv
<1>5. ASSUME NEW a \in Agents, NEW c \in Conversations, LoadConversation(a, c) PROVE DeskIInv'
  <2> DEFINE row == [pc |-> "loaded", conversation |-> c,
                     last_inbound |-> conversation[c].last_inbound]
  <2>1. conversation[c] \in Conversation /\ WroteIn(c, conversation[c].last_inbound)
    BY <1>0, <1>5 DEF LoadConversation, Live, DeskTypeOK, ReadsAreTrue
  <2>2. /\ row \in Reply /\ row.pc = "loaded" /\ row.conversation = c
        /\ row.last_inbound = conversation[c].last_inbound
    BY <2>1, DeskShapes DEF Reply
  <2>3. /\ reply' = [reply EXCEPT ![a] = row]
        /\ UNCHANGED <<clock, written, conversation, inbound, queued, privacy>>
    BY <1>5 DEF LoadConversation
  <2> HIDE DEF row
  <2>4. DeskTypeOK'
    BY <1>0, <2>2, <2>3 DEF DeskTypeOK
  <2>5. \A b \in Agents : reply'[b] = IF b = a THEN row ELSE reply[b]
    BY <1>0, <2>3 DEF DeskTypeOK
  <2>6. ReadsAreTrue'
    BY <1>0, <2>1, <2>2, <2>3, <2>5 DEF ReadsAreTrue, WroteIn
  <2>7. ChecksAreTrue'
    BY <1>0, <2>2, <2>3, <2>5 DEF ChecksAreTrue, WithinWindow
  <2> QED
    BY <2>4, <2>6, <2>7 DEF DeskIInv
<1>6. ASSUME NEW a \in Agents, NEW kind \in Kind, CheckWindow(a, kind) PROVE DeskIInv'
  <2> DEFINE row == [pc |-> "checked", conversation |-> reply[a].conversation,
                     kind |-> kind, at |-> clock]
  <2>1. /\ reply[a] \in Reply /\ reply[a].pc = "loaded" /\ reply[a].conversation \in Conversations
        /\ reply[a].last_inbound \in Time
        /\ WroteIn(reply[a].conversation, reply[a].last_inbound)
    BY <1>0, <1>6, DeskShapes DEF CheckWindow, DeskTypeOK, ReadsAreTrue
  <2>2. /\ row \in Checked /\ row \in Reply /\ row.pc = "checked" /\ row.kind = kind
        /\ row.at = clock /\ row.conversation = reply[a].conversation
    BY <1>0, <2>1 DEF Checked, Reply, DeskTypeOK
  <2>3. /\ reply' = [reply EXCEPT ![a] = row]
        /\ UNCHANGED <<clock, written, conversation, inbound, queued, privacy>>
    BY <1>6 DEF CheckWindow
  <2>4. kind = "text" => clock < reply[a].last_inbound + Window
    BY <1>6 DEF CheckWindow, WindowOpen
  <2> HIDE DEF row
  <2>5. DeskTypeOK'
    BY <1>0, <2>2, <2>3 DEF DeskTypeOK
  <2>6. \A b \in Agents : reply'[b] = IF b = a THEN row ELSE reply[b]
    BY <1>0, <2>3 DEF DeskTypeOK
  <2>7. ReadsAreTrue'
    BY <1>0, <2>2, <2>3, <2>6 DEF ReadsAreTrue, WroteIn
  <2>8. WithinWindow(row)
    <3>1. <<reply[a].conversation, reply[a].last_inbound>> \in inbound
          /\ reply[a].last_inbound <= clock
      BY <2>1 DEF WroteIn
    <3> SUFFICES ASSUME kind = "text"
                 PROVE  \E m \in inbound : /\ m[1] = row.conversation
                                           /\ m[2] <= row.at /\ row.at < m[2] + Window
      BY <2>2 DEF WithinWindow
    <3> DEFINE m == <<reply[a].conversation, reply[a].last_inbound>>
    <3>2. m[1] = reply[a].conversation /\ m[2] = reply[a].last_inbound
      OBVIOUS
    <3> HIDE DEF m
    <3>3. m[1] = row.conversation /\ m[2] <= row.at /\ row.at < m[2] + Window
      BY <2>2, <2>4, <3>1, <3>2
    <3> QED
      BY <3>1, <3>3 DEF m
  <2>9. ChecksAreTrue'
    BY <1>0, <2>3, <2>6, <2>8 DEF ChecksAreTrue, WithinWindow
  <2> QED
    BY <2>5, <2>7, <2>9 DEF DeskIInv
<1>7. ASSUME NEW c \in Conversations, NEW s \in {"open", "closed"}, UpdateStatus(c, s)
      PROVE  DeskIInv'
  <2> DEFINE row == [conversation[c] EXCEPT !.status = s]
  <2>1. conversation[c] \in Conversation /\ conversation[c] # NoConversation
    BY <1>0, <1>7 DEF UpdateStatus, Live, DeskTypeOK
  <2>2. row \in Conversation /\ row.last_inbound = conversation[c].last_inbound
    BY <2>1 DEF Conversation
  <2>3. /\ conversation' = [conversation EXCEPT ![c] = row]
        /\ UNCHANGED <<clock, written, inbound, reply, queued, privacy>>
    BY <1>0, <1>7 DEF UpdateStatus, DeskTypeOK
  <2> HIDE DEF row
  <2>4. /\ conversation' \in [Conversations -> Conversation \cup {NoConversation}]
        /\ \A d \in Conversations : conversation'[d] = IF d = c THEN row ELSE conversation[d]
    BY <1>0, <2>2, <2>3 DEF DeskTypeOK
  <2> QED
    BY <1>0, <2>1, <2>2, <2>3, <2>4, RowsChange DEF DeskTypeOK
<1>8. ASSUME NEW p \in PrivacyRequests, NEW kind \in {"export", "anonymize", "delete"},
             CreatePrivacyRequest(p, kind)
      PROVE  DeskIInv'
  <2> DEFINE row == [kind |-> kind, hold |-> FALSE, status |-> "open"]
  <2>1. row \in PrivacyRequest
    BY DEF PrivacyRequest
  <2>2. /\ privacy' = [privacy EXCEPT ![p] = row]
        /\ UNCHANGED <<clock, written, conversation, inbound, reply, queued>>
    BY <1>8 DEF CreatePrivacyRequest
  <2> HIDE DEF row
  <2> QED
    BY <1>0, <2>1, <2>2, RowsChange DEF DeskTypeOK
<1>9. ASSUME NEW p \in PrivacyRequests, HoldRequest(p) PROVE DeskIInv'
  <2> DEFINE row == [privacy[p] EXCEPT !.hold = TRUE]
  <2>1. row \in PrivacyRequest
    BY <1>0, <1>9 DEF HoldRequest, DeskTypeOK, PrivacyRequest
  <2>2. /\ privacy' = [privacy EXCEPT ![p] = row]
        /\ UNCHANGED <<clock, written, conversation, inbound, reply, queued>>
    BY <1>0, <1>9 DEF HoldRequest, DeskTypeOK
  <2> HIDE DEF row
  <2> QED
    BY <1>0, <2>1, <2>2, RowsChange DEF DeskTypeOK
<1>10. ASSUME NEW p \in PrivacyRequests, ProcessPrivacyRequest(p) PROVE DeskIInv'
  <2>1. privacy[p] \in PrivacyRequest /\ privacy[p].kind \in {"export", "anonymize", "delete"}
    BY <1>0, <1>10 DEF ProcessPrivacyRequest, DeskTypeOK, PrivacyRequest
  <2>2. PICK s \in {"rejected", "completed"} : privacy' = [privacy EXCEPT ![p].status = s]
    BY <1>10 DEF ProcessPrivacyRequest
  <2> DEFINE row == [privacy[p] EXCEPT !.status = s]
  <2>3. row \in PrivacyRequest /\ privacy' = [privacy EXCEPT ![p] = row]
    BY <1>0, <2>1, <2>2 DEF DeskTypeOK, PrivacyRequest
  <2> HIDE DEF row
  <2>4. privacy' \in [PrivacyRequests -> PrivacyRequest \cup {NoPrivacyRequest}]
    BY <1>0, <2>3 DEF DeskTypeOK
  <2>5. ASSUME NEW c \in OfCustomer
        PROVE  LET erased == Erased(privacy[p].kind, c)
               IN /\ erased \in Conversation \cup {NoConversation}
                  /\ erased # NoConversation =>
                       conversation[c] # NoConversation
                         /\ erased.last_inbound = conversation[c].last_inbound
    <3>1. conversation[c] \in Conversation /\ conversation[c] # NoConversation
      BY <1>0 DEF OfCustomer, Live, DeskTypeOK
    <3>2. [conversation[c] EXCEPT !.known = FALSE] \in Conversation
          /\ [conversation[c] EXCEPT !.known = FALSE].last_inbound = conversation[c].last_inbound
      BY <3>1 DEF Conversation
    <3> QED
      BY <2>1, <3>1, <3>2 DEF Erased
  <2>6. /\ UNCHANGED <<clock, written, inbound, reply, queued>>
        /\ \/ UNCHANGED conversation
           \/ conversation' = [c \in Conversations |->
                                 IF c \in OfCustomer THEN Erased(privacy[p].kind, c)
                                 ELSE conversation[c]]
    BY <1>10 DEF ProcessPrivacyRequest
  <2>7. /\ conversation' \in [Conversations -> Conversation \cup {NoConversation}]
        /\ \A c \in Conversations : conversation'[c] # NoConversation =>
             conversation[c] # NoConversation
               /\ conversation'[c].last_inbound = conversation[c].last_inbound
    BY <1>0, <2>5, <2>6 DEF DeskTypeOK
  <2> QED
    BY <2>4, <2>6, <2>7, RowsChange
<1>11. ASSUME NEW t \in Time, RunRetention(t) PROVE DeskIInv'
  <2>1. /\ conversation' \in [Conversations -> Conversation \cup {NoConversation}]
        /\ \A c \in Conversations :
             conversation'[c] = conversation[c] \/ conversation'[c] = NoConversation
        /\ UNCHANGED <<clock, written, inbound, reply, queued, privacy>>
    BY <1>0, <1>11 DEF RunRetention, DeskTypeOK
  <2> QED
    BY <1>0, <2>1, RowsChange DEF DeskTypeOK
<1>12. CASE UNCHANGED devars
  BY <1>0, <1>12, RowsChange DEF devars, DeskTypeOK
<1>13. ASSUME NEW a \in Agents, AnswerCustomer(a) PROVE DeskIInv'
  BY <1>4, <1>5, <1>6, <1>13 DEF AnswerCustomer, EnqueueReply, ReplyFails
<1>14. ASSUME NEW p \in PrivacyRequests, Protect(p) PROVE DeskIInv'
  BY <1>8, <1>9, <1>10, <1>14 DEF Protect
<1> QED
  BY <1>1, <1>2, <1>3, <1>7, <1>11, <1>12, <1>13, <1>14 DEF DeskNext

\* Whatever order messages are processed in, however stale what an agent read, and whatever
\* is closed, redacted or deleted meanwhile: a free text was checked within a window of a
\* message the customer wrote in that conversation.
THEOREM TextsAreInTime == DeskSpec => []WindowIsTrue
<1>1. DeskIInv => WindowIsTrue
  BY DeskShapes DEF DeskIInv, DeskTypeOK, ChecksAreTrue, WithinWindow, WindowIsTrue
<1> QED
  BY <1>1, DeskInitInv, DeskNextInv, PTL DEF DeskSpec

-----------------------------------------------------------------------------
(* Providers *)

\* A request that created a row, and has not committed it, has that row to itself.
RowsAreHeld ==
  /\ \A m \in Managers : manager[m].pc \in {"store", "commit"} =>
       provider_rows[manager[m].row].status = "pending"
  /\ \A m, n \in Managers :
       /\ manager[m].pc \in {"store", "commit"} /\ manager[n].pc \in {"store", "commit"}
       /\ manager[m].row = manager[n].row
       => m = n

\* A request about to commit has stored its credential.
CredentialFirst == \A m \in Managers : manager[m].pc = "commit" => credential

ProvidersIInv == ProvidersTypeOK /\ RowsAreHeld /\ CredentialFirst /\ ProviderRowsSound

\* What requests and rows are made of.
LEMMA ManagerShapes ==
  /\ Free \in Manager /\ Free.pc = "idle"
  /\ \A pc \in {"idle", "test", "activate", "deactivate", "audit"} : [pc |-> pc] \in Manager
  /\ \A x \in Manager : x.pc \in {"store", "commit"} =>
       x.row \in Rows /\ x = [pc |-> x.pc, row |-> x.row]
  /\ \A x \in ProviderRow : /\ x.form \in Submission \cup {NoForm}
                            /\ x.status \in {"none", "pending", "draft", "active", "revoked"}
                            /\ x = [status |-> x.status, form |-> x.form]
  /\ NoForm \notin Submission
<1>1. Free \in Manager /\ Free.pc = "idle"
  BY DEF Free, Manager
<1>2. \A pc \in {"idle", "test", "activate", "deactivate", "audit"} : [pc |-> pc] \in Manager
  BY DEF Manager
<1>3. \A x \in Manager : x.pc \in {"store", "commit"} =>
        x.row \in Rows /\ x = [pc |-> x.pc, row |-> x.row]
  BY DEF Manager
<1>4. \A x \in ProviderRow : /\ x.form \in Submission \cup {NoForm}
                             /\ x.status \in {"none", "pending", "draft", "active", "revoked"}
                             /\ x = [status |-> x.status, form |-> x.form]
  BY DEF ProviderRow
<1>5. NoForm \notin Submission
  <2>1. NoForm.provider = "none" /\ \A s \in Submission : s.provider # "none"
    BY DEF NoForm, Submission
  <2> QED
    BY <2>1
<1> QED
  BY <1>1, <1>2, <1>3, <1>4, <1>5

\* The invariant holds at first.
LEMMA ProvidersInitInv == ProvidersInit => ProvidersIInv
<1> SUFFICES ASSUME ProvidersInit PROVE ProvidersIInv
  OBVIOUS
<1>1. ProvidersTypeOK
  BY ManagerShapes DEF ProvidersInit, ProvidersTypeOK, ProviderRow
<1>2. RowsAreHeld /\ CredentialFirst
  BY ManagerShapes DEF ProvidersInit, RowsAreHeld, CredentialFirst
<1>3. ProviderRowsSound
  BY DEF ProvidersInit, ProviderRowsSound, HasStatus
<1> QED
  BY <1>1, <1>2, <1>3 DEF ProvidersIInv

\* A step that leaves the rows: a request moves on without creating one.
LEMMA RowsStay ==
  ASSUME ProvidersIInv, NEW m \in Managers, NEW x \in Manager,
         x.pc \in {"store", "commit"} =>
           /\ manager[m].pc \in {"store", "commit"} /\ x.row = manager[m].row
           /\ x.pc = "commit" => credential',
         manager' = [manager EXCEPT ![m] = x],
         provider_rows' = provider_rows, credential' \in BOOLEAN, credential => credential',
         provider_audit \subseteq provider_audit',
         provider_audit' \subseteq {"provider.activated", "provider.revoked",
                                    "provider.credentials_rotated", "provider.migrated"}
  PROVE  ProvidersIInv'
<1>0. ProvidersTypeOK /\ RowsAreHeld /\ CredentialFirst /\ ProviderRowsSound
  BY DEF ProvidersIInv
<1>1. ProvidersTypeOK'
  BY <1>0 DEF ProvidersTypeOK
<1>2. \A n \in Managers : manager'[n] = IF n = m THEN x ELSE manager[n]
  BY <1>0 DEF ProvidersTypeOK
<1>3. RowsAreHeld' /\ CredentialFirst'
  BY <1>0, <1>2 DEF RowsAreHeld, CredentialFirst
<1>4. ProviderRowsSound'
  BY <1>0 DEF ProviderRowsSound, HasStatus
<1> QED
  BY <1>1, <1>3, <1>4 DEF ProvidersIInv

\* A step that leaves the rows that are held, after which none is held that was not.
LEMMA HoldersStay ==
  ASSUME ProvidersIInv, UNCHANGED credential,
         manager' \in [Managers -> Manager],
         \A m \in Managers : manager'[m] = manager[m] \/ manager'[m].pc = "idle",
         \A r \in Rows : provider_rows[r].status = "pending" =>
           \/ provider_rows'[r].status = "pending"
           \/ \A m \in Managers : manager'[m].pc \in {"store", "commit"} => manager'[m].row # r
  PROVE  RowsAreHeld' /\ CredentialFirst'
<1>0. ProvidersTypeOK /\ RowsAreHeld /\ CredentialFirst
  BY DEF ProvidersIInv
<1>1. \A m \in Managers : manager[m].pc \in {"store", "commit"} => manager[m].row \in Rows
  BY <1>0, ManagerShapes DEF ProvidersTypeOK
<1> QED
  BY <1>0, <1>1 DEF RowsAreHeld, CredentialFirst

\* Every step preserves it, and a revoked row stays so.
LEMMA ProvidersNextInv ==
  ProvidersIInv /\ [ProvidersNext]_prvars =>
    /\ ProvidersIInv'
    /\ \A r \in Rows : provider_rows[r].status = "revoked" => provider_rows'[r].status = "revoked"
<1> DEFINE Stay == \A r \in Rows :
                     provider_rows[r].status = "revoked" => provider_rows'[r].status = "revoked"
<1> SUFFICES ASSUME ProvidersIInv, [ProvidersNext]_prvars PROVE ProvidersIInv' /\ Stay
  OBVIOUS
<1>0. /\ ProvidersTypeOK /\ RowsAreHeld /\ CredentialFirst /\ ProviderRowsSound
      /\ Submissions \subseteq Submission /\ Legacy \in Seq(Submission)
  BY ProvidersAssumption DEF ProvidersAssumption, ProvidersIInv
<1>1. ASSUME NEW m \in Managers, NEW r \in Rows, NEW s \in Submissions, InsertProvider(m, r, s)
      PROVE  ProvidersIInv' /\ Stay
  <2> DEFINE row == [status |-> "pending", form |-> s]
             x == [pc |-> "store", row |-> r]
  <2>1. /\ row \in ProviderRow /\ row.status = "pending" /\ row.form = s
        /\ x \in Manager /\ x.pc = "store" /\ x.row = r
    BY <1>0 DEF ProviderRow, Manager
  <2>2. /\ provider_rows' = [provider_rows EXCEPT ![r] = row]
        /\ manager' = [manager EXCEPT ![m] = x] /\ FullSetupValid(s)
        /\ provider_rows[r].status = "none" /\ UNCHANGED <<credential, provider_audit>>
    BY <1>1 DEF InsertProvider
  <2> HIDE DEF row, x
  <2>3. /\ \A n \in Managers : manager'[n] = IF n = m THEN x ELSE manager[n]
        /\ \A q \in Rows : provider_rows'[q] = IF q = r THEN row ELSE provider_rows[q]
    BY <1>0, <2>2 DEF ProvidersTypeOK
  <2>4. ProvidersTypeOK'
    BY <1>0, <2>1, <2>2 DEF ProvidersTypeOK
  <2>5. \A n \in Managers : manager[n].pc \in {"store", "commit"} =>
          manager[n].row \in Rows /\ manager[n].row # r
    BY <1>0, <2>2, ManagerShapes DEF ProvidersTypeOK, RowsAreHeld
  <2>6. RowsAreHeld' /\ CredentialFirst'
    BY <1>0, <2>1, <2>2, <2>3, <2>5 DEF RowsAreHeld, CredentialFirst
  <2>7. ProviderRowsSound'
    BY <1>0, <2>1, <2>2, <2>3 DEF ProviderRowsSound, HasStatus
  <2> QED
    BY <2>1, <2>2, <2>3, <2>4, <2>6, <2>7 DEF ProvidersIInv
<1>2. ASSUME NEW m \in Managers, StoreCredential(m) PROVE ProvidersIInv' /\ Stay
  <2> DEFINE x == [manager[m] EXCEPT !.pc = "commit"]
  <2>1. manager[m] \in Manager /\ manager[m].pc = "store" /\ credential' = TRUE
        /\ UNCHANGED <<provider_rows, provider_audit>>
    BY <1>0, <1>2 DEF StoreCredential, ProvidersTypeOK
  <2>2. manager[m] = [pc |-> manager[m].pc, row |-> manager[m].row] /\ manager[m].row \in Rows
    BY <2>1, ManagerShapes
  <2>3. x \in Manager /\ x.pc = "commit" /\ x.row = manager[m].row
    BY <2>2 DEF Manager
  <2>4. manager' = [manager EXCEPT ![m] = x]
    BY <1>0, <1>2 DEF StoreCredential, ProvidersTypeOK
  <2> HIDE DEF x
  <2> QED
    BY <1>0, <2>1, <2>3, <2>4, RowsStay DEF ProvidersTypeOK
<1>3. ASSUME NEW m \in Managers, NEW pc \in {"idle", "test", "activate", "deactivate", "audit"},
             Move(m, pc), provider_rows' = provider_rows, UNCHANGED credential,
             provider_audit \subseteq provider_audit',
             provider_audit' \subseteq {"provider.activated", "provider.revoked",
                                        "provider.credentials_rotated", "provider.migrated"}
      PROVE  ProvidersIInv' /\ Stay
  <2> DEFINE x == [pc |-> pc]
  <2>1. x \in Manager /\ x.pc \notin {"store", "commit"} /\ manager' = [manager EXCEPT ![m] = x]
    BY <1>3, ManagerShapes DEF Move
  <2> HIDE DEF x
  <2> QED
    BY <1>0, <1>3, <2>1, RowsStay DEF ProvidersTypeOK
<1>4. ASSUME NEW m \in Managers, Move(m, "idle")
      PROVE  /\ manager' \in [Managers -> Manager] /\ manager'[m].pc = "idle"
             /\ \A n \in Managers : manager'[n] = manager[n] \/ manager'[n].pc = "idle"
             /\ \A n \in Managers \ {m} : manager'[n] = manager[n]
  <2>1. [pc |-> "idle"] \in Manager
    BY ManagerShapes
  <2> QED
    BY <1>0, <1>4, <2>1 DEF Move, ProvidersTypeOK
<1>5. ASSUME NEW m \in Managers, CommitProvider(m) PROVE ProvidersIInv' /\ Stay
  <2>0. PICK r \in Rows : r = manager[m].row
    BY <1>0, <1>5, ManagerShapes DEF CommitProvider, ProvidersTypeOK
  <2> DEFINE row == [provider_rows[r] EXCEPT !.status = "draft"]
  <2>1. /\ provider_rows[r] \in ProviderRow /\ provider_rows[r].status = "pending" /\ credential
        /\ Move(m, "idle") /\ UNCHANGED <<credential, provider_audit>>
    BY <1>0, <1>5, <2>0 DEF CommitProvider, ProvidersTypeOK, RowsAreHeld, CredentialFirst
  <2>2. row \in ProviderRow /\ row.status = "draft" /\ row.form = provider_rows[r].form
    BY <2>1 DEF ProviderRow
  <2>3. provider_rows' = [provider_rows EXCEPT ![r] = row]
    BY <1>0, <1>5, <2>0 DEF CommitProvider, ProvidersTypeOK
  <2> HIDE DEF row
  <2>4. \A q \in Rows : provider_rows'[q] = IF q = r THEN row ELSE provider_rows[q]
    BY <1>0, <2>3 DEF ProvidersTypeOK
  <2>5. ProvidersTypeOK'
    BY <1>0, <1>4, <2>1, <2>2, <2>3 DEF ProvidersTypeOK
  <2>6. \A n \in Managers : manager'[n].pc \in {"store", "commit"} => manager'[n].row # r
    BY <1>0, <1>4, <1>5, <2>0, <2>1 DEF RowsAreHeld, CommitProvider
  <2>7. RowsAreHeld' /\ CredentialFirst'
    BY <1>4, <2>1, <2>4, <2>6, HoldersStay
  <2>8. ProviderRowsSound'
    BY <1>0, <2>1, <2>2, <2>4 DEF ProviderRowsSound, HasStatus
  <2> QED
    BY <2>1, <2>4, <2>5, <2>7, <2>8 DEF ProvidersIInv
<1>6. ASSUME NEW m \in Managers, ActivateProvider(m) PROVE ProvidersIInv' /\ Stay
  <2>1. /\ Move(m, "idle") /\ UNCHANGED credential
        /\ provider_audit' = provider_audit \cup {"provider.activated"}
    BY <1>6 DEF ActivateProvider
  <2>2. CASE UNCHANGED provider_rows
    BY <1>0, <1>3, <2>1, <2>2 DEF ProvidersTypeOK
  <2>3. ASSUME NEW r \in Committed, MayBeActive(r),
               provider_rows' = [provider_rows EXCEPT ![r].status = "active"]
        PROVE  ProvidersIInv' /\ Stay
    <3> DEFINE row == [provider_rows[r] EXCEPT !.status = "active"]
    <3>1. /\ r \in Rows /\ provider_rows[r] \in ProviderRow
          /\ provider_rows[r].status \in {"draft", "active"}
          /\ \A o \in Rows \ {r} : provider_rows[o].status # "active"
      BY <1>0, <2>3 DEF Committed, MayBeActive, ProvidersTypeOK
    <3>2. row \in ProviderRow /\ row.status = "active" /\ row.form = provider_rows[r].form
      BY <3>1 DEF ProviderRow
    <3>3. provider_rows' = [provider_rows EXCEPT ![r] = row]
      BY <1>0, <2>3, <3>1 DEF ProvidersTypeOK
    <3> HIDE DEF row
    <3>4. \A q \in Rows : provider_rows'[q] = IF q = r THEN row ELSE provider_rows[q]
      BY <1>0, <3>3 DEF ProvidersTypeOK
    <3>5. ProvidersTypeOK'
      BY <1>0, <1>4, <2>1, <3>2, <3>3 DEF ProvidersTypeOK
    <3>6. RowsAreHeld' /\ CredentialFirst'
      BY <1>4, <2>1, <3>1, <3>4, HoldersStay
    <3>7. ProviderRowsSound'
      BY <1>0, <2>1, <3>1, <3>2, <3>4 DEF ProviderRowsSound, HasStatus
    <3> QED
      BY <3>1, <3>4, <3>5, <3>6, <3>7 DEF ProvidersIInv
  <2> QED
    BY <1>6, <2>2, <2>3 DEF ActivateProvider
<1>7. ASSUME NEW m \in Managers, DeactivateProvider(m) PROVE ProvidersIInv' /\ Stay
  <2>1. /\ Move(m, "idle") /\ UNCHANGED credential
        /\ provider_audit' = provider_audit \cup {"provider.revoked"}
        /\ provider_rows' =
             [r \in Rows |-> IF r \in Committed THEN [provider_rows[r] EXCEPT !.status = "revoked"]
                             ELSE provider_rows[r]]
    BY <1>7 DEF DeactivateProvider
  <2>2. \A r \in Rows :
          /\ provider_rows'[r] \in ProviderRow /\ provider_rows'[r].form = provider_rows[r].form
          /\ r \in Committed => provider_rows'[r].status = "revoked"
          /\ r \notin Committed => provider_rows'[r] = provider_rows[r]
    <3> SUFFICES ASSUME NEW r \in Rows
                 PROVE  /\ provider_rows'[r] \in ProviderRow
                        /\ provider_rows'[r].form = provider_rows[r].form
                        /\ r \in Committed => provider_rows'[r].status = "revoked"
                        /\ r \notin Committed => provider_rows'[r] = provider_rows[r]
      OBVIOUS
    <3>1. provider_rows[r] \in ProviderRow
      BY <1>0 DEF ProvidersTypeOK
    <3>2. /\ [provider_rows[r] EXCEPT !.status = "revoked"] \in ProviderRow
          /\ [provider_rows[r] EXCEPT !.status = "revoked"].status = "revoked"
          /\ [provider_rows[r] EXCEPT !.status = "revoked"].form = provider_rows[r].form
      BY <3>1 DEF ProviderRow
    <3> QED
      BY <2>1, <3>1, <3>2
  <2>3. \A r \in Rows : r \notin Committed => provider_rows[r].status \in {"none", "pending"}
    BY <1>0, ManagerShapes DEF Committed, ProvidersTypeOK
  <2>4. \A r \in Rows : provider_rows[r].status = "pending" => provider_rows'[r].status = "pending"
    BY <2>2 DEF Committed
  <2>5. ProvidersTypeOK'
    <3>1. provider_rows' \in [Rows -> ProviderRow]
      BY <2>1, <2>2
    <3> QED
      BY <1>0, <1>4, <2>1, <3>1 DEF ProvidersTypeOK
  <2>6. RowsAreHeld' /\ CredentialFirst'
    BY <1>4, <2>1, <2>4, HoldersStay
  <2>7. \A r \in Rows : provider_rows'[r].status \notin {"active", "draft"}
    BY <2>2, <2>3
  <2>8. ProviderRowsSound'
    BY <1>0, <2>1, <2>2, <2>7 DEF ProviderRowsSound, HasStatus
  <2> QED
    BY <2>2, <2>5, <2>6, <2>8 DEF ProvidersIInv, Committed
<1>8. ASSUME NEW m \in Managers, RollBack(m) PROVE ProvidersIInv' /\ Stay
  <2>1. Move(m, "idle") /\ UNCHANGED <<credential, provider_audit>>
    BY <1>8 DEF RollBack
  <2>2. CASE manager[m].pc \notin {"store", "commit"}
    BY <1>0, <1>3, <1>8, <2>1, <2>2 DEF RollBack, ProvidersTypeOK
  <2>3. CASE manager[m].pc \in {"store", "commit"}
    <3>0. PICK r \in Rows : r = manager[m].row
      BY <1>0, <2>3, ManagerShapes DEF ProvidersTypeOK
    <3> DEFINE row == [status |-> "none", form |-> NoForm]
    <3>1. /\ row \in ProviderRow /\ row.status = "none" /\ row.form = NoForm
      BY DEF ProviderRow
    <3>2. provider_rows' = [provider_rows EXCEPT ![r] = row] /\ provider_rows[r].status = "pending"
      BY <1>0, <1>8, <2>3, <3>0 DEF RollBack, RowsAreHeld
    <3> HIDE DEF row
    <3>3. \A q \in Rows : provider_rows'[q] = IF q = r THEN row ELSE provider_rows[q]
      BY <1>0, <3>2 DEF ProvidersTypeOK
    <3>4. ProvidersTypeOK'
      BY <1>0, <1>4, <2>1, <3>1, <3>2 DEF ProvidersTypeOK
    <3>5. \A n \in Managers : manager'[n].pc \in {"store", "commit"} => manager'[n].row # r
      BY <1>0, <1>4, <2>1, <2>3, <3>0 DEF RowsAreHeld
    <3>6. RowsAreHeld' /\ CredentialFirst'
      BY <1>4, <2>1, <3>3, <3>5, HoldersStay
    <3>7. ProviderRowsSound'
      BY <1>0, <2>1, <3>1, <3>3 DEF ProviderRowsSound, HasStatus
    <3> QED
      BY <3>2, <3>3, <3>4, <3>6, <3>7 DEF ProvidersIInv
  <2> QED
    BY <2>2, <2>3
<1>9. CASE MigrateLegacy
  <2>0. PICK i \in DOMAIN Legacy :
          /\ UpsertActive(Legacy[i]) /\ UNCHANGED <<credential, manager>>
          /\ provider_audit' = provider_audit \cup {"provider.migrated"}
    BY <1>9 DEF MigrateLegacy
  <2> DEFINE row == [status |-> "active", form |-> Legacy[i]]
  <2>1. row \in ProviderRow /\ row.status = "active" /\ row.form = Legacy[i]
    BY <1>0 DEF ProviderRow
  <2>2. PICK r \in Rows :
          /\ \A q \in Rows : provider_rows'[q] = IF q = r THEN row ELSE provider_rows[q]
          /\ provider_rows[r].status \in {"none", "active"}
          /\ \A q \in Rows \ {r} : provider_rows[q].status # "active"
          /\ provider_rows' \in [Rows -> ProviderRow]
    <3>1. CASE HasStatus("active")
      <4>1. PICK r \in Rows : provider_rows[r].status = "active"
        BY <3>1 DEF HasStatus
      <4>2. \A q \in Rows \ {r} : provider_rows[q].status # "active"
        BY <1>0, <4>1 DEF ProviderRowsSound
      <4>3. provider_rows' = [q \in Rows |-> IF provider_rows[q].status = "active" THEN row
                                             ELSE provider_rows[q]]
        BY <2>0, <3>1 DEF UpsertActive
      <4> HIDE DEF row
      <4> QED
        BY <1>0, <2>1, <4>1, <4>2, <4>3 DEF ProvidersTypeOK
    <3>2. CASE ~ HasStatus("active")
      <4>1. PICK r \in Rows : /\ provider_rows[r].status = "none"
                              /\ provider_rows' = [provider_rows EXCEPT ![r] = row]
        BY <2>0, <3>2 DEF UpsertActive
      <4> HIDE DEF row
      <4> QED
        BY <1>0, <2>1, <3>2, <4>1 DEF ProvidersTypeOK, HasStatus
    <3> QED
      BY <3>1, <3>2
  <2> HIDE DEF row
  <2>3. ProvidersTypeOK'
    BY <1>0, <2>0, <2>2 DEF ProvidersTypeOK
  <2>4. RowsAreHeld' /\ CredentialFirst'
    <3>1. \A q \in Rows : provider_rows[q].status = "pending" => provider_rows'[q].status = "pending"
      BY <2>2
    <3>2. manager' \in [Managers -> Manager]
      BY <1>0, <2>0 DEF ProvidersTypeOK
    <3> QED
      BY <2>0, <3>1, <3>2, HoldersStay
  <2>5. ProviderRowsSound'
    BY <1>0, <2>0, <2>1, <2>2 DEF ProviderRowsSound, HasStatus
  <2> QED
    BY <2>1, <2>2, <2>3, <2>4, <2>5 DEF ProvidersIInv
<1>10. CASE UNCHANGED prvars
  BY <1>0, <1>10 DEF prvars, ProvidersIInv, ProvidersTypeOK, RowsAreHeld, CredentialFirst,
                     ProviderRowsSound, HasStatus
<1>11. ASSUME NEW m \in Managers, ManageProvider(m) PROVE ProvidersIInv' /\ Stay
  <2>1. CASE BeginActivateProvider(m)
    BY <1>0, <1>3, <2>1 DEF BeginActivateProvider, ProvidersTypeOK
  <2>2. CASE TestConnection(m)
    BY <1>0, <1>3, <2>2 DEF TestConnection, ProvidersTypeOK
  <2>3. CASE BeginDeactivateProvider(m)
    BY <1>0, <1>3, <2>3 DEF BeginDeactivateProvider, ProvidersTypeOK
  <2>4. CASE RotateCredential(m)
    BY <1>0, <1>3, <2>4 DEF RotateCredential, ProvidersTypeOK
  <2>5. CASE AuditRotation(m)
    BY <1>0, <1>3, <2>5 DEF AuditRotation, ProvidersTypeOK
  <2> HIDE DEF Stay
  <2> QED
    BY <1>1, <1>2, <1>5, <1>6, <1>7, <1>8, <1>11, <2>1, <2>2, <2>3, <2>4, <2>5
    DEF ManageProvider
<1> HIDE DEF Stay
<1> QED
  BY <1>9, <1>10, <1>11 DEF ProvidersNext

\* However many administrators create, activate, deactivate and migrate at once, over
\* whatever they read and however often they fail, the rows agree with each other, with the
\* credential and with the audit.
THEOREM RowsAgree == ProvidersSpec => []ProviderRowsSound
<1>1. ProvidersIInv => ProviderRowsSound
  BY DEF ProvidersIInv
<1> QED
  BY <1>1, ProvidersInitInv, ProvidersNextInv, PTL DEF ProvidersSpec

\* No activation that read a draft brings a revoked row back.
THEOREM RevocationIsFinal == ProvidersSpec => RevokedStaysRevoked
<1>1. ProvidersIInv /\ [ProvidersNext]_prvars =>
        [\A r \in Rows : provider_rows[r].status = "revoked"
                           => provider_rows'[r].status = "revoked"]_prvars
  BY ProvidersNextInv
<1> QED
  BY <1>1, ProvidersInitInv, ProvidersNextInv, PTL DEF ProvidersSpec, RevokedStaysRevoked

-----------------------------------------------------------------------------
(* The command line *)

\* A run that is about to commit an account, and the account's row.
Adding(x) == x.pc = "resolve" /\ x.response = "created"

RowOf(x) == [email |-> LowerCase[x.email], login |-> LowerCase[x.email]]

\* A run under way has its claim to itself, and nobody completed it; what it did outside
\* its transaction is done when it resolves.
ClaimsAreHeld ==
  /\ \A o, p \in Operators :
       operator[o] # Waiting /\ operator[p] # Waiting /\ operator[o].claim = operator[p].claim
         => o = p
  /\ \A o \in Operators : operator[o] # Waiting =>
       /\ idempotency[operator[o].claim] = NoRecord
       /\ operator[o].pc = "insert" => operator[o].claim[1] = "create"
       /\ operator[o].pc = "resolve" /\ operator[o].claim[1] \in {"drain", "request"}
            => effects[operator[o].claim] > 0

\* What was done in a transaction was done once, with its record.
EffectsAreRecorded ==
  /\ \A t \in told : idempotency[t[1]] = t[2]
  /\ \A c \in Claim : idempotency[c] # NoRecord => effects[c] > 0
  /\ \A c \in Claim : c[1] \in {"create", "reset-password"} =>
       effects[c] = IF idempotency[c] = NoRecord THEN 0 ELSE 1

\* No two accounts, committed or about to be, share an e-mail or a login.
AccountsApart ==
  /\ \A a, b \in accounts : Clash(a, b) => a = b
  /\ \A o \in Operators : Adding(operator[o]) =>
       \A a \in accounts : ~ Clash(a, RowOf(operator[o]))
  /\ \A o, p \in Operators : Adding(operator[o]) /\ Adding(operator[p]) /\ o # p =>
       ~ Clash(RowOf(operator[o]), RowOf(operator[p]))
  /\ migration.pc = "created" =>
       /\ \A a \in accounts : ~ Clash(a, MigrationRow)
       /\ \A o \in Operators : Adding(operator[o]) => ~ Clash(MigrationRow, RowOf(operator[o]))

\* The administrator a migration found, or left in the settings, has an account.
AdministratorExists ==
  /\ migration.pc = "found" => Registered(LowerCase[migration.as.email])
  /\ \A e \in settings : Registered(LowerCase[e])

OperationsIInv ==
  /\ OperationsTypeOK /\ ClaimsAreHeld /\ EffectsAreRecorded /\ AccountsApart
  /\ AdministratorExists

\* What runs and records are made of.
LEMMA OperatorShapes ==
  /\ Waiting.pc = "idle" /\ Waiting \in Operator /\ Waiting \in Migration /\ ~ Adding(Waiting)
  /\ \A x \in Operator : x # Waiting =>
       /\ x.claim \in Claim /\ x.email \in Emails /\ x.pc \in {"effect", "insert", "resolve"}
       /\ x.pc = "resolve" => x.response \in Responses
       /\ x.pc # "resolve" => x = [pc |-> x.pc, claim |-> x.claim, email |-> x.email]
       /\ x.pc # "idle"
  /\ \A x \in Migration : x # Waiting => x.as \in Deployments /\ x.pc \in {"insert", "created", "found"}
  /\ NoRecord \notin Record
  /\ \A c \in Claim : c[1] \in Operation
<1>1. /\ Waiting.pc = "idle" /\ Waiting \in Operator /\ Waiting \in Migration /\ ~ Adding(Waiting)
  BY DEF Waiting, Operator, Migration, Adding
<1>2. \A x \in Operator : x # Waiting =>
        /\ x.claim \in Claim /\ x.email \in Emails /\ x.pc \in {"effect", "insert", "resolve"}
        /\ x.pc = "resolve" => x.response \in Responses
        /\ x.pc # "resolve" => x = [pc |-> x.pc, claim |-> x.claim, email |-> x.email]
        /\ x.pc # "idle"
  BY DEF Operator
<1>3. \A x \in Migration : x # Waiting => x.as \in Deployments /\ x.pc \in {"insert", "created", "found"}
  BY DEF Migration
<1>4. NoRecord \notin Record
  <2>1. NoRecord.response = "none" /\ \A x \in Record : x.response # "none"
    BY DEF NoRecord, Record, Responses
  <2> QED
    BY <2>1
<1>5. \A c \in Claim : c[1] \in Operation
  BY DEF Claim
<1> QED
  BY <1>1, <1>2, <1>3, <1>4, <1>5

\* The accounts the command line and the migration make are accounts.
LEMMA RowsAreAccounts ==
  ASSUME OperationsTypeOK
  PROVE  /\ \A o \in Operators : operator[o] # Waiting => RowOf(operator[o]) \in Account
         /\ migration # Waiting => MigrationRow \in Account /\ migration.as.email \in Emails
  BY OperatorShapes, OperationsAssumption
  DEF OperationsAssumption, OperationsTypeOK, RowOf, MigrationRow, Account

\* The rows that are not committed.
LEMMA UncommittedRows ==
  /\ \A o \in Operators : Adding(operator[o]) => RowOf(operator[o]) \in Uncommitted
  /\ migration.pc = "created" => MigrationRow \in Uncommitted
  BY DEF Uncommitted, Adding, RowOf

\* The invariant holds at first.
LEMMA OperationsInitInv == OperationsInit => OperationsIInv
<1> SUFFICES ASSUME OperationsInit PROVE OperationsIInv
  OBVIOUS
<1>1. OperationsTypeOK
  BY OperatorShapes, OperationsAssumption DEF OperationsAssumption, OperationsInit, OperationsTypeOK
<1>2. ClaimsAreHeld /\ EffectsAreRecorded
  BY DEF OperationsInit, ClaimsAreHeld, EffectsAreRecorded
<1>3. AccountsApart /\ AdministratorExists
  BY OperatorShapes DEF OperationsInit, AccountsApart, AdministratorExists
<1> QED
  BY <1>1, <1>2, <1>3 DEF OperationsIInv

\* A run takes a turn without committing anything.
LEMMA TurnStep ==
  ASSUME OperationsIInv, NEW o \in Operators, NEW x \in Operator,
         x # Waiting =>
           /\ idempotency[x.claim] = NoRecord
           /\ \A p \in Operators \ {o} : operator[p] # Waiting => operator[p].claim # x.claim
           /\ x.pc = "insert" => x.claim[1] = "create"
           /\ x.pc = "resolve" /\ x.claim[1] \in {"drain", "request"} => effects'[x.claim] > 0,
         Adding(x) =>
           /\ \A a \in accounts : ~ Clash(a, RowOf(x))
           /\ \A p \in Operators \ {o} : Adding(operator[p]) => ~ Clash(RowOf(operator[p]), RowOf(x))
           /\ migration.pc = "created" => ~ Clash(MigrationRow, RowOf(x)),
         operator' = [operator EXCEPT ![o] = x],
         effects' \in [Claim -> 0 .. MaxEffects],
         \A c \in Claim : /\ effects[c] > 0 => effects'[c] > 0
                          /\ c[1] \in {"create", "reset-password"} => effects'[c] = effects[c],
         told' \subseteq Claim \X Record, \A t \in told' : idempotency[t[1]] = t[2],
         UNCHANGED <<accounts, idempotency, migration, settings>>
  PROVE  OperationsIInv'
<1>0. /\ OperationsTypeOK /\ ClaimsAreHeld /\ EffectsAreRecorded /\ AccountsApart
      /\ AdministratorExists
  BY DEF OperationsIInv
<1>1. \A p \in Operators : operator'[p] = IF p = o THEN x ELSE operator[p]
  BY <1>0 DEF OperationsTypeOK
<1>2. OperationsTypeOK'
  BY <1>0 DEF OperationsTypeOK
<1>3. ClaimsAreHeld'
  <2>1. \A p \in Operators : operator[p] # Waiting => operator[p].claim \in Claim
    BY <1>0, OperatorShapes DEF OperationsTypeOK
  <2> QED
    BY <1>0, <1>1, <2>1 DEF ClaimsAreHeld
<1>4. EffectsAreRecorded'
  BY <1>0 DEF EffectsAreRecorded
<1>5. MigrationRow' = MigrationRow /\ \A y : RowOf(y)' = RowOf(y)
  BY DEF MigrationRow, RowOf
<1>6. AccountsApart'
  <2>1. \A a, b : Clash(a, b) <=> Clash(b, a)
    BY DEF Clash
  <2>2. \A p \in Operators : Adding(operator'[p]) => \A a \in accounts : ~ Clash(a, RowOf(operator'[p]))
    BY <1>0, <1>1 DEF AccountsApart
  <2>3. \A p, q \in Operators : Adding(operator'[p]) /\ Adding(operator'[q]) /\ p # q =>
          ~ Clash(RowOf(operator'[p]), RowOf(operator'[q]))
    BY <1>0, <1>1, <2>1 DEF AccountsApart
  <2>4. migration.pc = "created" =>
          \A p \in Operators : Adding(operator'[p]) => ~ Clash(MigrationRow, RowOf(operator'[p]))
    BY <1>0, <1>1 DEF AccountsApart
  <2> QED
    BY <1>0, <1>5, <2>2, <2>3, <2>4 DEF AccountsApart, RowOf, Adding, Clash
<1>7. AdministratorExists'
  BY <1>0 DEF AdministratorExists, Registered
<1> QED
  BY <1>2, <1>3, <1>4, <1>6, <1>7 DEF OperationsIInv

\* A run commits: its record, what it did, and its account if it made one.
LEMMA CommitStep ==
  ASSUME OperationsIInv, NEW o \in Operators, CommitCommand(o)
  PROVE  OperationsIInv'
<1>0. /\ OperationsTypeOK /\ ClaimsAreHeld /\ EffectsAreRecorded /\ AccountsApart
      /\ AdministratorExists
  BY DEF OperationsIInv
<1>1. PICK x \in Operator : x = operator[o] /\ x # Waiting /\ x.pc = "resolve"
  BY <1>0, OperatorShapes DEF CommitCommand, OperationsTypeOK
<1> DEFINE c == x.claim
           record == [email |-> x.email, response |-> x.response]
           row == RowOf(x)
           new == IF x.response = "created" THEN {row} ELSE {}
<1>2. /\ c \in Claim /\ record \in Record /\ record # NoRecord /\ idempotency[c] = NoRecord
      /\ c[1] \in Operation
  BY <1>0, <1>1, OperatorShapes DEF ClaimsAreHeld, Record
<1>3. /\ idempotency' = [idempotency EXCEPT ![c] = record]
      /\ operator' = [operator EXCEPT ![o] = Waiting]
      /\ effects' = IF c[1] \in {"create", "reset-password"}
                    THEN [effects EXCEPT ![c] = @ + 1] ELSE effects
      /\ told' \in {told, told \cup {<<c, record>>}}
      /\ UNCHANGED <<migration, settings>>
  BY <1>1 DEF CommitCommand, Turn
<1>4. accounts' = accounts \cup new /\ row \in Account
  <2>1. row \in Account
    BY <1>0, <1>1, RowsAreAccounts
  <2>2. accounts' = accounts \cup
          IF record.response = "created"
          THEN {[email |-> LowerCase[record.email], login |-> LowerCase[record.email]]} ELSE {}
    BY <1>1 DEF CommitCommand
  <2>3. record.response = x.response /\ record.email = x.email
    OBVIOUS
  <2> HIDE DEF record
  <2> QED
    BY <2>1, <2>2, <2>3 DEF RowOf
<1>5. x.response = "created" => Adding(x)
  BY <1>1 DEF Adding
<1> HIDE DEF c, record, row
<1>6. \A p \in Operators : operator'[p] = IF p = o THEN Waiting ELSE operator[p]
  BY <1>0, <1>3 DEF OperationsTypeOK
<1>7. \A d \in Claim : idempotency'[d] = IF d = c THEN record ELSE idempotency[d]
  BY <1>0, <1>3 DEF OperationsTypeOK
<1>8. /\ effects' \in [Claim -> 0 .. MaxEffects] /\ effects'[c] > 0
      /\ c[1] \in {"create", "reset-password"} => effects'[c] = 1
      /\ \A d \in Claim \ {c} : effects'[d] = effects[d]
  <2>1. CASE c[1] \in {"create", "reset-password"}
    <3>1. effects[c] = 0 /\ effects' = [effects EXCEPT ![c] = @ + 1]
      BY <1>0, <1>2, <1>3, <2>1 DEF EffectsAreRecorded
    <3>2. 1 \in 0 .. MaxEffects
      BY OperationsAssumption DEF OperationsAssumption
    <3> QED
      BY <1>0, <1>2, <3>1, <3>2 DEF OperationsTypeOK
  <2>2. CASE c[1] \notin {"create", "reset-password"}
    <3>1. c[1] \in {"drain", "request"}
      BY <1>2, <2>2 DEF Operation
    <3>2. effects[c] > 0
      BY <1>0, <1>1, <3>1 DEF ClaimsAreHeld, c
    <3> QED
      BY <1>0, <1>3, <2>2, <3>2 DEF OperationsTypeOK
  <2> QED
    BY <2>1, <2>2
<1>9. OperationsTypeOK'
  <2>1. told' \subseteq Claim \X Record
    BY <1>0, <1>2, <1>3 DEF OperationsTypeOK
  <2>2. accounts' \subseteq Account
    BY <1>0, <1>4 DEF OperationsTypeOK
  <2>3. idempotency' \in [Claim -> Record \cup {NoRecord}]
    BY <1>0, <1>2, <1>3 DEF OperationsTypeOK
  <2>4. operator' \in [Operators -> Operator]
    BY <1>0, <1>3, OperatorShapes DEF OperationsTypeOK
  <2> QED
    BY <1>0, <1>3, <1>8, <2>1, <2>2, <2>3, <2>4 DEF OperationsTypeOK
<1>10. ClaimsAreHeld'
  <2>1. \A p \in Operators \ {o} : operator[p] # Waiting =>
          operator[p].claim \in Claim /\ operator[p].claim # c
    BY <1>0, <1>1, OperatorShapes DEF ClaimsAreHeld, OperationsTypeOK, c
  <2>2. \A p \in Operators \ {o} : operator[p] # Waiting =>
          /\ idempotency'[operator[p].claim] = idempotency[operator[p].claim]
          /\ effects'[operator[p].claim] = effects[operator[p].claim]
    BY <1>7, <1>8, <2>1
  <2> QED
    BY <1>0, <1>6, <2>2 DEF ClaimsAreHeld
<1>11. EffectsAreRecorded'
  <2>1. \A t \in told : t[1] \in Claim /\ t[2] \in Record /\ t[1] # c
    BY <1>0, <1>2, OperatorShapes DEF OperationsTypeOK, EffectsAreRecorded
  <2>2. \A t \in told' : idempotency'[t[1]] = t[2]
    BY <1>0, <1>2, <1>3, <1>7, <2>1 DEF EffectsAreRecorded
  <2> QED
    BY <1>0, <1>2, <1>7, <1>8, <2>2 DEF EffectsAreRecorded
<1>12. AccountsApart'
  <2>1. \A a, b : Clash(a, b) <=> Clash(b, a)
    BY DEF Clash
  <2>2. x.response = "created" =>
          /\ \A a \in accounts : ~ Clash(a, row)
          /\ \A p \in Operators \ {o} : Adding(operator[p]) => ~ Clash(row, RowOf(operator[p]))
          /\ migration.pc = "created" => ~ Clash(MigrationRow, row)
    BY <1>0, <1>1, <1>5 DEF AccountsApart, row
  <2>3. \A a \in new : a = row /\ x.response = "created"
    OBVIOUS
  <2>4. \A a, b \in accounts' : Clash(a, b) => a = b
    BY <1>0, <1>4, <2>1, <2>2, <2>3 DEF AccountsApart
  <2>5. \A p \in Operators : Adding(operator'[p]) =>
          p # o /\ \A a \in accounts' : ~ Clash(a, RowOf(operator'[p]))
    BY <1>0, <1>4, <1>6, <2>2, <2>3, OperatorShapes DEF AccountsApart
  <2>6. \A p, q \in Operators : Adding(operator'[p]) /\ Adding(operator'[q]) /\ p # q =>
          ~ Clash(RowOf(operator'[p]), RowOf(operator'[q]))
    BY <1>0, <1>6, <2>5 DEF AccountsApart
  <2>7. migration.pc = "created" =>
          /\ \A a \in accounts' : ~ Clash(a, MigrationRow)
          /\ \A p \in Operators : Adding(operator'[p]) => ~ Clash(MigrationRow, RowOf(operator'[p]))
    BY <1>0, <1>4, <1>6, <2>1, <2>2, <2>3, <2>5 DEF AccountsApart
  <2>8. MigrationRow' = MigrationRow
    BY <1>3 DEF MigrationRow
  <2> QED
    BY <1>3, <2>4, <2>5, <2>6, <2>7, <2>8 DEF AccountsApart, RowOf, Adding, Clash
<1>13. AdministratorExists'
  BY <1>0, <1>3, <1>4 DEF AdministratorExists, Registered
<1> QED
  BY <1>9, <1>10, <1>11, <1>12, <1>13 DEF OperationsIInv

\* Every turn of a run preserves the invariant.
LEMMA CommandStep ==
  ASSUME OperationsIInv, NEW o \in Operators, RunCommand(o)
  PROVE  OperationsIInv'
<1>0. /\ OperationsTypeOK /\ ClaimsAreHeld /\ EffectsAreRecorded /\ AccountsApart
      /\ AdministratorExists
  BY DEF OperationsIInv
<1> DEFINE Same == /\ effects' \in [Claim -> 0 .. MaxEffects]
                   /\ \A c \in Claim :
                        /\ effects[c] > 0 => effects'[c] > 0
                        /\ c[1] \in {"create", "reset-password"} => effects'[c] = effects[c]
                   /\ told' \subseteq Claim \X Record
                   /\ \A t \in told' : idempotency[t[1]] = t[2]
<1>1. UNCHANGED <<effects, told>> => Same
  BY <1>0 DEF OperationsTypeOK, EffectsAreRecorded
<1>2. ASSUME operator[o] # Waiting, NEW x \in Operator, x # Waiting, x.claim = operator[o].claim
      PROVE  /\ x.claim \in Claim /\ idempotency[x.claim] = NoRecord
             /\ \A p \in Operators \ {o} : operator[p] # Waiting => operator[p].claim # x.claim
  BY <1>0, <1>2, OperatorShapes DEF ClaimsAreHeld
<1>3. CASE ClaimIdempotency(o)
  <2>1. PICK argv \in Argvs :
          LET parsed == ParseArgs(argv)
          IN /\ parsed.command[2] \in Operation
             /\ \E e \in Given(parsed, "--email"), k \in KeysOf(parsed) :
                  LET c == <<parsed.command[2], k>>
                  IN /\ KeyFree(c)
                     /\ \/ /\ idempotency[c] = NoRecord
                           /\ Turn(o, [pc |-> "effect", claim |-> c, email |-> e])
                           /\ UNCHANGED told
                        \/ /\ idempotency[c] # NoRecord /\ idempotency[c].email = e
                           /\ told' = told \cup {<<c, idempotency[c]>>}
                           /\ UNCHANGED operator
    BY <1>3 DEF ClaimIdempotency
  <2>2. PICK e \in Emails, c \in Claim :
          /\ KeyFree(c)
          /\ \/ /\ idempotency[c] = NoRecord
                /\ Turn(o, [pc |-> "effect", claim |-> c, email |-> e])
                /\ UNCHANGED told
             \/ /\ idempotency[c] # NoRecord
                /\ told' = told \cup {<<c, idempotency[c]>>}
                /\ UNCHANGED operator
    <3>1. \A k \in KeysOf(ParseArgs(argv)) : k \in Keys
      BY DEF Keys
    <3>2. Given(ParseArgs(argv), "--email") \subseteq Emails
      BY ArgvsAssumption DEF ArgvsAssumption
    <3> QED
      BY <2>1, <3>1, <3>2 DEF Claim
  <2>3. UNCHANGED <<accounts, idempotency, effects, migration, settings>> /\ operator[o] = Waiting
    BY <1>3 DEF ClaimIdempotency
  <2>4. CASE UNCHANGED told /\ idempotency[c] = NoRecord
               /\ Turn(o, [pc |-> "effect", claim |-> c, email |-> e])
    <3> DEFINE x == [pc |-> "effect", claim |-> c, email |-> e]
    <3>1. x \in Operator /\ x.pc = "effect" /\ x.claim = c
      BY DEF Operator
    <3>2. operator' = [operator EXCEPT ![o] = x]
      BY <2>4 DEF Turn
    <3>3. \A p \in Operators : operator[p] # Waiting => operator[p].claim # c
      BY <2>2 DEF KeyFree
    <3> HIDE DEF x
    <3>4. ~ Adding(x)
      BY <3>1 DEF Adding
    <3>5. Same
      BY <1>1, <2>3, <2>4
    <3> QED
      BY <2>3, <2>4, <3>1, <3>2, <3>3, <3>4, <3>5, TurnStep
  <2>5. CASE /\ idempotency[c] # NoRecord /\ told' = told \cup {<<c, idempotency[c]>>}
             /\ UNCHANGED operator
    <3>1. idempotency[c] \in Record
      BY <1>0, <2>5 DEF OperationsTypeOK
    <3>2. Same
      BY <1>0, <2>3, <2>5, <3>1 DEF OperationsTypeOK, EffectsAreRecorded
    <3>3. operator' = [operator EXCEPT ![o] = Waiting]
      BY <1>0, <2>3, <2>5 DEF OperationsTypeOK
    <3> QED
      BY <2>3, <3>2, <3>3, OperatorShapes, TurnStep
  <2> QED
    BY <2>2, <2>4, <2>5
<1>4. ASSUME NEW response \in Responses, operator[o] # Waiting
      PROVE  /\ Resolved(o, response) \in Operator /\ Resolved(o, response) # Waiting
             /\ Resolved(o, response).pc = "resolve"
             /\ Resolved(o, response).response = response
             /\ Resolved(o, response).claim = operator[o].claim
             /\ Resolved(o, response).email = operator[o].email
  <2>1. operator[o].claim \in Claim /\ operator[o].email \in Emails
    BY <1>0, <1>4, OperatorShapes DEF OperationsTypeOK
  <2>2. Resolved(o, response).pc = "resolve"
    BY DEF Resolved
  <2> QED
    BY <2>1, <2>2, OperatorShapes DEF Resolved, Operator
<1>5. CASE SelectAccount(o)
  <2>1. /\ operator[o].pc = "effect" /\ operator[o].claim[1] = "create"
        /\ UNCHANGED <<accounts, idempotency, effects, told, migration, settings>>
    BY <1>5 DEF SelectAccount
  <2>2. operator[o] # Waiting /\ operator[o] \in Operator
    BY <1>0, <2>1, OperatorShapes DEF OperationsTypeOK
  <2>3. CASE Turn(o, Resolved(o, "exists"))
    <3> DEFINE x == Resolved(o, "exists")
    <3>1. /\ x \in Operator /\ x # Waiting /\ x.pc = "resolve" /\ x.response = "exists"
          /\ x.claim = operator[o].claim
      BY <1>4, <2>2 DEF Responses
    <3>2. operator' = [operator EXCEPT ![o] = x]
      BY <2>3 DEF Turn
    <3> HIDE DEF x
    <3>3. ~ Adding(x) /\ Same
      BY <1>1, <2>1, <3>1 DEF Adding
    <3> QED
      BY <1>2, <2>1, <2>2, <3>1, <3>2, <3>3, TurnStep
  <2>4. CASE operator' = [operator EXCEPT ![o].pc = "insert"]
    <3> DEFINE x == [operator[o] EXCEPT !.pc = "insert"]
    <3>1. operator' = [operator EXCEPT ![o] = x]
      BY <1>0, <2>4 DEF OperationsTypeOK
    <3>2. /\ operator[o] = [pc |-> operator[o].pc, claim |-> operator[o].claim,
                            email |-> operator[o].email]
          /\ operator[o].claim \in Claim /\ operator[o].email \in Emails
      BY <2>1, <2>2, OperatorShapes
    <3>3. x \in Operator /\ x.pc = "insert" /\ x.claim = operator[o].claim
      BY <3>2 DEF Operator
    <3> HIDE DEF x
    <3>4. ~ Adding(x) /\ Same /\ x # Waiting
      BY <1>1, <2>1, <3>3, OperatorShapes DEF Adding
    <3> QED
      BY <1>2, <2>1, <2>2, <3>1, <3>3, <3>4, TurnStep
  <2> QED
    BY <1>5, <2>3, <2>4 DEF SelectAccount
<1>6. ASSUME UNCHANGED <<accounts, idempotency, effects, told, migration, settings>>,
             Turn(o, Waiting)
      PROVE  OperationsIInv'
  <2>1. operator' = [operator EXCEPT ![o] = Waiting] /\ Same
    BY <1>1, <1>6 DEF Turn
  <2> QED
    BY <1>6, <2>1, OperatorShapes, TurnStep
<1>7. CASE InsertAccount(o)
  <2>1. /\ operator[o].pc = "insert" /\ \A a \in Uncommitted : ~ Clash(a, RowOf(operator[o]))
        /\ Turn(o, IF \E a \in accounts : Clash(a, RowOf(operator[o])) THEN Waiting
                   ELSE Resolved(o, "created"))
        /\ UNCHANGED <<accounts, idempotency, effects, told, migration, settings>>
    BY <1>7 DEF InsertAccount, RowOf
  <2>2. operator[o] # Waiting /\ operator[o].claim[1] = "create"
    BY <1>0, <2>1, OperatorShapes DEF OperationsTypeOK, ClaimsAreHeld
  <2>3. CASE \E a \in accounts : Clash(a, RowOf(operator[o]))
    BY <1>6, <2>1, <2>3
  <2>4. CASE ~ \E a \in accounts : Clash(a, RowOf(operator[o]))
    <3> DEFINE x == Resolved(o, "created")
    <3>1. /\ x \in Operator /\ x # Waiting /\ x.pc = "resolve" /\ x.response = "created"
          /\ x.claim = operator[o].claim /\ x.email = operator[o].email
      BY <1>4, <2>2 DEF Responses
    <3>2. operator' = [operator EXCEPT ![o] = x]
      BY <2>1, <2>4 DEF Turn
    <3> HIDE DEF x
    <3>3. RowOf(x) = RowOf(operator[o]) /\ Same
      BY <1>1, <2>1, <3>1 DEF RowOf
    <3>4. /\ \A a \in accounts : ~ Clash(a, RowOf(x))
          /\ \A p \in Operators \ {o} : Adding(operator[p]) => ~ Clash(RowOf(operator[p]), RowOf(x))
          /\ migration.pc = "created" => ~ Clash(MigrationRow, RowOf(x))
      BY <2>1, <2>4, <3>3, UncommittedRows
    <3> QED
      BY <1>2, <2>1, <2>2, <3>1, <3>2, <3>3, <3>4, TurnStep
  <2> QED
    BY <2>3, <2>4
<1>8. CASE ResetAdminPassword(o)
  <2>1. /\ operator[o].pc = "effect" /\ operator[o].claim[1] = "reset-password"
        /\ UNCHANGED <<accounts, idempotency, effects, told, migration, settings>>
    BY <1>8 DEF ResetAdminPassword
  <2>2. operator[o] # Waiting
    BY <2>1, OperatorShapes
  <2>3. CASE Turn(o, Resolved(o, "reset"))
    <3> DEFINE x == Resolved(o, "reset")
    <3>1. /\ x \in Operator /\ x # Waiting /\ x.pc = "resolve" /\ x.response = "reset"
          /\ x.claim = operator[o].claim
      BY <1>4, <2>2 DEF Responses
    <3>2. operator' = [operator EXCEPT ![o] = x]
      BY <2>3 DEF Turn
    <3> HIDE DEF x
    <3>3. ~ Adding(x) /\ Same
      BY <1>1, <2>1, <3>1 DEF Adding
    <3> QED
      BY <1>2, <2>1, <2>2, <3>1, <3>2, <3>3, TurnStep
  <2> QED
    BY <1>6, <1>8, <2>1, <2>3 DEF ResetAdminPassword
<1>9. CASE PerformOutside(o)
  <2>1. /\ operator[o].pc = "effect" /\ operator[o].claim[1] \in {"drain", "request"}
        /\ effects[operator[o].claim] < MaxEffects
        /\ effects' = [effects EXCEPT ![operator[o].claim] = @ + 1]
        /\ Turn(o, Resolved(o, "done"))
        /\ UNCHANGED <<accounts, idempotency, told, migration, settings>>
    BY <1>9 DEF PerformOutside
  <2> DEFINE x == Resolved(o, "done")
  <2>2. operator[o] # Waiting /\ operator[o].claim \in Claim
    BY <1>0, <2>1, OperatorShapes DEF OperationsTypeOK
  <2>3. /\ x \in Operator /\ x # Waiting /\ x.pc = "resolve" /\ x.response = "done"
        /\ x.claim = operator[o].claim /\ operator' = [operator EXCEPT ![o] = x]
    BY <1>4, <2>1, <2>2 DEF Responses, Turn
  <2> HIDE DEF x
  <2>4. PICK c \in Claim : c = operator[o].claim
    BY <2>2
  <2>5. effects[c] \in 0 .. MaxEffects /\ effects[c] < MaxEffects /\ MaxEffects \in Nat
    BY <1>0, <2>1, <2>4, OperationsAssumption DEF OperationsAssumption, OperationsTypeOK
  <2>6. effects[c] + 1 \in 0 .. MaxEffects /\ effects[c] + 1 > 0
    BY <2>5
  <2>7. \A d \in Claim : effects'[d] = IF d = c THEN effects[c] + 1 ELSE effects[d]
    BY <1>0, <2>1, <2>4 DEF OperationsTypeOK
  <2>8. Same /\ effects'[x.claim] > 0
    <3>1. effects' \in [Claim -> 0 .. MaxEffects]
      BY <1>0, <2>1, <2>4, <2>6 DEF OperationsTypeOK
    <3>2. c[1] \notin {"create", "reset-password"}
      BY <2>1, <2>4
    <3> QED
      BY <1>0, <2>1, <2>3, <2>4, <2>6, <2>7, <3>1, <3>2 DEF OperationsTypeOK, EffectsAreRecorded
  <2>9. ~ Adding(x)
    BY <2>3 DEF Adding
  <2> QED
    BY <1>2, <2>1, <2>2, <2>3, <2>8, <2>9, TurnStep
<1>10. CASE CommandFails(o)
  BY <1>6, <1>10 DEF CommandFails
<1> HIDE DEF Same
<1> QED
  BY <1>3, <1>5, <1>7, <1>8, <1>9, <1>10, CommitStep DEF RunCommand

\* A migration begins, inserts, or fails: nothing is committed.
LEMMA MigrationTurn ==
  ASSUME OperationsIInv, NEW x \in Migration, migration' = x,
         UNCHANGED <<accounts, idempotency, effects, operator, told, settings>>,
         x.pc = "found" => Registered(LowerCase[x.as.email]),
         x.pc = "created" =>
           LET row == [email |-> LowerCase[x.as.email], login |-> LowerCase[x.as.login]]
           IN /\ \A a \in accounts : ~ Clash(a, row)
              /\ \A o \in Operators : Adding(operator[o]) => ~ Clash(row, RowOf(operator[o]))
  PROVE  OperationsIInv'
<1>0. /\ OperationsTypeOK /\ ClaimsAreHeld /\ EffectsAreRecorded /\ AccountsApart
      /\ AdministratorExists
  BY DEF OperationsIInv
<1>1. OperationsTypeOK'
  BY <1>0 DEF OperationsTypeOK
<1>2. ClaimsAreHeld' /\ EffectsAreRecorded'
  BY <1>0 DEF ClaimsAreHeld, EffectsAreRecorded
<1>3. AccountsApart'
  BY <1>0 DEF AccountsApart, MigrationRow, Adding, RowOf, Clash
<1>4. AdministratorExists'
  BY <1>0 DEF AdministratorExists, Registered
<1> QED
  BY <1>1, <1>2, <1>3, <1>4 DEF OperationsIInv

\* Every step of a migration preserves the invariant.
LEMMA MigrationStep ==
  ASSUME OperationsIInv, Migrate
  PROVE  OperationsIInv'
<1>0. /\ OperationsTypeOK /\ ClaimsAreHeld /\ EffectsAreRecorded /\ AccountsApart
      /\ AdministratorExists
  BY DEF OperationsIInv
<1>1. CASE BeginMigration
  <2>1. PICK d \in Deployments :
          migration' = [pc |-> IF Registered(LowerCase[d.email]) THEN "found" ELSE "insert",
                        as |-> d]
    BY <1>1 DEF BeginMigration
  <2>2. UNCHANGED <<accounts, idempotency, effects, operator, told, settings>>
    BY <1>1 DEF BeginMigration
  <2>3. CASE Registered(LowerCase[d.email])
    <3> DEFINE x == [pc |-> "found", as |-> d]
    <3>1. x \in Migration /\ x.pc = "found" /\ x.as = d /\ migration' = x
      BY <2>1, <2>3 DEF Migration
    <3> HIDE DEF x
    <3> QED
      BY <2>2, <2>3, <3>1, MigrationTurn
  <2>4. CASE ~ Registered(LowerCase[d.email])
    <3> DEFINE x == [pc |-> "insert", as |-> d]
    <3>1. x \in Migration /\ x.pc = "insert" /\ migration' = x
      BY <2>1, <2>4 DEF Migration
    <3> HIDE DEF x
    <3> QED
      BY <2>2, <3>1, MigrationTurn
  <2> QED
    BY <2>3, <2>4
<1>2. ASSUME migration' = Waiting,
             UNCHANGED <<accounts, idempotency, effects, operator, told, settings>>
      PROVE  OperationsIInv'
  <2>1. Waiting \in Migration /\ Waiting.pc = "idle"
    BY OperatorShapes
  <2> QED
    BY <1>2, <2>1, MigrationTurn
<1>3. CASE EnsureBootstrapAdmin
  <2>1. /\ migration.pc = "insert" /\ \A a \in Uncommitted : ~ Clash(a, MigrationRow)
        /\ migration' = IF \E a \in accounts : Clash(a, MigrationRow) THEN Waiting
                        ELSE [pc |-> "created", as |-> migration.as]
        /\ UNCHANGED <<accounts, idempotency, effects, operator, told, settings>>
    BY <1>3 DEF EnsureBootstrapAdmin
  <2>2. CASE \E a \in accounts : Clash(a, MigrationRow)
    BY <1>2, <2>1, <2>2
  <2>3. CASE ~ \E a \in accounts : Clash(a, MigrationRow)
    <3> DEFINE x == [pc |-> "created", as |-> migration.as]
    <3>1. migration.as \in Deployments
      BY <1>0, <2>1, OperatorShapes DEF OperationsTypeOK
    <3>2. x \in Migration /\ x.pc = "created" /\ x.as = migration.as /\ migration' = x
      BY <2>1, <2>3, <3>1 DEF Migration
    <3> HIDE DEF x
    <3>3. MigrationRow = [email |-> LowerCase[x.as.email], login |-> LowerCase[x.as.login]]
      BY <3>2 DEF MigrationRow
    <3>4. \A a, b : Clash(a, b) <=> Clash(b, a)
      BY DEF Clash
    <3>5. /\ \A a \in accounts : ~ Clash(a, MigrationRow)
          /\ \A o \in Operators : Adding(operator[o]) => ~ Clash(MigrationRow, RowOf(operator[o]))
      BY <2>1, <2>3, <3>4, UncommittedRows
    <3> QED
      BY <2>1, <3>2, <3>3, <3>5, MigrationTurn
  <2> QED
    BY <2>2, <2>3
<1>4. CASE CommitMigration
  <2> DEFINE new == IF migration.pc = "created" THEN {MigrationRow} ELSE {}
  <2>1. /\ migration.pc \in {"found", "created"} /\ accounts' = accounts \cup new
        /\ settings' = {migration.as.email} /\ migration' = Waiting
        /\ UNCHANGED <<idempotency, effects, operator, told>>
    BY <1>4 DEF CommitMigration
  <2>2. migration # Waiting /\ MigrationRow \in Account /\ migration.as.email \in Emails
    BY <1>0, <2>1, RowsAreAccounts, OperatorShapes
  <2>3. OperationsTypeOK'
    BY <1>0, <2>1, <2>2, OperatorShapes DEF OperationsTypeOK
  <2>4. ClaimsAreHeld' /\ EffectsAreRecorded'
    BY <1>0, <2>1 DEF ClaimsAreHeld, EffectsAreRecorded
  <2>5. AccountsApart'
    <3>1. \A a, b : Clash(a, b) <=> Clash(b, a)
      BY DEF Clash
    <3>2. \A a \in new : a = MigrationRow /\ migration.pc = "created"
      OBVIOUS
    <3> HIDE DEF new
    <3>3. \A a, b \in accounts' : Clash(a, b) => a = b
      BY <1>0, <2>1, <3>1, <3>2 DEF AccountsApart
    <3>4. \A o \in Operators : Adding(operator[o]) =>
            \A a \in accounts' : ~ Clash(a, RowOf(operator[o]))
      BY <1>0, <2>1, <3>2 DEF AccountsApart
    <3>5. migration'.pc # "created"
      BY <2>1, OperatorShapes
    <3> QED
      BY <1>0, <2>1, <3>3, <3>4, <3>5 DEF AccountsApart, Adding, RowOf, Clash
  <2>6. AdministratorExists'
    <3>1. \E a \in accounts' : a.email = LowerCase[migration.as.email]
      <4>1. CASE migration.pc = "found"
        BY <1>0, <2>1, <4>1 DEF AdministratorExists, Registered
      <4>2. CASE migration.pc = "created"
        <5>1. MigrationRow.email = LowerCase[migration.as.email] /\ MigrationRow \in accounts'
          BY <2>1, <4>2 DEF MigrationRow
        <5> QED
          BY <5>1
      <4> QED
        BY <2>1, <4>1, <4>2
    <3>2. migration'.pc # "found"
      BY <2>1, OperatorShapes
    <3> QED
      BY <2>1, <3>1, <3>2 DEF AdministratorExists, Registered
  <2> QED
    BY <2>3, <2>4, <2>5, <2>6 DEF OperationsIInv
<1>5. CASE MigrationFails
  BY <1>2, <1>5 DEF MigrationFails
<1> QED
  BY <1>1, <1>3, <1>4, <1>5 DEF Migrate

\* Every step preserves the invariant.
LEMMA OperationsNextInv == OperationsIInv /\ [OperationsNext]_opvars => OperationsIInv'
<1> SUFFICES ASSUME OperationsIInv, [OperationsNext]_opvars PROVE OperationsIInv'
  OBVIOUS
<1>1. CASE UNCHANGED opvars
  <2>1. migration \in Migration
    BY DEF OperationsIInv, OperationsTypeOK
  <2>2. /\ migration.pc = "found" => Registered(LowerCase[migration.as.email])
        /\ migration.pc = "created" =>
             LET row == [email |-> LowerCase[migration.as.email],
                         login |-> LowerCase[migration.as.login]]
             IN /\ \A a \in accounts : ~ Clash(a, row)
                /\ \A o \in Operators : Adding(operator[o]) => ~ Clash(row, RowOf(operator[o]))
    BY DEF OperationsIInv, AccountsApart, AdministratorExists, MigrationRow
  <2> QED
    BY <1>1, <2>1, <2>2, MigrationTurn DEF opvars
<1> QED
  BY <1>1, CommandStep, MigrationStep DEF OperationsNext

\* Whatever commands overlap, crash and are repeated: what an operator was told under a key
\* stays the answer, and an admin command is done once, exactly when its key is completed.
THEOREM KeyIsOneExecution == OperationsSpec => []KeyedOnce
<1>1. OperationsIInv => KeyedOnce
  <2> SUFFICES ASSUME OperationsIInv PROVE KeyedOnce
    OBVIOUS
  <2>1. EffectsAreRecorded
    BY DEF OperationsIInv
  <2>2. ASSUME NEW c \in Claim, c[1] \in {"create", "reset-password"}
        PROVE  effects[c] <= 1 /\ (effects[c] = 1 => idempotency[c] # NoRecord)
    <3>1. CASE idempotency[c] = NoRecord
      BY <2>1, <2>2, <3>1 DEF EffectsAreRecorded
    <3>2. CASE idempotency[c] # NoRecord
      BY <2>1, <2>2, <3>2 DEF EffectsAreRecorded
    <3> QED
      BY <3>1, <3>2
  <2> QED
    BY <2>1, <2>2 DEF EffectsAreRecorded, KeyedOnce
<1> QED
  BY <1>1, OperationsInitInv, OperationsNextInv, PTL DEF OperationsSpec

\* However commands and migrations overlap: no two accounts share an e-mail or a login, and
\* the administrator the settings name has an account.
THEOREM AccountsStaySound == OperationsSpec => []AccountsSound
<1>1. OperationsIInv => AccountsSound
  BY DEF OperationsIInv, AccountsApart, AdministratorExists, AccountsSound
<1> QED
  BY <1>1, OperationsInitInv, OperationsNextInv, PTL DEF OperationsSpec

-----------------------------------------------------------------------------
(* Setup, for any administrators, drafts, secrets and rate limit.  Nothing but the state
   "activating" keeps other calls away from an activation once its transaction is
   committed.  The invariant says that it does: at most one call is past that commit, the
   draft it read is still in the row, and no page was answered before. *)

\* Past the commit of "activating", and not yet answered.
Activating(a) == call[a].pc \in {"persist", "audit", "finish", "undo"}

OneActivator == \A a, b \in Admins : Activating(a) /\ Activating(b) => a = b

\* What the statements after the commit rely on.
DraftIsHeld ==
  \A a \in Admins :
    /\ call[a].pc \in {"persist", "audit", "finish"} =>
         /\ installation.state = "activating"
         /\ installation.draft = call[a].config
    /\ call[a].pc \in {"audit", "finish"} =>
         provider[call[a].config.provider] = call[a].config
    /\ call[a].pc = "finish" => call[a].config \in activations
    /\ call[a].pc = "undo" => installation.state \in {"activating", "active"}

\* An answer, sent or received, leaves no activation that could undo it.
AnswerIsLast ==
  \A a \in Admins :
    /\ call[a].pc = "answer" =>
         /\ installation.state = "active" /\ installation.active = call[a].config
         /\ \A b \in Admins : ~ Activating(b)
    /\ announced[a] # NoConfig =>
         /\ installation.state = "active" /\ installation.active = announced[a]
         /\ \A b \in Admins : ~ Activating(b)

DraftIsAcceptable == installation.draft # NoConfig => Acceptable(installation.draft)

SetupIInv ==
  /\ SetupTypeOK
  /\ OneActivator
  /\ DraftIsHeld
  /\ AnswerIsLast
  /\ DraftIsAcceptable
  /\ ActivationIsWhole

-----------------------------------------------------------------------------
\* The null configuration is none.
LEMMA NoConfigIsNone == NoConfig \notin Config
  BY DEF NoConfig, Config

\* An acceptable configuration is of a provider that has a row.
LEMMA AcceptableHasRow ==
  ASSUME NEW c, Acceptable(c)
  PROVE  c.provider \in {"waha", "meta"}
  BY DEF Acceptable, ValidProviderConfig

\* What a call past its transaction looks like.
LEMMA CallShape ==
  ASSUME NEW k \in Call
  PROVE  /\ k = Idle \/ k.pc \in {"persist", "audit", "finish", "undo", "answer", "write"}
         /\ k.pc \in {"persist", "audit", "finish", "undo", "answer"}
              => k \in [pc : {"persist", "audit", "finish", "undo", "answer"}, config : Config]
  BY DEF Call, Idle

\* At moves one call, and keeps its configuration.
LEMMA AtMoves ==
  ASSUME SetupTypeOK, NEW a \in Admins,
         call[a].pc \in {"persist", "audit", "finish", "undo", "answer"},
         NEW p \in {"persist", "audit", "finish", "undo", "answer"}
  PROVE  /\ At(a, p) \in [Admins -> Call]
         /\ At(a, p)[a].pc = p /\ At(a, p)[a].config = call[a].config
         /\ call[a].config \in Config
         /\ \A b \in Admins \ {a} : At(a, p)[b] = call[b]
<1>1. call \in [Admins -> Call] /\ call[a] \in Call
  BY DEF SetupTypeOK
<1>2. call[a] \in [pc : {"persist", "audit", "finish", "undo", "answer"}, config : Config]
  BY <1>1, CallShape
<1>3. [call[a] EXCEPT !.pc = p] = [pc |-> p, config |-> call[a].config]
  BY <1>2
<1>4. [pc |-> p, config |-> call[a].config] \in Call /\ call[a].config \in Config
  BY <1>2 DEF Call
<1>5. At(a, p) = [call EXCEPT ![a] = [pc |-> p, config |-> call[a].config]]
  BY <1>1, <1>3, Zenon DEF At
<1> QED
  BY <1>1, <1>4, <1>5

\* Going idle, or any other state of no activation, moves one call.
LEMMA CallMoves ==
  ASSUME SetupTypeOK, NEW a \in Admins, NEW k \in Call, call' = [call EXCEPT ![a] = k]
  PROVE  /\ call' \in [Admins -> Call]
         /\ call'[a] = k
         /\ \A b \in Admins \ {a} : call'[b] = call[b]
  BY DEF SetupTypeOK
-----------------------------------------------------------------------------
LEMMA InitSetup == SetupInit => SetupIInv
<1> SUFFICES ASSUME SetupInit PROVE SetupIInv
  OBVIOUS
<1> USE SetupAssumption
<1>1. \A a \in Admins : call[a] = Idle /\ announced[a] = NoConfig
  BY DEF SetupInit
<1>2. SetupTypeOK
  <2>1. installation \in Installation
    BY DEF SetupInit, Installation
  <2>2. provider \in [{"waha", "meta"} -> Config \cup {NoConfig}] /\ activations \subseteq Config
    BY DEF SetupInit
  <2>3. call \in [Admins -> Call] /\ announced \in [Admins -> Config \cup {NoConfig}]
    BY DEF SetupInit, Call, Idle
  <2> QED
    BY <2>1, <2>2, <2>3 DEF SetupTypeOK
<1>3. OneActivator /\ DraftIsHeld /\ AnswerIsLast
  BY <1>1 DEF OneActivator, DraftIsHeld, AnswerIsLast, Activating, Idle
<1>4. DraftIsAcceptable /\ ActivationIsWhole
  BY DEF SetupInit, DraftIsAcceptable, ActivationIsWhole
<1> QED
  BY <1>2, <1>3, <1>4 DEF SetupIInv

\* While the row is neither activating nor active, nobody is at work on an activation, and
\* nobody was told of one: the draft and the state may be written.
LEMMA Undecided ==
  ASSUME SetupIInv, installation.state \notin {"activating", "active"}
  PROVE  \A a \in Admins :
           /\ call[a].pc \notin {"persist", "audit", "finish", "undo", "answer"}
           /\ announced[a] = NoConfig
  BY DEF SetupIInv, DraftIsHeld, AnswerIsLast

\* Bootstrap, drafts and validations.
LEMMA DraftSteps ==
  ASSUME SetupIInv, installation.state \notin {"activating", "active"},
         installation' \in Installation,
         installation'.state \notin {"activating", "active"},
         installation'.draft # NoConfig => Acceptable(installation'.draft),
         UNCHANGED <<provider, activations, call, announced>>
  PROVE  SetupIInv'
<1>1. \A a \in Admins :
        /\ call'[a].pc \notin {"persist", "audit", "finish", "undo", "answer"}
        /\ announced'[a] = NoConfig
  BY Undecided
<1>2. SetupTypeOK'
  BY DEF SetupIInv, SetupTypeOK
<1>3. OneActivator' /\ DraftIsHeld' /\ AnswerIsLast'
  BY <1>1 DEF OneActivator, DraftIsHeld, AnswerIsLast, Activating
<1>4. DraftIsAcceptable' /\ ActivationIsWhole'
  BY DEF DraftIsAcceptable, ActivationIsWhole
<1> QED
  BY <1>2, <1>3, <1>4 DEF SetupIInv

\* Clocks and the secret: the columns an activation depends on stay.
LEMMA RowSteps ==
  ASSUME SetupIInv, installation' \in Installation,
         installation'.state = installation.state, installation'.draft = installation.draft,
         installation'.active = installation.active,
         call' \in [Admins -> Call],
         \A b \in Admins : call'[b] = call[b] \/ call'[b].pc \in {"idle", "write"},
         UNCHANGED <<provider, activations, announced>>
  PROVE  SetupIInv'
<1>1. SetupTypeOK'
  BY DEF SetupIInv, SetupTypeOK
<1>2. OneActivator'
  BY DEF SetupIInv, OneActivator, Activating
<1>3. DraftIsHeld'
  BY DEF SetupIInv, DraftIsHeld
<1>4. AnswerIsLast'
  BY DEF SetupIInv, AnswerIsLast, Activating
<1>5. DraftIsAcceptable' /\ ActivationIsWhole'
  BY DEF SetupIInv, DraftIsAcceptable, ActivationIsWhole
<1> QED
  BY <1>1, <1>2, <1>3, <1>4, <1>5 DEF SetupIInv

-----------------------------------------------------------------------------
(* The statements of an activation *)

\* The commit of "activating": the row was validated, so nobody else is at work.
LEMMA BeginActivationStep ==
  ASSUME SetupIInv, NEW a \in Admins, BeginActivation(a)
  PROVE  SetupIInv'
<1>1. \A b \in Admins :
        /\ call[b].pc \notin {"persist", "audit", "finish", "undo", "answer"}
        /\ announced[b] = NoConfig
  BY Undecided DEF BeginActivation
<1>2. /\ installation \in Installation /\ call \in [Admins -> Call]
      /\ installation.draft \in Config
      /\ installation' = [installation EXCEPT !.state = "activating"]
  BY DEF SetupIInv, SetupTypeOK, Installation, BeginActivation
<1>3. /\ installation' \in Installation /\ installation'.state = "activating"
      /\ installation'.draft = installation.draft
  BY <1>2 DEF Installation
<1>4. DraftIsAcceptable' /\ ActivationIsWhole'
  BY <1>3 DEF SetupIInv, DraftIsAcceptable, ActivationIsWhole
<1>5. CASE UNCHANGED call
  <2>1. SetupTypeOK'
    BY <1>3, <1>5 DEF SetupIInv, SetupTypeOK, BeginActivation
  <2>2. OneActivator' /\ DraftIsHeld' /\ AnswerIsLast'
    BY <1>1, <1>5 DEF OneActivator, DraftIsHeld, AnswerIsLast, Activating, BeginActivation
  <2> QED
    BY <2>1, <2>2, <1>4 DEF SetupIInv
<1>6. CASE call' = [call EXCEPT ![a] = [pc |-> "persist", config |-> installation.draft]]
  <2> DEFINE k == [pc |-> "persist", config |-> installation.draft]
  <2>1. k \in Call /\ k.pc = "persist" /\ k.config = installation.draft
    BY <1>2 DEF Call
  <2>2. /\ call' \in [Admins -> Call] /\ call'[a] = k
        /\ \A b \in Admins \ {a} : call'[b] = call[b]
    BY <1>2, <1>6, <2>1
  <2> HIDE DEF k
  <2>3. SetupTypeOK'
    BY <1>3, <2>2 DEF SetupIInv, SetupTypeOK, BeginActivation
  <2>4. OneActivator'
    BY <1>1, <2>1, <2>2 DEF OneActivator, Activating
  <2>5. DraftIsHeld'
    BY <1>1, <1>3, <2>1, <2>2 DEF DraftIsHeld
  <2>6. AnswerIsLast'
    BY <1>1, <2>1, <2>2 DEF AnswerIsLast, BeginActivation
  <2> QED
    BY <2>3, <2>4, <2>5, <2>6, <1>4 DEF SetupIInv
<1> QED
  BY <1>5, <1>6 DEF BeginActivation

\* What is kept while the one activator moves on to another statement: nobody was answered.
LEMMA ActivatorAlone ==
  ASSUME SetupIInv, NEW a \in Admins, Activating(a)
  PROVE  \A b \in Admins :
           /\ b # a => ~ Activating(b)
           /\ call[b].pc # "answer" /\ announced[b] = NoConfig
  BY DEF SetupIInv, OneActivator, AnswerIsLast

\* The provider's row and the audit event are written by the one activator, before the
\* installation is active.
LEMMA PersistStep ==
  ASSUME SetupIInv, NEW a \in Admins, PersistProvider(a) \/ AuditActivation(a)
  PROVE  SetupIInv'
<1> DEFINE c == call[a].config
<1>1. call[a].pc \in {"persist", "audit"} /\ Activating(a) /\ SetupTypeOK
  BY DEF PersistProvider, AuditActivation, Activating, SetupIInv
<1>2. /\ installation.state = "activating" /\ installation.draft = c
      /\ UNCHANGED <<installation, announced>>
  BY <1>1 DEF SetupIInv, DraftIsHeld, PersistProvider, AuditActivation
<1>3. PICK p \in {"audit", "finish", "undo"} : call' = At(a, p)
  BY DEF PersistProvider, AuditActivation
<1>4. /\ call' \in [Admins -> Call] /\ call'[a].pc = p /\ call'[a].config = c
      /\ c \in Config
      /\ \A b \in Admins \ {a} : call'[b] = call[b]
  <2>1. /\ At(a, p) \in [Admins -> Call]
        /\ At(a, p)[a].pc = p /\ At(a, p)[a].config = call[a].config
        /\ call[a].config \in Config
        /\ \A b \in Admins \ {a} : At(a, p)[b] = call[b]
    BY <1>1, AtMoves
  <2> QED
    BY <1>3, <2>1
<1>5. c.provider \in {"waha", "meta"}
  <2>1. Acceptable(c)
    BY <1>2, <1>4, NoConfigIsNone DEF SetupIInv, DraftIsAcceptable
  <2> QED
    BY <2>1, AcceptableHasRow
<1>6. /\ provider' \in [{"waha", "meta"} -> Config \cup {NoConfig}] /\ activations' \subseteq Config
      /\ p \in {"audit", "finish"} => provider'[c.provider] = c
      /\ p = "finish" => c \in activations'
  <2>1. CASE PersistProvider(a)
    <3>1. provider' = [provider EXCEPT ![c.provider] = c] /\ activations' = activations
      BY <2>1 DEF PersistProvider
    <3>2. p # "finish"
      BY <1>4, <2>1, AtMoves, <1>1 DEF PersistProvider
    <3> QED
      BY <3>1, <3>2, <1>4, <1>5 DEF SetupIInv, SetupTypeOK
  <2>2. CASE AuditActivation(a)
    BY <2>2, <1>4 DEF AuditActivation, SetupIInv, SetupTypeOK, DraftIsHeld
  <2> QED
    BY <2>1, <2>2
<1>7. \A b \in Admins : /\ b # a => ~ Activating(b)
                        /\ call[b].pc # "answer" /\ announced[b] = NoConfig
  BY <1>1, ActivatorAlone
<1> HIDE DEF c
<1>8. SetupTypeOK'
  BY <1>2, <1>4, <1>6 DEF SetupIInv, SetupTypeOK
<1>9. OneActivator'
  BY <1>4, <1>7 DEF OneActivator, Activating
<1>10. DraftIsHeld'
  BY <1>2, <1>4, <1>6, <1>7 DEF DraftIsHeld, Activating
<1>11. AnswerIsLast'
  BY <1>2, <1>4, <1>7 DEF AnswerIsLast, Activating
<1>12. DraftIsAcceptable' /\ ActivationIsWhole'
  BY <1>2 DEF SetupIInv, DraftIsAcceptable, ActivationIsWhole
<1> QED
  BY <1>8, <1>9, <1>10, <1>11, <1>12 DEF SetupIInv

\* The last update takes the draft of the row, which is still the one that was validated,
\* stored and audited.
LEMMA FinishStep ==
  ASSUME SetupIInv, NEW a \in Admins, FinishActivation(a)
  PROVE  SetupIInv'
<1> DEFINE c == call[a].config
<1>1. call[a].pc = "finish" /\ Activating(a) /\ SetupTypeOK
  BY DEF FinishActivation, Activating, SetupIInv
<1>2. /\ installation.state = "activating" /\ installation.draft = c
      /\ provider[c.provider] = c /\ c \in activations
  BY <1>1 DEF SetupIInv, DraftIsHeld
<1>3. PICK p \in {"answer", "undo"} : call' = At(a, p)
  BY DEF FinishActivation
<1>4. /\ call' \in [Admins -> Call] /\ call'[a].pc = p /\ call'[a].config = c
      /\ c \in Config
      /\ \A b \in Admins \ {a} : call'[b] = call[b]
  <2>1. /\ At(a, p) \in [Admins -> Call]
        /\ At(a, p)[a].pc = p /\ At(a, p)[a].config = call[a].config
        /\ call[a].config \in Config
        /\ \A b \in Admins \ {a} : At(a, p)[b] = call[b]
    BY <1>1, AtMoves
  <2> QED
    BY <1>3, <2>1
<1>5. Acceptable(c)
  BY <1>2, <1>4, NoConfigIsNone DEF SetupIInv, DraftIsAcceptable
<1>6. /\ installation' \in Installation
      /\ installation'.state = "active" /\ installation'.active = c
      /\ installation'.draft = NoConfig
      /\ UNCHANGED <<provider, activations, announced>>
  BY <1>1, <1>2, <1>4 DEF FinishActivation, SetupTypeOK, Installation
<1>7. \A b \in Admins : /\ b # a => ~ Activating(b)
                        /\ call[b].pc # "answer" /\ announced[b] = NoConfig
  BY <1>1, ActivatorAlone
<1> HIDE DEF c
<1>8. SetupTypeOK'
  BY <1>4, <1>6 DEF SetupIInv, SetupTypeOK
<1>9. OneActivator'
  BY <1>4, <1>7 DEF OneActivator, Activating
<1>10. DraftIsHeld'
  BY <1>4, <1>6, <1>7 DEF DraftIsHeld, Activating
<1>11. AnswerIsLast'
  BY <1>4, <1>6, <1>7 DEF AnswerIsLast, Activating
<1>12. DraftIsAcceptable' /\ ActivationIsWhole'
  BY <1>2, <1>5, <1>6 DEF DraftIsAcceptable, ActivationIsWhole
<1> QED
  BY <1>8, <1>9, <1>10, <1>11, <1>12 DEF SetupIInv

\* A statement that failed leaves the row as it is and the call at its catch block.
LEMMA FailStep ==
  ASSUME SetupIInv, NEW a \in Admins, StatementFails(a)
  PROVE  SetupIInv'
<1>1. call[a].pc \in {"persist", "audit", "finish"} /\ Activating(a) /\ SetupTypeOK
  BY DEF StatementFails, Activating, SetupIInv
<1>2. /\ call' \in [Admins -> Call] /\ call'[a].pc = "undo"
      /\ \A b \in Admins \ {a} : call'[b] = call[b]
  <2>1. /\ At(a, "undo") \in [Admins -> Call] /\ At(a, "undo")[a].pc = "undo"
        /\ \A b \in Admins \ {a} : At(a, "undo")[b] = call[b]
    BY <1>1, AtMoves
  <2> QED
    BY <2>1 DEF StatementFails
<1>3. UNCHANGED <<installation, provider, activations, announced>>
  BY DEF StatementFails
<1>4. installation.state = "activating"
  BY <1>1 DEF SetupIInv, DraftIsHeld
<1>5. \A b \in Admins : /\ b # a => ~ Activating(b)
                        /\ call[b].pc # "answer" /\ announced[b] = NoConfig
  BY <1>1, ActivatorAlone
<1>6. SetupTypeOK'
  BY <1>2, <1>3 DEF SetupIInv, SetupTypeOK
<1>7. OneActivator' /\ DraftIsHeld' /\ AnswerIsLast'
  BY <1>2, <1>3, <1>4, <1>5 DEF OneActivator, DraftIsHeld, AnswerIsLast, Activating
<1>8. DraftIsAcceptable' /\ ActivationIsWhole'
  BY <1>3 DEF SetupIInv, DraftIsAcceptable, ActivationIsWhole
<1> QED
  BY <1>6, <1>7, <1>8 DEF SetupIInv

\* The catch block writes without a condition, but nobody was told yet.
LEMMA UndoStep ==
  ASSUME SetupIInv, NEW a \in Admins, UndoActivation(a)
  PROVE  SetupIInv'
<1>1. Activating(a) /\ SetupTypeOK /\ installation.state \in {"activating", "active"}
  BY DEF UndoActivation, Activating, SetupIInv, DraftIsHeld
<1>2. Idle \in Call /\ Idle.pc = "idle"
  BY DEF Idle, Call
<1>3. /\ call' \in [Admins -> Call] /\ call'[a] = Idle
      /\ \A b \in Admins \ {a} : call'[b] = call[b]
  BY <1>1, <1>2, CallMoves DEF UndoActivation
<1>4. \A b \in Admins : call'[b].pc \notin {"persist", "audit", "finish", "undo", "answer"}
  BY <1>1, <1>2, <1>3, ActivatorAlone, CallShape DEF Activating
<1>5. \A b \in Admins : announced'[b] = NoConfig
  BY <1>1, ActivatorAlone DEF UndoActivation
<1>6. /\ installation' \in Installation /\ installation'.draft = installation.draft
      /\ installation'.active = installation.active
      /\ installation' = installation \/ installation'.state = "validated"
  BY <1>1 DEF UndoActivation, SetupTypeOK, Installation
<1>7. SetupTypeOK'
  BY <1>3, <1>6 DEF SetupIInv, SetupTypeOK, UndoActivation
<1>8. OneActivator' /\ DraftIsHeld' /\ AnswerIsLast'
  BY <1>4, <1>5 DEF OneActivator, DraftIsHeld, AnswerIsLast, Activating
<1>9. DraftIsAcceptable' /\ ActivationIsWhole'
  BY <1>6 DEF SetupIInv, DraftIsAcceptable, ActivationIsWhole, UndoActivation
<1> QED
  BY <1>7, <1>8, <1>9 DEF SetupIInv

\* The answer arrives: what the page shows is what the row holds.
LEMMA ReceiveStep ==
  ASSUME SetupIInv, NEW a \in Admins, Receive(a)
  PROVE  SetupIInv'
<1>1. /\ SetupTypeOK /\ call[a].pc = "answer"
      /\ installation.state = "active" /\ installation.active = call[a].config
      /\ \A b \in Admins : ~ Activating(b)
  BY DEF Receive, SetupIInv, AnswerIsLast
<1>2. Idle \in Call /\ Idle.pc = "idle"
  BY DEF Idle, Call
<1>3. /\ call' \in [Admins -> Call] /\ call'[a] = Idle
      /\ \A b \in Admins \ {a} : call'[b] = call[b]
  BY <1>1, <1>2, CallMoves DEF Receive
<1>4. call[a].config \in Config
  <2>1. call[a] \in Call
    BY <1>1 DEF SetupTypeOK
  <2> QED
    BY <1>1, <2>1, CallShape
<1>5. announced' = [announced EXCEPT ![a] = call[a].config]
      /\ UNCHANGED <<installation, provider, activations>>
  BY DEF Receive
<1>6. SetupTypeOK'
  BY <1>3, <1>4, <1>5 DEF SetupIInv, SetupTypeOK
<1>7. OneActivator' /\ DraftIsHeld'
  BY <1>1, <1>2, <1>3, <1>5 DEF SetupIInv, OneActivator, DraftIsHeld, Activating
<1>8. AnswerIsLast'
  BY <1>1, <1>2, <1>3, <1>5 DEF SetupIInv, SetupTypeOK, AnswerIsLast, Activating
<1>9. DraftIsAcceptable' /\ ActivationIsWhole'
  BY <1>5 DEF SetupIInv, DraftIsAcceptable, ActivationIsWhole
<1> QED
  BY <1>6, <1>7, <1>8, <1>9 DEF SetupIInv

-----------------------------------------------------------------------------
\* Every step preserves the invariant.
LEMMA NextSetup == SetupIInv /\ [SetupNext]_svars => SetupIInv'
<1> SUFFICES ASSUME SetupIInv, [SetupNext]_svars PROVE SetupIInv'
  OBVIOUS
<1> USE SetupAssumption
<1>1. SetupTypeOK /\ installation \in Installation /\ Idle \in Call /\ Idle.pc = "idle"
  BY DEF SetupIInv, SetupTypeOK, Idle, Call
<1>2. ASSUME NEW s \in Secrets, Bootstrap(s) PROVE SetupIInv'
  <2>1. installation' \in Installation
    BY <1>1, <1>2 DEF Bootstrap, Installation
  <2> QED
    BY <1>1, <1>2, <2>1, DraftSteps DEF Bootstrap, Installation, SetupIInv, DraftIsAcceptable
<1>3. ASSUME NEW c \in Drafts, SetDraftConfig(c) PROVE SetupIInv'
  <2>1. c \in Config /\ installation' \in Installation
    BY <1>1, <1>3 DEF SetDraftConfig, Installation
  <2>2. installation'.state = "draft" /\ installation'.draft = c
    BY <1>1, <1>3 DEF SetDraftConfig, Installation
  <2> QED
    BY <1>1, <1>3, <2>1, <2>2, DraftSteps DEF SetDraftConfig
<1>4. CASE ValidateDraft
  <2>1. /\ installation' \in Installation
        /\ installation'.state = "validated" /\ installation'.draft = installation.draft
    <3>1. /\ installation.attempts \in 0 .. RateLimit /\ installation.recent \in BOOLEAN
          /\ RateLimit \in Nat \ {0}
      BY <1>1 DEF Installation, SetupAssumption
    <3>2. CASE installation.recent
      <4>1. installation.attempts + 1 \in 0 .. RateLimit
        BY <1>4, <3>1, <3>2 DEF ValidateDraft
      <4>2. installation' = [installation EXCEPT !.state = "validated", !.recent = TRUE,
                                                 !.attempts = installation.attempts + 1]
        BY <1>4, <3>2 DEF ValidateDraft
      <4> QED
        BY <1>1, <4>1, <4>2 DEF Installation
    <3>3. CASE ~ installation.recent
      <4>1. 1 \in 0 .. RateLimit
        BY <3>1
      <4>2. installation' = [installation EXCEPT !.state = "validated", !.recent = TRUE,
                                                 !.attempts = 1]
        BY <1>4, <3>3 DEF ValidateDraft
      <4> QED
        BY <1>1, <4>1, <4>2 DEF Installation
    <3> QED
      BY <3>2, <3>3
  <2> QED
    BY <1>4, <2>1, DraftSteps DEF ValidateDraft, SetupIInv, DraftIsAcceptable
<1>5. CASE WindowElapses \/ SecretExpires
  <2>1. /\ installation' \in Installation /\ installation'.state = installation.state
        /\ installation'.draft = installation.draft
        /\ installation'.active = installation.active
    BY <1>1, <1>5 DEF WindowElapses, SecretExpires, Installation
  <2> QED
    BY <1>1, <1>5, <2>1, RowSteps DEF WindowElapses, SecretExpires, SetupTypeOK
<1>6. CASE ServerCrash
  BY <1>1, <1>6, RowSteps DEF ServerCrash
<1>7. ASSUME NEW a \in Admins, Activate(a) PROVE SetupIInv'
  BY <1>7, BeginActivationStep, PersistStep, FinishStep, FailStep, UndoStep DEF Activate
<1>8. ASSUME NEW a \in Admins, RotateSecret(a) PROVE SetupIInv'
  <2>1. ASSUME NEW old \in Secrets, NEW new \in Secrets, BeginRotation(a, old, new)
        PROVE  SetupIInv'
    <3> DEFINE k == [pc |-> "write", secret |-> new]
    <3>1. k \in Call /\ k.pc = "write"
      BY DEF Call
    <3>2. /\ call' \in [Admins -> Call] /\ call'[a] = k
          /\ \A b \in Admins \ {a} : call'[b] = call[b]
      BY <1>1, <2>1, <3>1, CallMoves DEF BeginRotation
    <3> QED
      BY <1>1, <2>1, <3>1, <3>2, RowSteps DEF BeginRotation
  <2>2. CASE WriteSecret(a)
    <3>1. call[a] \in Call /\ call[a].pc = "write"
      BY <1>1, <2>2 DEF SetupTypeOK, WriteSecret
    <3>2. call[a].secret \in Secrets
      BY <3>1 DEF Call
    <3>3. /\ installation' \in Installation /\ installation'.state = installation.state
          /\ installation'.draft = installation.draft
          /\ installation'.active = installation.active
      BY <1>1, <2>2, <3>2 DEF WriteSecret, Installation
    <3>4. /\ call' \in [Admins -> Call] /\ call'[a] = Idle
          /\ \A b \in Admins \ {a} : call'[b] = call[b]
      BY <1>1, <2>2, CallMoves DEF WriteSecret
    <3> QED
      BY <1>1, <2>2, <3>3, <3>4, RowSteps DEF WriteSecret
  <2> QED
    BY <1>8, <2>1, <2>2 DEF RotateSecret
<1>9. ASSUME NEW a \in Admins, Receive(a) PROVE SetupIInv'
  BY <1>9, ReceiveStep
<1>10. ASSUME NEW a \in Admins, Abandon(a) PROVE SetupIInv'
  <2>1. /\ call' \in [Admins -> Call] /\ call'[a] = Idle
        /\ \A b \in Admins \ {a} : call'[b] = call[b]
    BY <1>1, <1>10, CallMoves DEF Abandon
  <2> QED
    BY <1>1, <1>10, <2>1, RowSteps DEF Abandon
<1>11. CASE UNCHANGED svars
  BY <1>1, <1>11, RowSteps DEF svars, SetupTypeOK
<1> QED
  BY <1>2, <1>3, <1>4, <1>5, <1>6, <1>7, <1>8, <1>9, <1>10, <1>11 DEF SetupNext

\* The invariant of setup, its types included, in every reachable state.
THEOREM SetupInvariance == SetupSpec => []SetupIInv
  BY InitSetup, NextSetup, PTL DEF SetupSpec

\* Every reachable state of setup is well typed (setup-service.js keeps to the states and
\* columns of its table).
THEOREM SetupTypeCorrect == SetupSpec => []SetupTypeOK
<1>1. SetupIInv => SetupTypeOK
  BY DEF SetupIInv
<1> QED
  BY <1>1, SetupInvariance, PTL

\* An active installation has an acceptable, audited configuration that the provider's row
\* holds, whatever statement of activate failed, was not heard or was cut off by a crash.
THEOREM WholeActivation == SetupSpec => []ActivationIsWhole
<1>1. SetupIInv => ActivationIsWhole
  BY DEF SetupIInv
<1> QED
  BY <1>1, SetupInvariance, PTL

\* What a page of the wizard was told is active stays active, unchanged.
THEOREM ActivationIsFinal == SetupSpec => []AnnouncedStaysActive
<1>1. SetupIInv => AnnouncedStaysActive
  BY DEF SetupIInv, AnswerIsLast, AnnouncedStaysActive
<1> QED
  BY <1>1, SetupInvariance, PTL
=============================================================================
