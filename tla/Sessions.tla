------------------------------ MODULE Sessions ------------------------------
(***************************************************************************)
(* Logging in and out: the limiter of failed attempts, in the memory of    *)
(* the server, and the rows of sessions.  A login asks the limiter, awaits *)
(* the user's row, counts a failure or else revokes the user's sessions,   *)
(* and inserts the new one; other requests come between any two of these.  *)
(* One address tries; what a password is right for is drawn.               *)
(***************************************************************************)
EXTENDS Naturals, FiniteSets

CONSTANTS
  Logins,       \* login requests under way at once
  SessionIds,
  Users,
  Limit         \* failures allowed within one window

ASSUME SessionsAssumption == Limit \in Nat \ {0} /\ IsFiniteSet(Logins)

VARIABLES
  failed,       \* failures counted in the limiter's current window
  login,        \* each login request
  sessions      \* the rows of sessions

sevars == <<failed, login, sessions>>
-----------------------------------------------------------------------------
LoginRequest ==
  [pc : {"idle", "check"}] \cup [pc : {"rotate", "insert"}, user : Users]

NoLogin == [pc |-> "idle"]

SessionRow == [status : {"live", "revoked"}, user : Users]

NoSession == [status |-> "none"]

SessionsInit ==
  /\ failed = 0
  /\ login = [l \in Logins |-> NoLogin]
  /\ sessions = [s \in SessionIds |-> NoSession]

LiveOf(u) == {s \in SessionIds : sessions[s] = [status |-> "live", user |-> u]}

IsBlockedLate == failed > Limit

IsBlocked == failed >= Limit

\* The origin, the limiter.
BeginLogin(l) ==
  /\ login[l] = NoLogin
  /\ ~ IsBlocked
  /\ login' = [login EXCEPT ![l] = [pc |-> "check"]]
  /\ UNCHANGED <<failed, sessions>>

RecordFailure(l) ==
  /\ login[l].pc = "check"
  /\ failed' = failed + 1
  /\ login' = [login EXCEPT ![l] = NoLogin]
  /\ UNCHANGED sessions

\* The password is right: the limiter forgets the address.
Authenticate(l, u) ==
  /\ login[l].pc = "check"
  /\ failed' = 0
  /\ login' = [login EXCEPT ![l] = [pc |-> "rotate", user |-> u]]
  /\ UNCHANGED sessions

RotateSession(l) ==
  /\ login[l].pc = "rotate"
  /\ sessions' = [s \in SessionIds |-> IF s \in LiveOf(login[l].user)
                                       THEN [sessions[s] EXCEPT !.status = "revoked"]
                                       ELSE sessions[s]]
  /\ login' = [login EXCEPT ![l].pc = "insert"]
  /\ UNCHANGED failed

\* The audit and the answer follow; if they fail the session is there all the same.
InsertSession(l, s) ==
  /\ login[l].pc = "insert"
  /\ sessions[s] = NoSession
  /\ sessions' = [sessions EXCEPT ![s] = [status |-> "live", user |-> login[l].user]]
  /\ login' = [login EXCEPT ![l] = NoLogin]
  /\ UNCHANGED failed

\* A query throws, or the browser's request was refused.
LoginFails(l) ==
  /\ login[l] # NoLogin
  /\ login' = [login EXCEPT ![l] = NoLogin]
  /\ UNCHANGED <<failed, sessions>>

\* Logout, the administrator's page, or the end of the session's time.
EndSession(s) ==
  /\ sessions[s].status = "live"
  /\ sessions' = [sessions EXCEPT ![s].status = "revoked"]
  /\ UNCHANGED <<failed, login>>

\* The first attempt after the window starts the count anew.
AttemptsForgotten ==
  /\ failed > 0
  /\ failed' = 0
  /\ UNCHANGED <<login, sessions>>

ServerRestarts ==
  /\ failed' = 0
  /\ login' = [l \in Logins |-> NoLogin]
  /\ UNCHANGED sessions

LogIn(l) ==
  \/ BeginLogin(l) \/ RecordFailure(l) \/ RotateSession(l) \/ LoginFails(l)
  \/ \E u \in Users : Authenticate(l, u)
  \/ \E s \in SessionIds : InsertSession(l, s)

SessionsNext ==
  \/ \E l \in Logins : LogIn(l)
  \/ \E s \in SessionIds : EndSession(s)
  \/ AttemptsForgotten \/ ServerRestarts

SessionsSpec == SessionsInit /\ [][SessionsNext]_sevars

-----------------------------------------------------------------------------
SessionsTypeOK ==
  /\ failed \in Nat
  /\ login \in [Logins -> LoginRequest]
  /\ sessions \in [SessionIds -> SessionRow \cup {NoSession}]

\* The limiter is asked before the user's row is awaited and counts after it, and sessions
\* are rotated in one statement and made in another: overlapping logins may pass the limit
\* and outlive each other's rotation, but only by as many as overlap.
LoginsBounded ==
  /\ failed < Limit + Cardinality(Logins)
  /\ \A u \in Users : Cardinality(LiveOf(u)) <= Cardinality(Logins)
=============================================================================
