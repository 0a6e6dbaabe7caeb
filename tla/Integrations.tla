---------------------------- MODULE Integrations ----------------------------
(***************************************************************************)
(* SyncService: records are sent to an integration's adapter, and what it  *)
(* answers is written down, by calls that overlap.  A call reads the       *)
(* record and the circuit before it awaits the adapter and writes both     *)
(* after it, over whatever other calls have written.  The adapter is       *)
(* outside: it accepts, reports a conflict, or fails in a way that may be  *)
(* retried or not.                                                         *)
(***************************************************************************)
EXTENDS Naturals

CONSTANTS
  Calls,       \* calls of sync
  Entities,
  MaxVersion,  \* bound on the versions that are sent
  MaxExternal, \* bound on the versions the integration gives
  Threshold    \* failures that open the circuit

ASSUME IntegrationsAssumption ==
  MaxVersion \in Nat /\ MaxExternal \in Nat /\ Threshold \in Nat \ {0}

VARIABLES
  sync_record,  \* what is known of each entity
  circuit,      \* the failures counted, and whether the circuit is open
  sync_call,    \* each call under way
  external,     \* the last version the integration gave each entity
  accepted,     \* what it accepted: entity, version, its own version
  failures      \* retryable failures it answered, counted up to the threshold

syvars == <<sync_record, circuit, sync_call, external, accepted, failures>>
-----------------------------------------------------------------------------
SyncRecord ==
  [status : {"new", "synced", "conflict", "retryable_failure"}, version : 0 .. MaxVersion,
   external : 0 .. MaxExternal]

Circuit == [failures : 0 .. Threshold, open : BOOLEAN]

NoSync == [pc |-> "idle"]

\* What was read before the adapter is awaited: the record's external version and the count.
SyncCall ==
  [pc : {"await"}, entity : Entities, version : 0 .. MaxVersion, external : 0 .. MaxExternal,
   count : 0 .. Threshold]

IntegrationsInit ==
  /\ sync_record = [e \in Entities |-> [status |-> "new", version |-> 0, external |-> 0]]
  /\ circuit = [failures |-> 0, open |-> FALSE]
  /\ sync_call = [c \in Calls |-> NoSync]
  /\ external = [e \in Entities |-> 0]
  /\ accepted = {}
  /\ failures = 0

BeginSync(c, e, v) ==
  /\ sync_call[c] = NoSync
  /\ ~ circuit.open
  /\ ~ (sync_record[e].status = "synced" /\ sync_record[e].version = v)
  /\ sync_call' = [sync_call EXCEPT ![c] =
       [pc |-> "await", entity |-> e, version |-> v, external |-> sync_record[e].external,
        count |-> circuit.failures]]
  /\ UNCHANGED <<sync_record, circuit, external, accepted, failures>>

Answered(c, status, ext) ==
  /\ sync_record' = [sync_record EXCEPT ![sync_call[c].entity] =
       [status |-> status, version |-> sync_call[c].version, external |-> ext]]
  /\ sync_call' = [sync_call EXCEPT ![c] = NoSync]

\* The integration takes the update and gives it its next version.
SyncAccepted(c) ==
  /\ sync_call[c].pc = "await"
  /\ external[sync_call[c].entity] < MaxExternal
  /\ LET e == sync_call[c].entity
         ext == external[e] + 1
     IN /\ external' = [external EXCEPT ![e] = ext]
        /\ accepted' = accepted \cup {<<e, sync_call[c].version, ext>>}
        /\ Answered(c, "synced", ext)
  /\ circuit' = [failures |-> 0, open |-> FALSE]
  /\ UNCHANGED failures

SyncConflictAsSynced(c) ==
  /\ sync_call[c].pc = "await"
  /\ sync_call[c].external # external[sync_call[c].entity]
  /\ Answered(c, "synced", external[sync_call[c].entity])
  /\ UNCHANGED <<circuit, external, accepted, failures>>

\* VERSION_CONFLICT: the external version that was sent is not the integration's.
SyncConflict(c) ==
  /\ sync_call[c].pc = "await"
  /\ sync_call[c].external # external[sync_call[c].entity]
  /\ Answered(c, "conflict", sync_call[c].external)
  /\ UNCHANGED <<circuit, external, accepted, failures>>

OpensLate(n) == n > Threshold

Opens(n) == n >= Threshold

SyncFailed(c) ==
  /\ sync_call[c].pc = "await"
  /\ Answered(c, "retryable_failure", sync_call[c].external)
  /\ failures' = IF failures < Threshold THEN failures + 1 ELSE failures
  /\ LET n == sync_call[c].count + 1
     IN circuit' = [failures |-> n, open |-> Opens(n)]
  /\ UNCHANGED <<external, accepted>>

\* Any other error is thrown, and nothing is written down.
SyncThrows(c) ==
  /\ sync_call[c].pc = "await"
  /\ sync_call' = [sync_call EXCEPT ![c] = NoSync]
  /\ UNCHANGED <<sync_record, circuit, external, accepted, failures>>

Sync(c) ==
  \/ \E e \in Entities, v \in 1 .. MaxVersion : BeginSync(c, e, v)
  \/ SyncAccepted(c) \/ SyncConflict(c) \/ SyncFailed(c) \/ SyncThrows(c)

IntegrationsNext == \E c \in Calls : Sync(c)

IntegrationsSpec == IntegrationsInit /\ [][IntegrationsNext]_syvars

-----------------------------------------------------------------------------
IntegrationsTypeOK ==
  /\ sync_record \in [Entities -> SyncRecord]
  /\ circuit \in Circuit
  /\ sync_call \in [Calls -> SyncCall \cup {NoSync}]
  /\ external \in [Entities -> 0 .. MaxExternal]
  /\ accepted \subseteq Entities \X (0 .. MaxVersion) \X (0 .. MaxExternal)
  /\ failures \in 0 .. Threshold

\* Late answers overwrite newer ones, and counts read before an await are written after it;
\* yet a record is called synced only with a version and an external version that the
\* integration gave for it, and a circuit opens only if the threshold's failures happened.
SyncIsAttested ==
  /\ \A e \in Entities : sync_record[e].status = "synced" =>
       <<e, sync_record[e].version, sync_record[e].external>> \in accepted
  /\ circuit.failures <= failures
  /\ circuit.open => failures >= Threshold
=============================================================================
