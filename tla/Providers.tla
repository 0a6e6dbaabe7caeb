----------------------------- MODULE Providers -----------------------------
(***************************************************************************)
(* The rows of provider_configs of one tenant and provider, as             *)
(* provider-service.js, credential-service.js and provider-migration.js    *)
(* write them, and the trigger that guards their status.                   *)
(*                                                                         *)
(* A request holds a transaction on one connection and reads the provider, *)
(* and stores its credential, on others: what it read may be stale when it *)
(* writes, and what it stored stays when it rolls back.  Its updates name  *)
(* the provider, hence every row of it.  The credential's version, written *)
(* over all rows and read by nobody here, is left out.                     *)
(***************************************************************************)
EXTENDS Naturals, Sequences

CONSTANTS
  Managers,     \* administrators' requests
  Rows,         \* identifiers of rows
  Submissions,  \* what createProvider is given
  Legacy        \* the legacy channels or settings of the provider, in order

ConfigFields(p) ==
  IF p = "waha" THEN {"baseUrl", "sessionName"} ELSE {"graphVersion", "phoneNumberId"}

CredentialFields(p) ==
  IF p = "waha" THEN {"apiKey", "webhookToken"}
                ELSE {"accessToken", "appSecret", "verifyToken"}

ProviderFields == UNION {ConfigFields(p) \cup CredentialFields(p) : p \in {"waha", "meta"}}

\* The fields with a value, those in their format, and where the endpoint points.
Submission ==
  [provider : {"waha", "meta", "other"}, present : SUBSET ProviderFields,
   formatted : SUBSET ProviderFields,
   host : {"public", "localhost", "private", "metadata", "internal port"}]

NoForm == [provider |-> "none"]

ASSUME ProvidersAssumption ==
  Submissions \subseteq Submission /\ Legacy \in Seq(Submission)

VARIABLES
  provider_rows,   \* the rows; "pending" is inserted and not committed
  credential,      \* whether provider_credentials has an active row
  provider_audit,  \* kinds of audit events of the provider
  manager          \* the request each administrator has under way

prvars == <<provider_rows, credential, provider_audit, manager>>
-----------------------------------------------------------------------------
(* Validation *)

ValidSchema(s, required) == required \subseteq s.present /\ required \subseteq s.formatted

ValidEndpoint(s) == s.provider = "waha" => s.host \in {"public", "localhost"}

FullSetupValid(s) ==
  /\ s.provider \in {"waha", "meta"}
  /\ ValidSchema(s, ConfigFields(s.provider))
  /\ ValidSchema(s, CredentialFields(s.provider))
  /\ ValidEndpoint(s)

\* The migration's own validation: that the fields are there and parse.
LegacyValid(s) ==
  /\ s.provider \in {"waha", "meta"}
  /\ ConfigFields(s.provider) \cup CredentialFields(s.provider) \subseteq s.present
  /\ {"baseUrl", "graphVersion"} \cap ConfigFields(s.provider) \subseteq s.formatted

-----------------------------------------------------------------------------
ProviderRow ==
  [status : {"none", "pending", "draft", "active", "revoked"},
   form : Submission \cup {NoForm}]

Manager ==
  [pc : {"idle", "test", "activate", "deactivate", "audit"}]
    \cup [pc : {"store", "commit"}, row : Rows]

Free == [pc |-> "idle"]

ProvidersInit ==
  /\ provider_rows = [r \in Rows |-> [status |-> "none", form |-> NoForm]]
  /\ credential = FALSE
  /\ provider_audit = {}
  /\ manager = [m \in Managers |-> Free]

Committed == {r \in Rows : provider_rows[r].status \in {"draft", "active", "revoked"}}

HasStatus(s) == \E r \in Rows : provider_rows[r].status = s

\* getProvider orders by status, last in the alphabet first, and takes one row.
CurrentStatus ==
  CASE HasStatus("revoked") -> "revoked"
    [] ~ HasStatus("revoked") /\ HasStatus("draft") -> "draft"
    [] ~ HasStatus("revoked") /\ ~ HasStatus("draft") /\ HasStatus("active") -> "active"
    [] OTHER -> "none"

Move(m, pc) == manager' = [manager EXCEPT ![m] = [pc |-> pc]]

-----------------------------------------------------------------------------
(* createProvider *)

InsertProvider(m, r, s) ==
  /\ manager[m] = Free
  /\ provider_rows[r].status = "none"
  /\ FullSetupValid(s)
  /\ provider_rows' = [provider_rows EXCEPT ![r] = [status |-> "pending", form |-> s]]
  /\ manager' = [manager EXCEPT ![m] = [pc |-> "store", row |-> r]]
  /\ UNCHANGED <<credential, provider_audit>>

\* storeCredential commits a transaction of its own.
StoreCredential(m) ==
  /\ manager[m].pc = "store"
  /\ credential' = TRUE
  /\ manager' = [manager EXCEPT ![m].pc = "commit"]
  /\ UNCHANGED <<provider_rows, provider_audit>>

CommitProvider(m) ==
  /\ manager[m].pc = "commit"
  /\ provider_rows' = [provider_rows EXCEPT ![manager[m].row].status = "draft"]
  /\ Move(m, "idle")
  /\ UNCHANGED <<credential, provider_audit>>

-----------------------------------------------------------------------------
(* activateProvider and deactivateProvider *)

BeginActivateProvider(m) ==
  /\ manager[m] = Free
  /\ CurrentStatus = "draft"
  /\ Move(m, "test")
  /\ UNCHANGED <<provider_rows, credential, provider_audit>>

\* The provider is asked over the network, for as long as the timeout allows; an error,
\* a refusal or a timeout ends in RollBack.
TestConnection(m) ==
  /\ manager[m].pc = "test"
  /\ credential
  /\ Move(m, "activate")
  /\ UNCHANGED <<provider_rows, credential, provider_audit>>

MayBeActiveTwice(r) == provider_rows[r].status # "revoked"

\* guard_provider_status_transition lets a row become, or stay, active.
MayBeActive(r) ==
  /\ provider_rows[r].status # "revoked"
  /\ \A o \in Committed \ {r} : provider_rows[o].status # "active"

\* The update takes every row the trigger does not hold back, the first of them first:
\* after it the others are held back.  The audit and the commit follow in any case.
ActivateProvider(m) ==
  /\ manager[m].pc = "activate"
  /\ \/ \E r \in Committed :
          MayBeActive(r) /\ provider_rows' = [provider_rows EXCEPT ![r].status = "active"]
     \/ (\A r \in Committed : ~ MayBeActive(r)) /\ UNCHANGED provider_rows
  /\ provider_audit' = provider_audit \cup {"provider.activated"}
  /\ Move(m, "idle")
  /\ UNCHANGED credential

BeginDeactivateProvider(m) ==
  /\ manager[m] = Free
  /\ CurrentStatus = "active"
  /\ Move(m, "deactivate")
  /\ UNCHANGED <<provider_rows, credential, provider_audit>>

DeactivateProvider(m) ==
  /\ manager[m].pc = "deactivate"
  /\ provider_rows' =
       [r \in Rows |-> IF r \in Committed THEN [provider_rows[r] EXCEPT !.status = "revoked"]
                       ELSE provider_rows[r]]
  /\ provider_audit' = provider_audit \cup {"provider.revoked"}
  /\ Move(m, "idle")
  /\ UNCHANGED credential

\* A failed statement, a refused test or a crash: the transaction is undone, the stored
\* credential is not.
RollBack(m) ==
  /\ manager[m] # Free
  /\ provider_rows' =
       IF manager[m].pc \in {"store", "commit"}
       THEN [provider_rows EXCEPT ![manager[m].row] = [status |-> "none", form |-> NoForm]]
       ELSE provider_rows
  /\ Move(m, "idle")
  /\ UNCHANGED <<credential, provider_audit>>

-----------------------------------------------------------------------------
(* rotateCredentials *)

\* rotateCredential commits; the audit event is a statement after it.
RotateCredential(m) ==
  /\ manager[m] = Free
  /\ CurrentStatus # "none" /\ credential
  /\ Move(m, "audit")
  /\ UNCHANGED <<provider_rows, credential, provider_audit>>

AuditRotation(m) ==
  /\ manager[m].pc = "audit"
  /\ provider_audit' = provider_audit \cup {"provider.credentials_rotated"}
  /\ Move(m, "idle")
  /\ UNCHANGED <<provider_rows, credential>>

-----------------------------------------------------------------------------
(* The migration of legacy channels and settings *)

\* insert ... on conflict where status = 'active' do update
UpsertActive(form) ==
  IF HasStatus("active")
  THEN provider_rows' =
         [r \in Rows |-> IF provider_rows[r].status = "active"
                         THEN [status |-> "active", form |-> form] ELSE provider_rows[r]]
  ELSE \E r \in Rows :
         /\ provider_rows[r].status = "none"
         /\ provider_rows' = [provider_rows EXCEPT ![r] = [status |-> "active", form |-> form]]

\* One transaction: the last valid legacy configuration is the one that stays.  If one of
\* its statements fails, the rest fail too, its commit rolls back, and it still reports
\* what it had counted; this is a step that changes nothing.
MigrateLegacy ==
  \E i \in DOMAIN Legacy :
    /\ LegacyValid(Legacy[i])
    /\ \A j \in DOMAIN Legacy : j > i => ~ LegacyValid(Legacy[j])
    /\ UpsertActive(Legacy[i])
    /\ provider_audit' = provider_audit \cup {"provider.migrated"}
    /\ UNCHANGED <<credential, manager>>

-----------------------------------------------------------------------------
ManageProvider(m) ==
  \/ \E r \in Rows, s \in Submissions : InsertProvider(m, r, s)
  \/ StoreCredential(m) \/ CommitProvider(m)
  \/ BeginActivateProvider(m) \/ TestConnection(m) \/ ActivateProvider(m)
  \/ BeginDeactivateProvider(m) \/ DeactivateProvider(m) \/ RollBack(m)
  \/ RotateCredential(m) \/ AuditRotation(m)

ProvidersNext == MigrateLegacy \/ \E m \in Managers : ManageProvider(m)

ProvidersSpec == ProvidersInit /\ [][ProvidersNext]_prvars

ProvidersTypeOK ==
  /\ provider_rows \in [Rows -> ProviderRow]
  /\ credential \in BOOLEAN
  /\ provider_audit \subseteq {"provider.activated", "provider.revoked",
                               "provider.credentials_rotated", "provider.migrated"}
  /\ manager \in [Managers -> Manager]

\* However many administrators create, activate, deactivate and migrate at once, over
\* whatever they read: one row at most is active, each draft has its credential stored,
\* nothing is active or revoked without a trace, and an endpoint that was not validated
\* only comes from the migration.
ProviderRowsSound ==
  /\ \A r, o \in Rows :
       provider_rows[r].status = "active" /\ provider_rows[o].status = "active" => r = o
  /\ HasStatus("draft") => credential
  /\ HasStatus("active") => provider_audit \cap {"provider.activated", "provider.migrated"} # {}
  /\ HasStatus("revoked") => "provider.revoked" \in provider_audit
  /\ \A r \in Rows : provider_rows[r].form # NoForm /\ ~ FullSetupValid(provider_rows[r].form)
       => "provider.migrated" \in provider_audit

\* "revoked" is final: an activation that read the provider while it was a draft, and
\* writes after it was revoked, does not bring the row back.
RevokedStaysRevoked ==
  [][\A r \in Rows : provider_rows[r].status = "revoked"
                       => provider_rows'[r].status = "revoked"]_prvars
=============================================================================
