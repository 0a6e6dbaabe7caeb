------------------------------- MODULE Setup -------------------------------
(***************************************************************************)
(* The installation's setup: the row of installation_setup, the handlers   *)
(* of setup-service.js behind their routes, and the wizard pages that call *)
(* them.  Every handler but two is one transaction over the locked row.    *)
(* activate commits "activating" first and then goes on in statements of   *)
(* their own, and rotateBootstrapSecret verifies, writes and audits in     *)
(* three, so other calls and a crash come between.                         *)
(*                                                                         *)
(* A statement may fail, or apply and not be heard.  A configuration is    *)
(* what the validation tells apart.  The columns that are written and      *)
(* never read (version, secrets_hash, the times), and the audit of a        *)
(* rotation, are left out.                                                 *)
(***************************************************************************)
EXTENDS Naturals

CONSTANTS
  Admins,           \* administrators, each with a wizard page
  Drafts,           \* the configurations they submit
  Secrets,
  BootstrapSecret,  \* the secret the server was started with
  RateLimit         \* validations allowed within one window

Fields == {"baseUrl", "sessionName", "graphVersion", "phoneNumberId"}

\* The fields with a value, those that have their format, and where baseUrl points.
Config ==
  [provider : {"waha", "meta", "other"}, present : SUBSET Fields, formatted : SUBSET Fields,
   host : {"public", "localhost", "private", "metadata", "internal port"}]

NoConfig == [provider |-> "none"]

ASSUME SetupAssumption ==
  /\ Drafts \subseteq Config
  /\ BootstrapSecret \in Secrets
  /\ RateLimit \in Nat \ {0}

VARIABLES
  installation,  \* the row of installation_setup; "uninitialized" is no row
  provider,      \* the active row of provider_configs, by provider
  activations,   \* audit events provider.config.activated
  call,          \* each administrator's request
  announced      \* the configuration each administrator was told is active

svars == <<installation, provider, activations, call, announced>>
-----------------------------------------------------------------------------
Required(p) ==
  IF p = "waha" THEN {"baseUrl", "sessionName"} ELSE {"graphVersion", "phoneNumberId"}

ValidProviderConfig(c) ==
  /\ c.provider \in {"waha", "meta"}
  /\ Required(c.provider) \subseteq c.present
  /\ Required(c.provider) \cap c.present \subseteq c.formatted

ValidWahaConfig(c) == c.host \in {"public", "localhost"}

Acceptable(c) ==
  ValidProviderConfig(c) /\ (c.provider = "waha" => ValidWahaConfig(c))

Installation ==
  [state : {"uninitialized", "bootstrapped", "draft", "validated", "activating", "active"},
   draft : Config \cup {NoConfig}, active : Config \cup {NoConfig},
   secret : Secrets, expired : BOOLEAN, attempts : 0 .. RateLimit, recent : BOOLEAN]

\* "persist", "audit", "finish" and "undo" are activate's statements after its commit,
\* "write" that of rotateBootstrapSecret after its check.
Call ==
  [pc : {"persist", "audit", "finish", "undo", "answer"}, config : Config]
    \cup [pc : {"write"}, secret : Secrets]
    \cup [pc : {"idle"}]

Idle == [pc |-> "idle"]

SetupInit ==
  /\ installation = [state |-> "uninitialized", draft |-> NoConfig, active |-> NoConfig,
                     secret |-> BootstrapSecret, expired |-> FALSE, attempts |-> 0,
                     recent |-> FALSE]
  /\ provider = [p \in {"waha", "meta"} |-> NoConfig]
  /\ activations = {}
  /\ call = [a \in Admins |-> Idle]
  /\ announced = [a \in Admins |-> NoConfig]

-----------------------------------------------------------------------------
(* The handlers that are one transaction *)

\* The route compares the secret with the server's; the row is unique by tenant.
Bootstrap(secret) ==
  /\ installation.state = "uninitialized" /\ secret = BootstrapSecret
  /\ installation' = [installation EXCEPT !.state = "bootstrapped"]
  /\ UNCHANGED <<provider, activations, call, announced>>

SetDraftAnytime(c) ==
  /\ installation.state \notin {"uninitialized", "active"}
  /\ Acceptable(c)
  /\ installation' = [installation EXCEPT !.draft = c, !.state = "draft"]
  /\ UNCHANGED <<provider, activations, call, announced>>

SetDraftWhenActive(c) ==
  /\ installation.state \notin {"uninitialized", "activating"}
  /\ Acceptable(c)
  /\ installation' = [installation EXCEPT !.draft = c, !.state = "draft"]
  /\ UNCHANGED <<provider, activations, call, announced>>

\* The wizard's second step sends nothing, it only redirects: another client puts the draft.
SetDraftConfig(c) ==
  /\ installation.state \notin {"uninitialized", "active", "activating"}
  /\ Acceptable(c)
  /\ installation' = [installation EXCEPT !.draft = c, !.state = "draft"]
  /\ UNCHANGED <<provider, activations, call, announced>>

ValidateDraft ==
  /\ installation.state \in {"draft", "validated"}
  /\ ~ (installation.recent /\ installation.attempts >= RateLimit)
  /\ installation' =
       [installation EXCEPT
          !.state = "validated", !.recent = TRUE,
          !.attempts = IF installation.recent THEN @ + 1 ELSE 1]
  /\ UNCHANGED <<provider, activations, call, announced>>

WindowElapses ==
  /\ installation.recent
  /\ installation' = [installation EXCEPT !.recent = FALSE]
  /\ UNCHANGED <<provider, activations, call, announced>>

SecretExpires ==
  /\ installation.state # "uninitialized" /\ ~ installation.expired
  /\ installation' = [installation EXCEPT !.expired = TRUE]
  /\ UNCHANGED <<provider, activations, call, announced>>

-----------------------------------------------------------------------------
(* Activation *)

At(a, pc) == [call EXCEPT ![a].pc = pc]

\* The transaction commits "activating"; if the commit is not heard, nothing follows.
BeginActivation(a) ==
  /\ call[a] = Idle
  /\ installation.state = "validated" /\ installation.draft # NoConfig
  /\ installation' = [installation EXCEPT !.state = "activating"]
  /\ \/ call' = [call EXCEPT ![a] = [pc |-> "persist", config |-> installation.draft]]
     \/ UNCHANGED call
  /\ UNCHANGED <<provider, activations, announced>>

PersistProvider(a) ==
  /\ call[a].pc = "persist"
  /\ provider' = [provider EXCEPT ![call[a].config.provider] = call[a].config]
  /\ call' \in {At(a, "audit"), At(a, "undo")}
  /\ UNCHANGED <<installation, activations, announced>>

AuditActivation(a) ==
  /\ call[a].pc = "audit"
  /\ activations' = activations \cup {call[a].config}
  /\ call' \in {At(a, "finish"), At(a, "undo")}
  /\ UNCHANGED <<installation, provider, announced>>

\* The update names the tenant only: it takes whatever draft the row then has.
FinishActivation(a) ==
  /\ call[a].pc = "finish"
  /\ installation' = [installation EXCEPT !.state = "active", !.active = installation.draft,
                                          !.draft = NoConfig]
  /\ call' \in {At(a, "answer"), At(a, "undo")}
  /\ UNCHANGED <<provider, activations, announced>>

StatementFails(a) ==
  /\ call[a].pc \in {"persist", "audit", "finish"}
  /\ call' = At(a, "undo")
  /\ UNCHANGED <<installation, provider, activations, announced>>

\* The catch block, which does not ask what the row's state is; it may fail as well.
UndoActivation(a) ==
  /\ call[a].pc = "undo"
  /\ \/ installation' = [installation EXCEPT !.state = "validated"]
     \/ UNCHANGED installation
  /\ call' = [call EXCEPT ![a] = Idle]
  /\ UNCHANGED <<provider, activations, announced>>

-----------------------------------------------------------------------------
(* Rotation of the bootstrap secret *)

VerifyBootstrapSecret(old) ==
  installation.state # "uninitialized" /\ ~ installation.expired /\ old = installation.secret

BeginRotation(a, old, new) ==
  /\ call[a] = Idle
  /\ VerifyBootstrapSecret(old)
  /\ call' = [call EXCEPT ![a] = [pc |-> "write", secret |-> new]]
  /\ UNCHANGED <<installation, provider, activations, announced>>

WriteSecret(a) ==
  /\ call[a].pc = "write"
  /\ installation' = [installation EXCEPT !.secret = call[a].secret]
  /\ call' = [call EXCEPT ![a] = Idle]
  /\ UNCHANGED <<provider, activations, announced>>

-----------------------------------------------------------------------------
(* The pages, and what goes wrong between them and the database *)

\* The answer reaches the wizard, which then shows the installation as activated.
Receive(a) ==
  /\ call[a].pc = "answer"
  /\ announced' = [announced EXCEPT ![a] = call[a].config]
  /\ call' = [call EXCEPT ![a] = Idle]
  /\ UNCHANGED <<installation, provider, activations>>

\* The answer is lost, or the write fails.
Abandon(a) ==
  /\ call[a].pc \in {"write", "answer"}
  /\ call' = [call EXCEPT ![a] = Idle]
  /\ UNCHANGED <<installation, provider, activations, announced>>

\* The server dies with all its requests.
ServerCrash ==
  /\ \E a \in Admins : call[a] # Idle
  /\ call' = [a \in Admins |-> Idle]
  /\ UNCHANGED <<installation, provider, activations, announced>>

Activate(a) ==
  \/ BeginActivation(a) \/ PersistProvider(a) \/ AuditActivation(a) \/ FinishActivation(a)
  \/ StatementFails(a) \/ UndoActivation(a)

RotateSecret(a) ==
  (\E old, new \in Secrets : BeginRotation(a, old, new)) \/ WriteSecret(a)

SetupNext ==
  \/ \E s \in Secrets : Bootstrap(s)
  \/ \E c \in Drafts : SetDraftConfig(c)
  \/ ValidateDraft \/ WindowElapses \/ SecretExpires \/ ServerCrash
  \/ \E a \in Admins : Activate(a) \/ RotateSecret(a) \/ Receive(a) \/ Abandon(a)

SetupSpec == SetupInit /\ [][SetupNext]_svars

-----------------------------------------------------------------------------
SetupTypeOK ==
  /\ installation \in Installation
  /\ provider \in [{"waha", "meta"} -> Config \cup {NoConfig}]
  /\ activations \subseteq Config
  /\ call \in [Admins -> Call]
  /\ announced \in [Admins -> Config \cup {NoConfig}]

\* An active installation is whole, whatever drafts, failed activations and crashes came
\* before: its configuration passed the validation, is the one the provider's row holds,
\* was audited, and no draft is left behind.
ActivationIsWhole ==
  installation.state = "active" =>
    /\ Acceptable(installation.active)
    /\ installation.active \in activations
    /\ provider[installation.active.provider] = installation.active
    /\ installation.draft = NoConfig

\* "Após ativar, a configuração não poderá mais ser alterada": once a page was told that
\* its configuration is active, no other call, and no catch block of one, takes it back.
AnnouncedStaysActive ==
  \A a \in Admins : announced[a] # NoConfig =>
    installation.state = "active" /\ installation.active = announced[a]
=============================================================================
