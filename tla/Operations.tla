----------------------------- MODULE Operations -----------------------------
(***************************************************************************)
(* The command line (bin/crm-cli.js) and the migration (migrate.js), as    *)
(* operators run them against one database.                                *)
(*                                                                         *)
(* A command is claimed, performed and answered in one transaction, under  *)
(* an idempotency key.  The effect of the admin commands is part of that   *)
(* transaction; those of drain and of the privacy request are statements   *)
(* on other connections, and stay when it rolls back.  A crash is a        *)
(* rollback the operator hears nothing of; a retry is another run with the *)
(* same arguments.  Passwords are not part of a request, and are left out; *)
(* health check and workers list only read.                                *)
(***************************************************************************)
EXTENDS Naturals, Sequences, SequencesExt

CONSTANTS
  Operators,    \* runs of the command line
  Argvs,        \* the arguments they are given, each a sequence of tokens
  ClockKeys,    \* the keys made of the clock when none is given
  Emails,       \* e-mail addresses as they are typed
  LowerCase,    \* their normal form
  Deployments,  \* values of ADMIN_EMAIL and ADMIN_LOGIN
  MaxEffects    \* bound on the drains and requests made under one key

ASSUME OperationsAssumption ==
  /\ LowerCase \in [Emails -> Emails]
  /\ \A e \in Emails : LowerCase[LowerCase[e]] = LowerCase[e]
  /\ Deployments \subseteq [email : Emails, login : Emails]
  /\ MaxEffects \in Nat \ {0}

VARIABLES
  accounts,      \* committed rows of users
  idempotency,   \* committed rows of operational_idempotency_keys
  effects,       \* how often what was asked under a key was done, durably
  operator,      \* each run
  told,          \* what operators were answered
  migration,     \* the run of migrate.js
  settings       \* admin_email as the last migration wrote it

opvars == <<accounts, idempotency, effects, operator, told,
            migration, settings>>
-----------------------------------------------------------------------------
(* Arguments *)

Commands ==
  {<<"admin", "create">>, <<"admin", "reset-password">>, <<"health", "check">>,
   <<"workers", "list">>, <<"queues", "drain">>, <<"privacy", "request">>}

Destructive ==
  {<<"admin", "reset-password">>, <<"queues", "drain">>, <<"privacy", "request">>}

SecretOptions == {"--password", "--token"}
ValueOptions == {"--tenant", "--idempotency-key", "--email"}
Dashed == SecretOptions \cup ValueOptions \cup {"--yes", "--unknown"}

\* One token read: "option" is the option whose value comes next, "" if none.
ReadToken(parsed, token) ==
  CASE parsed.error \/ token \in SecretOptions \/ token = "--unknown"
         -> [parsed EXCEPT !.error = TRUE]
    [] ~ parsed.error /\ parsed.option # "" /\ token \notin SecretOptions \cup {"--unknown"}
         -> IF token \in Dashed THEN [parsed EXCEPT !.error = TRUE]
            ELSE [parsed EXCEPT !.given = @ \cup {<<parsed.option, token>>}, !.option = ""]
    [] OTHER
         -> IF token = "--yes" THEN [parsed EXCEPT !.yes = TRUE]
            ELSE IF token \in ValueOptions THEN [parsed EXCEPT !.option = token]
            ELSE [parsed EXCEPT !.command = Append(@, token)]

ParseArgs(argv) ==
  FoldLeft(ReadToken, [command |-> <<>>, given |-> {}, yes |-> FALSE, option |-> "",
                       error |-> FALSE], argv)

Given(parsed, option) == {g[2] : g \in {h \in parsed.given : h[1] = option}}

ASSUME ArgvsAssumption ==
  \A argv \in Argvs : Given(ParseArgs(argv), "--email") \subseteq Emails

ValidateCommand(parsed) ==
  /\ ~ parsed.error /\ parsed.option = ""
  /\ parsed.command \in Commands
  /\ parsed.command[1] # "health" => Given(parsed, "--tenant") # {}
  /\ parsed.command \in Destructive => Given(parsed, "--idempotency-key") # {} /\ parsed.yes

-----------------------------------------------------------------------------
\* The key given, or else one made of the clock.
KeysOf(parsed) ==
  LET given == Given(parsed, "--idempotency-key") IN IF given = {} THEN ClockKeys ELSE given

Keys == UNION {KeysOf(ParseArgs(argv)) : argv \in Argvs}

Operation == {"create", "reset-password", "drain", "request"}

Claim == Operation \X Keys

NoRecord == [response |-> "none"]

Responses == {"created", "exists", "reset", "done"}

Record == [email : Emails, response : Responses]

Account == [email : Emails, login : Emails]

Waiting == [pc |-> "idle"]

Operator ==
  {Waiting}
    \cup [pc : {"effect", "insert"}, claim : Claim, email : Emails]
    \cup [pc : {"resolve"}, claim : Claim, email : Emails, response : Responses]

Migration == {Waiting} \cup [pc : {"insert", "created", "found"}, as : Deployments]

OperationsInit ==
  /\ accounts = {} /\ settings = {}
  /\ idempotency = [c \in Claim |-> NoRecord]
  /\ effects = [c \in Claim |-> 0]
  /\ operator = [o \in Operators |-> Waiting]
  /\ told = {}
  /\ migration = Waiting

Registered(email) == \E a \in accounts : a.email = email

MigrationRow == [email |-> LowerCase[migration.as.email], login |-> LowerCase[migration.as.login]]

\* An account inserted and not committed: an insert of the same e-mail or login waits.
Uncommitted ==
  {[email |-> LowerCase[operator[o].email], login |-> LowerCase[operator[o].email]] :
     o \in {p \in Operators :
              operator[p].pc = "resolve" /\ operator[p].response = "created"}}
    \cup (IF migration.pc = "created" THEN {MigrationRow} ELSE {})

Clash(a, b) == a.email = b.email \/ a.login = b.login

Turn(o, state) == operator' = [operator EXCEPT ![o] = state]

-----------------------------------------------------------------------------
(* A run of the command line *)

KeyUnlocked(c) == TRUE

\* The insert of the key waits for another transaction that has inserted it.
KeyFree(c) == \A o \in Operators : operator[o] # Waiting => operator[o].claim # c

\* The typed e-mail is the login as well, for brevity.
ClaimIdempotency(o) ==
  /\ operator[o] = Waiting
  /\ \E parsed \in {ParseArgs(argv) : argv \in Argvs} :
       /\ ValidateCommand(parsed)
       /\ parsed.command[2] \in Operation
       /\ \E e \in Given(parsed, "--email"), k \in KeysOf(parsed) :
            LET c == <<parsed.command[2], k>>
            IN /\ KeyFree(c)
               /\ \/ /\ idempotency[c] = NoRecord
                     /\ Turn(o, [pc |-> "effect", claim |-> c, email |-> e])
                     /\ UNCHANGED told
                  \/ /\ idempotency[c] # NoRecord /\ idempotency[c].email = e
                     /\ told' = told \cup {<<c, idempotency[c]>>}
                     /\ UNCHANGED operator
  /\ UNCHANGED <<accounts, idempotency, effects, migration, settings>>

Resolved(o, response) ==
  [pc |-> "resolve", claim |-> operator[o].claim, email |-> operator[o].email,
   response |-> response]

\* The advisory lock is of the e-mail as typed, the row's e-mail is in lower case.
SelectAccount(o) ==
  /\ operator[o].pc = "effect" /\ operator[o].claim[1] = "create"
  /\ \A p \in Operators \ {o} :
       operator[p].pc \in {"insert", "resolve"} /\ operator[p].claim[1] = "create"
         => operator[p].email # operator[o].email
  /\ IF Registered(LowerCase[operator[o].email]) THEN Turn(o, Resolved(o, "exists"))
     ELSE operator' = [operator EXCEPT ![o].pc = "insert"]
  /\ UNCHANGED <<accounts, idempotency, effects, told, migration, settings>>

InsertAccount(o) ==
  /\ operator[o].pc = "insert"
  /\ LET row == [email |-> LowerCase[operator[o].email], login |-> LowerCase[operator[o].email]]
     IN /\ \A a \in Uncommitted : ~ Clash(a, row)
        /\ Turn(o, IF \E a \in accounts : Clash(a, row) THEN Waiting ELSE Resolved(o, "created"))
  /\ UNCHANGED <<accounts, idempotency, effects, told, migration, settings>>

\* This command does not put the e-mail in lower case.
ResetAdminPassword(o) ==
  /\ operator[o].pc = "effect" /\ operator[o].claim[1] = "reset-password"
  /\ \A p \in Operators \ {o} :
       operator[p].pc = "resolve" /\ operator[p].response = "reset"
         => operator[p].email # operator[o].email
  /\ Turn(o, IF Registered(operator[o].email) THEN Resolved(o, "reset") ELSE Waiting)
  /\ UNCHANGED <<accounts, idempotency, effects, told, migration, settings>>

\* What runs on other connections: the insert of createPrivacyRequest, and drainQueue, which
\* pauses the claims (a flag no worker reads), waits until no job is under way, and resumes.
PerformOutside(o) ==
  /\ operator[o].pc = "effect" /\ operator[o].claim[1] \in {"drain", "request"}
  /\ effects[operator[o].claim] < MaxEffects
  /\ effects' = [effects EXCEPT ![operator[o].claim] = @ + 1]
  /\ Turn(o, Resolved(o, "done"))
  /\ UNCHANGED <<accounts, idempotency, told, migration, settings>>

\* resolveIdempotency and the commit, whose answer may be lost.
CommitCommand(o) ==
  LET c == operator[o].claim
      record == [email |-> operator[o].email, response |-> operator[o].response]
  IN /\ operator[o].pc = "resolve"
     /\ idempotency' = [idempotency EXCEPT ![c] = record]
     /\ accounts' = accounts \cup
          IF record.response = "created"
          THEN {[email |-> LowerCase[record.email], login |-> LowerCase[record.email]]} ELSE {}
     /\ effects' = IF c[1] \in {"create", "reset-password"}
                   THEN [effects EXCEPT ![c] = @ + 1] ELSE effects
     /\ told' \in {told, told \cup {<<c, record>>}}
     /\ Turn(o, Waiting)
     /\ UNCHANGED <<migration, settings>>

\* Any statement fails, or the process is killed.
CommandFails(o) ==
  /\ operator[o] # Waiting
  /\ Turn(o, Waiting)
  /\ UNCHANGED <<accounts, idempotency, effects, told, migration, settings>>

-----------------------------------------------------------------------------
(* A run of the migration: one transaction, and one run at a time by its advisory lock *)

BeginMigration ==
  /\ migration = Waiting
  /\ \E d \in Deployments :
       migration' = [pc |-> IF Registered(LowerCase[d.email]) THEN "found" ELSE "insert", as |-> d]
  /\ UNCHANGED <<accounts, idempotency, effects, operator, told, settings>>

EnsureBootstrapAdmin ==
  /\ migration.pc = "insert"
  /\ \A a \in Uncommitted : ~ Clash(a, MigrationRow)
  /\ migration' = IF \E a \in accounts : Clash(a, MigrationRow) THEN Waiting
                  ELSE [pc |-> "created", as |-> migration.as]
  /\ UNCHANGED <<accounts, idempotency, effects, operator, told, settings>>

CommitMigration ==
  /\ migration.pc \in {"found", "created"}
  /\ accounts' = accounts \cup IF migration.pc = "created" THEN {MigrationRow} ELSE {}
  /\ settings' = {migration.as.email}
  /\ migration' = Waiting
  /\ UNCHANGED <<idempotency, effects, operator, told>>

MigrationFails ==
  /\ migration # Waiting
  /\ migration' = Waiting
  /\ UNCHANGED <<accounts, idempotency, effects, operator, told, settings>>

-----------------------------------------------------------------------------
RunCommand(o) ==
  \/ ClaimIdempotency(o) \/ SelectAccount(o) \/ InsertAccount(o)
  \/ ResetAdminPassword(o) \/ PerformOutside(o) \/ CommitCommand(o) \/ CommandFails(o)

Migrate == BeginMigration \/ EnsureBootstrapAdmin \/ CommitMigration \/ MigrationFails

OperationsNext == Migrate \/ \E o \in Operators : RunCommand(o)

OperationsSpec == OperationsInit /\ [][OperationsNext]_opvars

-----------------------------------------------------------------------------
OperationsTypeOK ==
  /\ accounts \subseteq Account
  /\ idempotency \in [Claim -> Record \cup {NoRecord}]
  /\ effects \in [Claim -> 0 .. MaxEffects]
  /\ operator \in [Operators -> Operator]
  /\ told \subseteq Claim \X Record
  /\ migration \in Migration
  /\ settings \subseteq Emails

\* A key stands for one execution, through crashes, lost answers, retries and overlapping
\* runs: what an operator was told is what every later run is told, what is answered was
\* done, and an admin command was done once and exactly when its key is completed.
KeyedOnce ==
  /\ \A t \in told : idempotency[t[1]] = t[2]
  /\ \A c \in Claim : idempotency[c] # NoRecord => effects[c] > 0
  /\ \A c \in Claim : c[1] \in {"create", "reset-password"} =>
       /\ effects[c] <= 1
       /\ effects[c] = 1 => idempotency[c] # NoRecord

\* The command line and the migration take different locks, and look an e-mail up before
\* they insert it: still no two accounts share an e-mail or a login, and the administrator
\* the settings name has an account.
AccountsSound ==
  /\ \A a, b \in accounts : Clash(a, b) => a = b
  /\ \A e \in settings : Registered(LowerCase[e])
=============================================================================
