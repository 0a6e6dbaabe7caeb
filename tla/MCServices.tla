---------------------------- MODULE MCServices ----------------------------
(***************************************************************************)
(* The services beside the message pipeline, for TLC.  An instance of each *)
(* is checked by itself: the first state chooses the component whose steps *)
(* are taken.  One table is written by two of them, provider_configs by    *)
(* Setup and by Providers, and server.js mounts the routes of Setup alone. *)
(***************************************************************************)
EXTENDS Setup, Providers, Operations, Editors, AutomationGraph, RuleEngine, Integrations,
        Tools, Alerts, Desk, Sessions, TLC

CONSTANTS a1, a2, m1, m2, row1, row2, row3, o1, o2, u1, u2, u3, d1, w1, w2

VARIABLE component
-----------------------------------------------------------------------------
(* Setup: an acceptable configuration of each provider, and one of a private host *)

MCAdmins == {a1, a2}

Complete(p, host) ==
  [provider |-> p, present |-> Required(p), formatted |-> Required(p), host |-> host]

MCDrafts == {Complete("waha", "public"), Complete("meta", "public"), Complete("waha", "private")}

MCSecrets == {"s1", "s2"}

(* Providers: what full setup accepts and refuses, and what only the migration accepts *)

MCManagers == {m1, m2}
MCRows == {row1, row2, row3}

Form(p, host) ==
  [provider |-> p, host |-> host, present |-> ConfigFields(p) \cup CredentialFields(p),
   formatted |-> ConfigFields(p) \cup CredentialFields(p)]

MCSubmissions == {Form("waha", "public"), Form("waha", "metadata")}
MCLegacy == <<Form("waha", "private"), Form("other", "public")>>

(* The command line: two spellings of an e-mail, good and bad arguments *)

MCOperators == {o1, o2}
MCEmails == {"ana", "Ana", "rui"}
MCLowerCase == [e \in MCEmails |-> IF e = "Ana" THEN "ana" ELSE e]
MCDeployments == {[email |-> "rui", login |-> "ana"]}

Keyed == <<"--tenant", "t", "--idempotency-key", "k1", "--email", "ana">>

MCArgvs ==
  {<<"admin", "create", "--tenant", "t", "--email", "ana">>,
   <<"admin", "create", "--tenant", "t", "--email", "Ana">>,
   <<"admin", "create", "--tenant", "t", "--password", "x">>,
   Keyed \o <<"admin", "reset-password", "--yes">>, Keyed \o <<"admin", "reset-password">>,
   <<"queues", "drain", "--tenant", "t", "--idempotency-key", "--yes">>,
   <<"queues", "drain", "--yes">> \o Keyed,
   <<"privacy", "request", "--yes">> \o Keyed}

(* Editors: two authors of one tenant, one of another *)

MCAuthors == {u1, u2, u3}
MCTenantOf == (u1 :> "t1") @@ (u2 :> "t1") @@ (u3 :> "t2")
MCContents == {"a", "b", "bad"}

(* Graphs: every graph of three nodes, with one edge of an unknown port *)

MCConnections ==
  [from : NodeIds, to : NodeIds, port : {"next"}] \cup {[from |-> 1, to |-> 2, port |-> "other"]}

(* Rules: one of two actions; events of its trigger, of another tenant, of another trigger *)

MCEvent(id, tenant, type) == [id |-> id, tenant |-> tenant, type |-> type]

MCEvents ==
  {MCEvent("e1", "t1", "message.received"), MCEvent("e2", "t2", "message.received"),
   MCEvent("e3", "t1", "sla.breached")}

MCRules ==
  {[tenant |-> "t1", trigger |-> "message.received", matches |-> MCEvents,
    actions |-> <<"add_tag", "handoff">>]}

(* Tools: two actors of one tenant and one of another, all with the same key; what the roles
   of an actor allow, from none to all of it *)

MCActorTenant == ("ana" :> "t1") @@ ("bia" :> "t1") @@ ("caio" :> "t2")

MCCapabilities ==
  ("ana" :> {{}, {"look"}, {"send", "look"}}) @@ ("bia" :> {{}, {"send"}}) @@
  ("caio" :> {{}, {"look"}})

MCContract == ("send" :> {"x", "y"}) @@ ("look" :> {"x"})
-----------------------------------------------------------------------------
services == <<svars, prvars, opvars, edvars, grvars, revars, syvars, tovars, alvars, devars,
              sevars>>

MCInit ==
  /\ SetupInit /\ ProvidersInit /\ OperationsInit /\ EditorsInit /\ GraphInit
  /\ RuleEngineInit /\ IntegrationsInit /\ ToolsInit /\ AlertsInit /\ DeskInit /\ SessionsInit
  /\ component \in {"setup", "providers", "operations", "editors", "graph", "rules",
                    "integrations", "tools", "alerts", "desk", "sessions"}

MCNext ==
  /\ UNCHANGED component
  /\ component # "setup" => UNCHANGED svars
  /\ component # "providers" => UNCHANGED prvars
  /\ component # "operations" => UNCHANGED opvars
  /\ component # "editors" => UNCHANGED edvars
  /\ component # "graph" => UNCHANGED grvars
  /\ component # "rules" => UNCHANGED revars
  /\ component # "integrations" => UNCHANGED syvars
  /\ component # "tools" => UNCHANGED tovars
  /\ component # "alerts" => UNCHANGED alvars
  /\ component # "desk" => UNCHANGED devars
  /\ component # "sessions" => UNCHANGED sevars
  /\ \/ component = "setup" /\ SetupNext
     \/ component = "providers" /\ ProvidersNext
     \/ component = "operations" /\ OperationsNext
     \/ component = "editors" /\ EditorsNext
     \/ component = "graph" /\ GraphNext
     \/ component = "rules" /\ RuleEngineNext
     \/ component = "integrations" /\ IntegrationsNext
     \/ component = "tools" /\ ToolsNext
     \/ component = "alerts" /\ AlertsNext
     \/ component = "desk" /\ DeskNext
     \/ component = "sessions" /\ SessionsNext

MCSpec == MCInit /\ [][MCNext]_<<services, component>>

\* Every service's state is of its type.
ServicesTypeOK ==
  /\ SetupTypeOK /\ ProvidersTypeOK /\ OperationsTypeOK /\ EditorsTypeOK /\ GraphTypeOK
  /\ RuleEngineTypeOK /\ IntegrationsTypeOK /\ ToolsTypeOK /\ AlertsTypeOK /\ DeskTypeOK
  /\ SessionsTypeOK
=============================================================================
