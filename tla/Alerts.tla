------------------------------- MODULE Alerts -------------------------------
(***************************************************************************)
(* Alerts of a tenant's rules, twice: the rows of alert_instances, which   *)
(* the persistent service looks up in one statement and inserts or updates *)
(* in another, by calls that overlap, and which the status page            *)
(* acknowledges; and the service in memory, which the alert worker uses    *)
(* and whose calls run to their end at once.                               *)
(***************************************************************************)
EXTENDS Naturals

CONSTANTS
  Evaluators,   \* calls of evaluate and acknowledge
  AlertIds,
  AlertRules

VARIABLES
  alerts,       \* the rows
  evaluation,   \* each call under way
  opened,       \* rules whose threshold was exceeded in some evaluation
  memory        \* the map of the service in memory, by rule

alvars == <<alerts, evaluation, opened, memory>>
-----------------------------------------------------------------------------
Active == {"open", "acknowledged", "escalated"}

AlertRow == [rule : AlertRules, status : Active \cup {"resolved"}]

NoAlert == [status |-> "none"]

Ready == [pc |-> "idle"]

Evaluation ==
  [pc : {"insert", "resolve"}, rule : AlertRules] \cup [pc : {"acknowledge"}, id : AlertIds]

AlertsInit ==
  /\ alerts = [i \in AlertIds |-> NoAlert]
  /\ evaluation = [v \in Evaluators |-> Ready]
  /\ opened = {}
  /\ memory = [r \in AlertRules |-> "none"]

ActiveOf(r) == {i \in AlertIds : alerts[i].status \in Active /\ alerts[i].rule = r}

EndCall(v) == evaluation' = [evaluation EXCEPT ![v] = Ready]

-----------------------------------------------------------------------------
(* The rows *)

\* The select, and what it decides: with nothing to do, the call ends.
SelectAlert(v, r, exceeded) ==
  /\ evaluation[v] = Ready
  /\ opened' = IF exceeded THEN opened \cup {r} ELSE opened
  /\ exceeded <=> ActiveOf(r) = {}
  /\ evaluation' =
       [evaluation EXCEPT ![v] = [pc |-> IF exceeded THEN "insert" ELSE "resolve", rule |-> r]]
  /\ UNCHANGED <<alerts, memory>>

NoIndex(r) == TRUE

\* The partial unique index of active rows by rule.
OneActiveRule(r) == ActiveOf(r) = {}

InsertAlert(v, i) ==
  /\ evaluation[v].pc = "insert"
  /\ alerts[i] = NoAlert
  /\ OneActiveRule(evaluation[v].rule)
  /\ alerts' = [alerts EXCEPT ![i] = [rule |-> evaluation[v].rule, status |-> "open"]]
  /\ EndCall(v)
  /\ UNCHANGED <<opened, memory>>

\* The update takes whichever rows of the rule are active by then.
ResolveAlerts(v) ==
  /\ evaluation[v].pc = "resolve"
  /\ alerts' = [i \in AlertIds |-> IF i \in ActiveOf(evaluation[v].rule)
                                   THEN [alerts[i] EXCEPT !.status = "resolved"] ELSE alerts[i]]
  /\ EndCall(v)
  /\ UNCHANGED <<opened, memory>>

\* The service's acknowledge finds the row whatever its status.
FindAlert(v, i) ==
  /\ evaluation[v] = Ready
  /\ alerts[i] # NoAlert
  /\ evaluation' = [evaluation EXCEPT ![v] = [pc |-> "acknowledge", id |-> i]]
  /\ UNCHANGED <<alerts, opened, memory>>

\* A resolved alert becomes active again, unless the rule has another.
AcknowledgeFound(v) ==
  LET i == evaluation[v].id
  IN /\ evaluation[v].pc = "acknowledge"
     /\ alerts[i].status \in Active \/ OneActiveRule(alerts[i].rule)
     /\ alerts' = [alerts EXCEPT ![i].status = "acknowledged"]
     /\ EndCall(v)
     /\ UNCHANGED <<opened, memory>>

\* A statement is rejected, by the index or otherwise, or the process ends.
EvaluationFails(v) ==
  /\ evaluation[v] # Ready
  /\ EndCall(v)
  /\ UNCHANGED <<alerts, opened, memory>>

\* The page's route, one statement.
AcknowledgeOnPage(i) ==
  /\ alerts[i].status \in {"open", "escalated"}
  /\ alerts' = [alerts EXCEPT ![i].status = "acknowledged"]
  /\ UNCHANGED <<evaluation, opened, memory>>

-----------------------------------------------------------------------------
(* The service in memory *)

Evaluated(status, exceeded) ==
  IF exceeded THEN IF status \in Active THEN status ELSE "open"
  ELSE IF status = "none" THEN "none" ELSE "resolved"

\* One batch of the worker: the signals' evaluations, then what is due.
EvaluateAlertBatch(exceeded, due) ==
  /\ memory' = [r \in AlertRules |->
       LET status == Evaluated(memory[r], r \in exceeded)
       IN IF status = "open" /\ r \in due THEN "escalated" ELSE status]
  /\ UNCHANGED <<alerts, evaluation, opened>>

AcknowledgeInMemory(r) ==
  /\ memory[r] # "none"
  /\ memory' = [memory EXCEPT ![r] = "acknowledged"]
  /\ UNCHANGED <<alerts, evaluation, opened>>

-----------------------------------------------------------------------------
EvaluateAlerts(v) ==
  \/ \E r \in AlertRules, exceeded \in BOOLEAN : SelectAlert(v, r, exceeded)
  \/ \E i \in AlertIds : InsertAlert(v, i) \/ FindAlert(v, i)
  \/ ResolveAlerts(v) \/ AcknowledgeFound(v) \/ EvaluationFails(v)

AlertsNext ==
  \/ \E v \in Evaluators : EvaluateAlerts(v)
  \/ \E i \in AlertIds : AcknowledgeOnPage(i)
  \/ \E exceeded, due \in SUBSET AlertRules : EvaluateAlertBatch(exceeded, due)
  \/ \E r \in AlertRules : AcknowledgeInMemory(r)

AlertsSpec == AlertsInit /\ [][AlertsNext]_alvars

-----------------------------------------------------------------------------
AlertsTypeOK ==
  /\ alerts \in [AlertIds -> AlertRow \cup {NoAlert}]
  /\ evaluation \in [Evaluators -> Evaluation \cup {Ready}]
  /\ opened \subseteq AlertRules
  /\ memory \in [AlertRules -> Active \cup {"resolved", "none"}]

\* Two evaluations that both found nothing, an insert against an acknowledgement that
\* brings a resolved alert back, a resolution against a second alert: a rule never has two
\* active alerts, and none at all if its threshold was never exceeded.
OneAlertPerRule ==
  \A r \in AlertRules :
    /\ \A i, j \in ActiveOf(r) : i = j
    /\ ActiveOf(r) # {} => r \in opened
=============================================================================
