---------------------------- MODULE ServiceProofs ----------------------------
(***************************************************************************)
(* Theorems about the services whose calls overlap at an await: alerts,    *)
(* the execution of rules, synchronisation, AI tools, and the editors, for *)
(* any calls, rules, records, tools and documents; and about the graph of  *)
(* an automation, for graphs of any size.                                  *)
(***************************************************************************)
EXTENDS Alerts, RuleEngine, Integrations, Tools, Editors, AutomationGraph, FiniteSetTheorems,
        TLAPS

-----------------------------------------------------------------------------
(* Alerts *)

\* Where an alert comes from: each row's rule was exceeded, a call that inserts found its
\* rule exceeded, and one that acknowledges found a row.
AlertsHaveCause ==
  /\ \A i \in AlertIds : alerts[i] # NoAlert => alerts[i].rule \in opened
  /\ \A v \in Evaluators :
       /\ evaluation[v].pc = "insert" => evaluation[v].rule \in opened
       /\ evaluation[v].pc = "acknowledge" => alerts[evaluation[v].id] # NoAlert

AlertsIInv == AlertsTypeOK /\ AlertsHaveCause /\ OneAlertPerRule

\* The null row is none, and is not active.
LEMMA AlertRows ==
  /\ NoAlert \notin AlertRow /\ NoAlert.status = "none" /\ "none" \notin Active
  /\ Ready \notin Evaluation /\ Ready.pc = "idle"
  /\ \A x \in Evaluation : x.pc \in {"insert", "resolve"} => x.rule \in AlertRules
  /\ \A x \in Evaluation : x.pc = "acknowledge" => x.id \in AlertIds
  BY DEF NoAlert, AlertRow, Active, Ready, Evaluation

\* A call that ends changes no row's cause.
LEMMA CallEnds ==
  ASSUME AlertsTypeOK, NEW v \in Evaluators, EndCall(v)
  PROVE  /\ evaluation' \in [Evaluators -> Evaluation \cup {Ready}]
         /\ \A x \in Evaluators : evaluation'[x] = evaluation[x] \/ evaluation'[x].pc = "idle"
  BY AlertRows DEF AlertsTypeOK, EndCall

\* A row that becomes active has the only active one of its rule.
LEMMA RowActivated ==
  ASSUME AlertsIInv, NEW i \in AlertIds, NEW row \in AlertRow,
         row.rule \in opened,
         \/ alerts[i] \in AlertRow /\ alerts[i].status \in Active /\ alerts[i].rule = row.rule
         \/ ActiveOf(row.rule) = {},
         alerts' = [alerts EXCEPT ![i] = row],
         evaluation' \in [Evaluators -> Evaluation \cup {Ready}],
         \A x \in Evaluators : evaluation'[x] = evaluation[x] \/ evaluation'[x].pc = "idle",
         UNCHANGED <<opened, memory>>
  PROVE  AlertsIInv'
<1>1. /\ alerts' \in [AlertIds -> AlertRow \cup {NoAlert}] /\ alerts'[i] = row
      /\ \A j \in AlertIds \ {i} : alerts'[j] = alerts[j]
  BY DEF AlertsIInv, AlertsTypeOK
<1>2. AlertsTypeOK'
  BY <1>1 DEF AlertsIInv, AlertsTypeOK
<1>3. AlertsHaveCause'
  BY <1>1, AlertRows DEF AlertsIInv, AlertsHaveCause
<1>4. \A r \in AlertRules, j \in AlertIds :
        j \in ActiveOf(r)' => j \in ActiveOf(r) \/ (j = i /\ r = row.rule)
  BY <1>1 DEF ActiveOf
<1>5. \A j \in ActiveOf(row.rule) : j = i
  BY DEF AlertsIInv, OneAlertPerRule, ActiveOf, AlertRow
<1>6. OneAlertPerRule'
  BY <1>4, <1>5 DEF AlertsIInv, OneAlertPerRule, ActiveOf
<1> QED
  BY <1>2, <1>3, <1>6 DEF AlertsIInv

\* The invariant holds at first.
LEMMA AlertsInitInv == AlertsInit => AlertsIInv
<1> SUFFICES ASSUME AlertsInit PROVE AlertsIInv
  OBVIOUS
<1>1. AlertsTypeOK
  BY DEF AlertsInit, AlertsTypeOK
<1>2. AlertsHaveCause
  BY AlertRows DEF AlertsInit, AlertsHaveCause
<1>3. OneAlertPerRule
  BY AlertRows DEF AlertsInit, OneAlertPerRule, ActiveOf
<1> QED
  BY <1>1, <1>2, <1>3 DEF AlertsIInv

\* Every step preserves it.
LEMMA AlertsNextInv == AlertsIInv /\ [AlertsNext]_alvars => AlertsIInv'
<1> SUFFICES ASSUME AlertsIInv, [AlertsNext]_alvars PROVE AlertsIInv'
  OBVIOUS
<1>0. AlertsTypeOK /\ AlertsHaveCause /\ OneAlertPerRule
  BY DEF AlertsIInv
<1>1. ASSUME NEW v \in Evaluators, NEW r \in AlertRules, NEW exceeded \in BOOLEAN,
             SelectAlert(v, r, exceeded)
      PROVE  AlertsIInv'
  <2> DEFINE x == [pc |-> IF exceeded THEN "insert" ELSE "resolve", rule |-> r]
  <2>1. /\ x \in Evaluation /\ x.pc \in {"insert", "resolve"} /\ x.rule = r
        /\ x.pc = "insert" => r \in opened'
    BY <1>1 DEF Evaluation, SelectAlert
  <2>2. /\ evaluation' = [evaluation EXCEPT ![v] = x] /\ opened \subseteq opened'
        /\ opened' \subseteq AlertRules /\ UNCHANGED <<alerts, memory>>
    BY <1>0, <1>1 DEF SelectAlert, AlertsTypeOK
  <2> HIDE DEF x
  <2>3. AlertsTypeOK'
    BY <1>0, <2>1, <2>2 DEF AlertsTypeOK
  <2>4. AlertsHaveCause'
    BY <1>0, <2>1, <2>2 DEF AlertsHaveCause, AlertsTypeOK
  <2>5. OneAlertPerRule'
    BY <1>0, <2>2 DEF OneAlertPerRule, ActiveOf
  <2> QED
    BY <2>3, <2>4, <2>5 DEF AlertsIInv
<1>2. ASSUME NEW v \in Evaluators, NEW i \in AlertIds, InsertAlert(v, i) PROVE AlertsIInv'
  <2> DEFINE row == [rule |-> evaluation[v].rule, status |-> "open"]
  <2>1. evaluation[v].rule \in AlertRules /\ evaluation[v].rule \in opened
    BY <1>0, <1>2, AlertRows DEF InsertAlert, AlertsTypeOK, AlertsHaveCause
  <2>2. row \in AlertRow /\ row.rule = evaluation[v].rule
    BY <2>1 DEF AlertRow, Active
  <2>3. alerts' = [alerts EXCEPT ![i] = row] /\ ActiveOf(row.rule) = {}
    BY <1>2 DEF InsertAlert, OneActiveRule
  <2> HIDE DEF row
  <2> QED
    BY <1>0, <1>2, <2>1, <2>2, <2>3, CallEnds, RowActivated DEF InsertAlert
<1>3. ASSUME NEW v \in Evaluators, ResolveAlerts(v) PROVE AlertsIInv'
  <2> DEFINE r == evaluation[v].rule
  <2>1. \A i \in AlertIds :
          /\ i \in ActiveOf(r) => alerts'[i] \in AlertRow /\ alerts'[i].status = "resolved"
                                  /\ alerts'[i].rule = alerts[i].rule
          /\ i \notin ActiveOf(r) => alerts'[i] = alerts[i]
    <3> SUFFICES ASSUME NEW i \in AlertIds
                 PROVE  /\ i \in ActiveOf(r) =>
                             /\ alerts'[i] \in AlertRow /\ alerts'[i].status = "resolved"
                             /\ alerts'[i].rule = alerts[i].rule
                        /\ i \notin ActiveOf(r) => alerts'[i] = alerts[i]
      OBVIOUS
    <3>1. i \in ActiveOf(r) => alerts[i] \in AlertRow
      BY <1>0, AlertRows DEF ActiveOf, AlertsTypeOK
    <3>2. i \in ActiveOf(r) => alerts'[i] = [alerts[i] EXCEPT !.status = "resolved"]
      BY <1>3 DEF ResolveAlerts
    <3>3. i \notin ActiveOf(r) => alerts'[i] = alerts[i]
      BY <1>3 DEF ResolveAlerts
    <3> QED
      BY <3>1, <3>2, <3>3 DEF AlertRow
  <2>2. /\ evaluation' \in [Evaluators -> Evaluation \cup {Ready}]
        /\ \A x \in Evaluators : evaluation'[x] = evaluation[x] \/ evaluation'[x].pc = "idle"
        /\ UNCHANGED <<opened, memory>>
    BY <1>0, <1>3, CallEnds DEF ResolveAlerts
  <2>3. alerts' \in [AlertIds -> AlertRow \cup {NoAlert}]
    <3>1. alerts' = [i \in AlertIds |-> alerts'[i]]
      BY <1>3 DEF ResolveAlerts
    <3> QED
      BY <1>0, <2>1, <3>1 DEF AlertsTypeOK
  <2> HIDE DEF r
  <2>4. AlertsTypeOK'
    BY <1>0, <2>2, <2>3 DEF AlertsTypeOK
  <2>5. AlertsHaveCause'
    <3>1. \A i \in AlertIds : alerts'[i] # NoAlert =>
            alerts[i] # NoAlert /\ alerts'[i].rule = alerts[i].rule
      BY <2>1, AlertRows DEF ActiveOf
    <3>2. \A i \in AlertIds : alerts[i] # NoAlert => alerts'[i] # NoAlert
      BY <2>1, AlertRows
    <3> QED
      BY <1>0, <2>2, <3>1, <3>2, AlertRows DEF AlertsHaveCause, AlertsTypeOK
  <2>6. \A q \in AlertRules : ActiveOf(q)' \subseteq ActiveOf(q)
    BY <2>1 DEF ActiveOf, Active
  <2>7. OneAlertPerRule'
    BY <1>0, <2>2, <2>6 DEF OneAlertPerRule
  <2> QED
    BY <2>4, <2>5, <2>7 DEF AlertsIInv
<1>4. ASSUME NEW v \in Evaluators, NEW i \in AlertIds, FindAlert(v, i) PROVE AlertsIInv'
  <2> DEFINE x == [pc |-> "acknowledge", id |-> i]
  <2>1. x \in Evaluation /\ x.pc = "acknowledge" /\ x.id = i
    BY DEF Evaluation
  <2>2. /\ evaluation' = [evaluation EXCEPT ![v] = x] /\ alerts[i] # NoAlert
        /\ UNCHANGED <<alerts, opened, memory>>
    BY <1>4 DEF FindAlert
  <2> HIDE DEF x
  <2>3. AlertsTypeOK' /\ AlertsHaveCause'
    BY <1>0, <2>1, <2>2 DEF AlertsTypeOK, AlertsHaveCause
  <2>4. OneAlertPerRule'
    BY <1>0, <2>2 DEF OneAlertPerRule, ActiveOf
  <2> QED
    BY <2>3, <2>4 DEF AlertsIInv
<1>5. ASSUME NEW v \in Evaluators, AcknowledgeFound(v) PROVE AlertsIInv'
  <2> DEFINE i == evaluation[v].id
             row == [rule |-> alerts[i].rule, status |-> "acknowledged"]
  <2>1. i \in AlertIds /\ alerts[i] \in AlertRow /\ alerts[i].rule \in opened
    BY <1>0, <1>5, AlertRows DEF AcknowledgeFound, AlertsTypeOK, AlertsHaveCause
  <2>2. row \in AlertRow /\ row.rule = alerts[i].rule
    BY <2>1 DEF AlertRow, Active
  <2>3. [alerts[i] EXCEPT !.status = "acknowledged"] = row
    BY <2>1 DEF AlertRow
  <2>4. alerts' = [alerts EXCEPT ![i] = row]
    BY <1>0, <1>5, <2>1, <2>3 DEF AcknowledgeFound, AlertsTypeOK
  <2>5. alerts[i].status \in Active \/ ActiveOf(row.rule) = {}
    BY <1>5 DEF AcknowledgeFound, OneActiveRule
  <2> HIDE DEF row, i
  <2> QED
    BY <1>0, <1>5, <2>1, <2>2, <2>4, <2>5, CallEnds, RowActivated DEF AcknowledgeFound
<1>6. ASSUME NEW v \in Evaluators, EvaluationFails(v) PROVE AlertsIInv'
  <2>1. /\ evaluation' \in [Evaluators -> Evaluation \cup {Ready}]
        /\ \A x \in Evaluators : evaluation'[x] = evaluation[x] \/ evaluation'[x].pc = "idle"
        /\ UNCHANGED <<alerts, opened, memory>>
    BY <1>0, <1>6, CallEnds DEF EvaluationFails
  <2>2. AlertsTypeOK' /\ AlertsHaveCause'
    BY <1>0, <2>1 DEF AlertsTypeOK, AlertsHaveCause
  <2>3. OneAlertPerRule'
    BY <1>0, <2>1 DEF OneAlertPerRule, ActiveOf
  <2> QED
    BY <2>2, <2>3 DEF AlertsIInv
<1>7. ASSUME NEW i \in AlertIds, AcknowledgeOnPage(i) PROVE AlertsIInv'
  <2> DEFINE row == [rule |-> alerts[i].rule, status |-> "acknowledged"]
  <2>1. alerts[i] \in AlertRow /\ alerts[i].status \in Active /\ alerts[i].rule \in opened
    BY <1>0, <1>7, AlertRows DEF AcknowledgeOnPage, AlertsTypeOK, AlertsHaveCause, Active
  <2>2. row \in AlertRow /\ row.rule = alerts[i].rule
    BY <2>1 DEF AlertRow, Active
  <2>3. [alerts[i] EXCEPT !.status = "acknowledged"] = row
    BY <2>1 DEF AlertRow
  <2>4. alerts' = [alerts EXCEPT ![i] = row]
    BY <1>0, <1>7, <2>3 DEF AcknowledgeOnPage, AlertsTypeOK
  <2> HIDE DEF row
  <2>5. evaluation' = evaluation /\ evaluation \in [Evaluators -> Evaluation \cup {Ready}]
    BY <1>0, <1>7 DEF AcknowledgeOnPage, AlertsTypeOK
  <2> QED
    BY <1>7, <2>1, <2>2, <2>4, <2>5, RowActivated DEF AcknowledgeOnPage
<1>8. ASSUME memory' \in [AlertRules -> Active \cup {"resolved", "none"}],
             UNCHANGED <<alerts, evaluation, opened>>
      PROVE  AlertsIInv'
  BY <1>0, <1>8 DEF AlertsIInv, AlertsTypeOK, AlertsHaveCause, OneAlertPerRule, ActiveOf
<1>9. ASSUME NEW exceeded \in SUBSET AlertRules, NEW due \in SUBSET AlertRules,
             EvaluateAlertBatch(exceeded, due)
      PROVE  AlertsIInv'
  <2>1. \A r \in AlertRules : memory[r] \in Active \cup {"resolved", "none"}
    BY <1>0 DEF AlertsTypeOK
  <2>2. \A r \in AlertRules :
          Evaluated(memory[r], r \in exceeded) \in Active \cup {"resolved", "none"}
    BY <2>1 DEF Evaluated, Active
  <2> QED
    BY <1>8, <1>9, <2>2 DEF EvaluateAlertBatch, Active
<1>10. ASSUME NEW r \in AlertRules, AcknowledgeInMemory(r) PROVE AlertsIInv'
  BY <1>0, <1>8, <1>10 DEF AcknowledgeInMemory, AlertsTypeOK, Active
<1>11. CASE UNCHANGED alvars
  BY <1>0, <1>8, <1>11 DEF alvars, AlertsTypeOK
<1> QED
  BY <1>1, <1>2, <1>3, <1>4, <1>5, <1>6, <1>7, <1>9, <1>10, <1>11
  DEF AlertsNext, EvaluateAlerts

\* However the calls of the alert service overlap, fail or reopen an alert, and whatever
\* the status page acknowledges, a rule has one active alert at most, and a cause for it.
THEOREM OneActiveAlert == AlertsSpec => []OneAlertPerRule
<1>1. AlertsIInv => OneAlertPerRule
  BY DEF AlertsIInv
<1> QED
  BY <1>1, AlertsInitInv, AlertsNextInv, PTL DEF AlertsSpec

-----------------------------------------------------------------------------
(* Synchronisation *)

\* What was read before the adapter was awaited is below the threshold, and no more than
\* the failures that happened; a circuit that counts the threshold's failures is open.
CountsAreReal ==
  /\ \A c \in Calls : sync_call[c] # NoSync =>
       sync_call[c].count < Threshold /\ sync_call[c].count <= failures
  /\ ~ circuit.open => circuit.failures < Threshold

IntegrationsIInv == IntegrationsTypeOK /\ CountsAreReal /\ SyncIsAttested

\* A call under way is a record of what it read.
LEMMA SyncCalls ==
  /\ NoSync.pc = "idle" /\ NoSync \notin SyncCall
  /\ \A x \in SyncCall :
       /\ x.pc = "await" /\ x.entity \in Entities /\ x.version \in 0 .. MaxVersion
       /\ x.external \in 0 .. MaxExternal /\ x.count \in 0 .. Threshold
  BY DEF NoSync, SyncCall

\* The invariant holds at first.
LEMMA IntegrationsInitInv == IntegrationsInit => IntegrationsIInv
<1> SUFFICES ASSUME IntegrationsInit PROVE IntegrationsIInv
  OBVIOUS
<1> USE IntegrationsAssumption DEF IntegrationsAssumption
<1>1. IntegrationsTypeOK
  BY DEF IntegrationsInit, IntegrationsTypeOK, SyncRecord, Circuit
<1>2. CountsAreReal
  BY DEF IntegrationsInit, CountsAreReal
<1>3. SyncIsAttested
  BY DEF IntegrationsInit, SyncIsAttested
<1> QED
  BY <1>1, <1>2, <1>3 DEF IntegrationsIInv

\* An answer writes one record; a record called synced was accepted.
LEMMA AnswerStep ==
  ASSUME IntegrationsIInv, NEW c \in Calls, sync_call[c].pc = "await",
         NEW status \in {"synced", "conflict", "retryable_failure"},
         NEW ext \in 0 .. MaxExternal, Answered(c, status, ext),
         status = "synced" => <<sync_call[c].entity, sync_call[c].version, ext>> \in accepted',
         accepted \subseteq accepted', accepted' \subseteq Entities \X (0 .. MaxVersion) \X (0 .. MaxExternal),
         external' \in [Entities -> 0 .. MaxExternal],
         failures' \in 0 .. Threshold, failures <= failures',
         circuit' \in Circuit, circuit'.failures <= failures',
         ~ circuit'.open => circuit'.failures < Threshold,
         circuit'.open => failures' >= Threshold
  PROVE  IntegrationsIInv'
<1> USE IntegrationsAssumption DEF IntegrationsAssumption
<1> DEFINE e == sync_call[c].entity
           row == [status |-> status, version |-> sync_call[c].version, external |-> ext]
<1>1. IntegrationsTypeOK /\ sync_call[c] \in SyncCall
  BY SyncCalls DEF IntegrationsIInv, IntegrationsTypeOK
<1>2. row \in SyncRecord /\ e \in Entities /\ row.status = status
      /\ row.version = sync_call[c].version /\ row.external = ext
  BY <1>1, SyncCalls DEF SyncRecord
<1>3. /\ sync_record' = [sync_record EXCEPT ![e] = row]
      /\ sync_call' = [sync_call EXCEPT ![c] = NoSync]
  BY DEF Answered
<1>4. <<e, row.version, row.external>> \in accepted' \/ row.status # "synced"
  BY <1>2
<1> HIDE DEF row, e
<1>5. IntegrationsTypeOK'
  BY <1>1, <1>2, <1>3 DEF IntegrationsTypeOK
<1>6. \A x \in Calls : sync_call'[x] # NoSync => sync_call'[x] = sync_call[x]
  BY <1>1, <1>3 DEF IntegrationsTypeOK
<1>7. failures \in Nat /\ failures' \in Nat /\ \A x \in Calls : sync_call[x] # NoSync => sync_call[x].count \in Nat
  BY <1>1, SyncCalls DEF IntegrationsTypeOK
<1>8. CountsAreReal'
  BY <1>6, <1>7 DEF IntegrationsIInv, CountsAreReal
<1>9. \A x \in Entities : sync_record'[x].status = "synced" =>
        <<x, sync_record'[x].version, sync_record'[x].external>> \in accepted'
  <2> SUFFICES ASSUME NEW x \in Entities, sync_record'[x].status = "synced"
               PROVE  <<x, sync_record'[x].version, sync_record'[x].external>> \in accepted'
    OBVIOUS
  <2>1. CASE x = e
    BY <1>1, <1>2, <1>3, <1>4, <2>1 DEF IntegrationsTypeOK
  <2>2. CASE x # e
    BY <1>1, <1>3, <2>2 DEF IntegrationsIInv, IntegrationsTypeOK, SyncIsAttested
  <2> QED
    BY <2>1, <2>2
<1>10. SyncIsAttested'
  BY <1>9 DEF SyncIsAttested
<1> QED
  BY <1>5, <1>8, <1>10 DEF IntegrationsIInv

\* Every step preserves it.
LEMMA IntegrationsNextInv ==
  IntegrationsIInv /\ [IntegrationsNext]_syvars => IntegrationsIInv'
<1> SUFFICES ASSUME IntegrationsIInv, [IntegrationsNext]_syvars PROVE IntegrationsIInv'
  OBVIOUS
<1> USE IntegrationsAssumption DEF IntegrationsAssumption
<1>0. /\ IntegrationsTypeOK /\ CountsAreReal /\ SyncIsAttested
      /\ circuit \in Circuit /\ circuit.failures \in Nat /\ failures \in Nat
      /\ circuit.open \in BOOLEAN
  BY DEF IntegrationsIInv, IntegrationsTypeOK, Circuit
<1>1. ASSUME NEW c \in Calls, NEW e \in Entities, NEW v \in 0 .. MaxVersion, BeginSync(c, e, v)
      PROVE  IntegrationsIInv'
  <2> DEFINE x == [pc |-> "await", entity |-> e, version |-> v,
                   external |-> sync_record[e].external, count |-> circuit.failures]
  <2>1. x \in SyncCall /\ x.count = circuit.failures
    BY <1>0 DEF IntegrationsTypeOK, SyncRecord, SyncCall, Circuit
  <2>2. /\ sync_call' = [sync_call EXCEPT ![c] = x] /\ ~ circuit.open
        /\ UNCHANGED <<sync_record, circuit, external, accepted, failures>>
    BY <1>1 DEF BeginSync
  <2> HIDE DEF x
  <2>3. IntegrationsTypeOK'
    BY <1>0, <2>1, <2>2 DEF IntegrationsTypeOK
  <2>4. CountsAreReal'
    BY <1>0, <2>1, <2>2 DEF CountsAreReal, IntegrationsTypeOK, SyncIsAttested
  <2>5. SyncIsAttested'
    BY <1>0, <2>2 DEF SyncIsAttested
  <2> QED
    BY <2>3, <2>4, <2>5 DEF IntegrationsIInv
<1>2. ASSUME NEW c \in Calls, SyncAccepted(c) PROVE IntegrationsIInv'
  <2> DEFINE e == sync_call[c].entity
             ext == external[e] + 1
  <2>1. /\ e \in Entities /\ sync_call[c].version \in 0 .. MaxVersion
        /\ external[e] \in 0 .. MaxExternal /\ external[e] < MaxExternal
    BY <1>0, <1>2, SyncCalls DEF IntegrationsTypeOK, SyncAccepted
  <2>2. ext \in 0 .. MaxExternal
    BY <2>1
  <2>3. /\ external' = [external EXCEPT ![e] = ext] /\ failures' = failures
        /\ accepted' = accepted \cup {<<e, sync_call[c].version, ext>>}
        /\ Answered(c, "synced", ext) /\ circuit' = [failures |-> 0, open |-> FALSE]
        /\ sync_call[c].pc = "await"
    BY <1>2 DEF SyncAccepted
  <2> HIDE DEF ext, e
  <2>4. /\ external' \in [Entities -> 0 .. MaxExternal]
        /\ accepted' \subseteq Entities \X (0 .. MaxVersion) \X (0 .. MaxExternal)
        /\ <<e, sync_call[c].version, ext>> \in accepted' /\ accepted \subseteq accepted'
    BY <1>0, <2>1, <2>2, <2>3 DEF IntegrationsTypeOK
  <2>5. circuit' \in Circuit /\ circuit'.failures = 0 /\ ~ circuit'.open
    BY <2>3 DEF Circuit
  <2>6. failures' \in 0 .. Threshold /\ failures <= failures' /\ circuit'.failures <= failures'
        /\ circuit'.failures < Threshold
    BY <1>0, <2>3, <2>5 DEF IntegrationsTypeOK
  <2> QED
    BY <2>2, <2>3, <2>4, <2>5, <2>6, AnswerStep DEF e
<1>3. ASSUME NEW c \in Calls, SyncConflict(c) PROVE IntegrationsIInv'
  <2>1. sync_call[c].external \in 0 .. MaxExternal /\ sync_call[c].pc = "await"
    BY <1>0, <1>3, SyncCalls DEF IntegrationsTypeOK, SyncConflict
  <2>2. /\ Answered(c, "conflict", sync_call[c].external)
        /\ UNCHANGED <<circuit, external, accepted, failures>>
    BY <1>3 DEF SyncConflict
  <2>3. /\ circuit.failures <= failures /\ (circuit.open => failures >= Threshold)
        /\ (~ circuit.open => circuit.failures < Threshold)
        /\ failures \in 0 .. Threshold /\ external \in [Entities -> 0 .. MaxExternal]
        /\ accepted \subseteq Entities \X (0 .. MaxVersion) \X (0 .. MaxExternal)
    BY <1>0 DEF SyncIsAttested, CountsAreReal, IntegrationsTypeOK
  <2> QED
    BY <1>0, <2>1, <2>2, <2>3, AnswerStep
<1>4. ASSUME NEW c \in Calls, SyncFailed(c) PROVE IntegrationsIInv'
  <2> DEFINE n == sync_call[c].count + 1
  <2>1. /\ sync_call[c].external \in 0 .. MaxExternal /\ sync_call[c].pc = "await"
        /\ sync_call[c].count \in Nat /\ sync_call[c] # NoSync
    BY <1>0, <1>4, SyncCalls DEF IntegrationsTypeOK, SyncFailed
  <2>2. sync_call[c].count < Threshold /\ sync_call[c].count <= failures
        /\ failures \in 0 .. Threshold
    BY <1>0, <2>1 DEF CountsAreReal, IntegrationsTypeOK
  <2>3. /\ Answered(c, "retryable_failure", sync_call[c].external)
        /\ failures' = IF failures < Threshold THEN failures + 1 ELSE failures
        /\ circuit' = [failures |-> n, open |-> n >= Threshold]
        /\ UNCHANGED <<external, accepted>>
    BY <1>4 DEF SyncFailed, Opens
  <2>4. /\ failures' \in 0 .. Threshold /\ failures <= failures' /\ n <= failures'
        /\ n \in 0 .. Threshold /\ (n >= Threshold => failures' >= Threshold)
    BY <2>1, <2>2, <2>3
  <2>5. (n >= Threshold) \in BOOLEAN
    OBVIOUS
  <2> HIDE DEF n
  <2>6. circuit' \in Circuit /\ circuit'.failures = n /\ circuit'.open = (n >= Threshold)
    BY <2>3, <2>4, <2>5 DEF Circuit
  <2>7. /\ circuit'.failures <= failures'
        /\ (circuit'.open => failures' >= Threshold)
        /\ (~ circuit'.open => circuit'.failures < Threshold)
    <3>1. CASE n >= Threshold
      BY <2>4, <2>6, <3>1
    <3>2. CASE ~ (n >= Threshold)
      <4>1. n \in 0 .. Threshold /\ Threshold \in Nat
        BY <2>4
      <4>2. n < Threshold
        BY <3>2, <4>1
      <4> QED
        BY <2>4, <2>6, <3>2, <4>2
    <3> QED
      BY <3>1, <3>2
  <2>8. /\ external' \in [Entities -> 0 .. MaxExternal] /\ accepted' = accepted
        /\ accepted \subseteq Entities \X (0 .. MaxVersion) \X (0 .. MaxExternal)
    BY <1>0, <2>3 DEF IntegrationsTypeOK
  <2> QED
    BY <2>1, <2>3, <2>4, <2>6, <2>7, <2>8, AnswerStep
<1>5. ASSUME NEW c \in Calls, SyncThrows(c) PROVE IntegrationsIInv'
  <2>1. /\ sync_call' = [sync_call EXCEPT ![c] = NoSync]
        /\ UNCHANGED <<sync_record, circuit, external, accepted, failures>>
    BY <1>5 DEF SyncThrows
  <2> QED
    BY <1>0, <2>1 DEF IntegrationsIInv, IntegrationsTypeOK, CountsAreReal, SyncIsAttested
<1>6. CASE UNCHANGED syvars
  BY <1>0, <1>6 DEF IntegrationsIInv, IntegrationsTypeOK, CountsAreReal, SyncIsAttested, syvars
<1> QED
  BY <1>1, <1>2, <1>3, <1>4, <1>5, <1>6 DEF IntegrationsNext, Sync

\* A record is called synced only with what the integration accepted for it, and a circuit
\* opens only after the threshold's failures, whatever stale reads SyncService writes back.
THEOREM AttestedSync == IntegrationsSpec => []SyncIsAttested
<1>1. IntegrationsIInv => SyncIsAttested
  BY DEF IntegrationsIInv
<1> QED
  BY <1>1, IntegrationsInitInv, IntegrationsNextInv, PTL DEF IntegrationsSpec

-----------------------------------------------------------------------------
(* AI tools *)

\* The preview under an id has that id, is the last its actor was shown under it, and is of
\* a tool some context of the actor allowed.
PreviewsAreShown ==
  \A id \in PreviewId : previews[id] # NoPreview =>
    /\ IdOf(previews[id]) = id
    /\ last_shown[<<previews[id].actor, id>>] = previews[id].input
    /\ previews[id].tool \in UNION Capabilities[previews[id].actor]

\* What an execution under way must satisfy: the first conjunct of OnlyWhatWasShown.
RunOk(e) ==
  /\ e.by = e.preview.actor
  /\ e.shown = e.preview.input
  /\ e.preview.tool \in UNION Capabilities[e.by]
  /\ e.preview.tool \in IrreversibleTools => e.confirmed

RunsAreShown == \A c \in ToolCalls : executing[c] # NotExecuting => RunOk(executing[c])

ResultsAreOfTheirKey ==
  \A k \in OperationKey : operations[k] # NoResult => KeyOf(operations[k].preview) = k

\* The calls under way under a key.
Awaiting(k) ==
  {c \in ToolCalls : executing[c] # NotExecuting /\ KeyOf(executing[c].preview) = k}

\* Once a key has a result no call begins under it: those that still run are all that can
\* settle it again.
KeyOk(k) ==
  IF operations[k] = NoResult
    THEN settled[k] = 0
    ELSE settled[k] + Cardinality(Awaiting(k)) <= Cardinality(ToolCalls)

SettledByOverlaps == \A k \in OperationKey : KeyOk(k)

ToolsIInv ==
  /\ ToolsTypeOK
  /\ PreviewsAreShown
  /\ RunsAreShown
  /\ ResultsAreOfTheirKey
  /\ SettledByOverlaps

\* The calls under a key are finitely many, and no more than there are.
LEMMA AwaitingIsFinite ==
  ASSUME NEW k
  PROVE  /\ IsFiniteSet(Awaiting(k)) /\ Cardinality(Awaiting(k)) \in Nat
         /\ Cardinality(ToolCalls) \in Nat
         /\ Cardinality(Awaiting(k)) <= Cardinality(ToolCalls)
<1>1. IsFiniteSet(ToolCalls) /\ Awaiting(k) \subseteq ToolCalls
  BY ToolsAssumption DEF ToolsAssumption, Awaiting
<1> QED
  BY <1>1, FS_Subset, FS_CardinalityType

\* Calls that end, while nothing else changes, disturb no key.
LEMMA FewerAwaiting ==
  ASSUME ToolsTypeOK, SettledByOverlaps, NEW k \in OperationKey,
         Awaiting(k)' \subseteq Awaiting(k), operations'[k] = operations[k],
         settled'[k] = settled[k]
  PROVE  KeyOk(k)'
<1>1. KeyOk(k) /\ settled[k] \in Nat
  BY DEF SettledByOverlaps, ToolsTypeOK
<1>2. /\ IsFiniteSet(Awaiting(k)) /\ Cardinality(Awaiting(k)) \in Nat
      /\ Cardinality(ToolCalls) \in Nat
  BY AwaitingIsFinite
<1>3. Cardinality(Awaiting(k)') \in Nat /\ Cardinality(Awaiting(k)') <= Cardinality(Awaiting(k))
  BY <1>2, FS_Subset, FS_CardinalityType
<1> QED
  BY <1>1, <1>2, <1>3 DEF KeyOk

\* The invariant gives the property.
LEMMA ToolsProperty == ToolsIInv => OnlyWhatWasShown
<1> SUFFICES ASSUME ToolsIInv PROVE OnlyWhatWasShown
  OBVIOUS
<1>1. ASSUME NEW k \in OperationKey PROVE settled[k] <= Cardinality(ToolCalls)
  <2>1. KeyOk(k) /\ settled[k] \in Nat
    BY DEF ToolsIInv, SettledByOverlaps, ToolsTypeOK
  <2> QED
    BY <2>1, AwaitingIsFinite DEF KeyOk
<1> QED
  BY <1>1 DEF ToolsIInv, OnlyWhatWasShown, RunsAreShown, RunOk, ResultsAreOfTheirKey

\* The invariant holds at first.
LEMMA ToolsInitInv == ToolsInit => ToolsIInv
  BY DEF ToolsInit, ToolsIInv, ToolsTypeOK, PreviewsAreShown, RunsAreShown,
         ResultsAreOfTheirKey, SettledByOverlaps, KeyOk

\* Every step preserves it.
LEMMA ToolsNextInv == ToolsIInv /\ [ToolsNext]_tovars => ToolsIInv'
<1> SUFFICES ASSUME ToolsIInv, [ToolsNext]_tovars PROVE ToolsIInv'
  OBVIOUS
<1>0. /\ ToolsTypeOK /\ PreviewsAreShown /\ RunsAreShown /\ ResultsAreOfTheirKey
      /\ SettledByOverlaps
  BY DEF ToolsIInv
<1>1. ASSUME NEW p \in Preview, NEW capabilities \in Capabilities[p.actor],
             PreviewTool(p, capabilities)
      PROVE  ToolsIInv'
  <2> DEFINE i == IdOf(p)
  <2>1. /\ previews' = [previews EXCEPT ![i] = p]
        /\ last_shown' = [last_shown EXCEPT ![<<p.actor, i>>] = p.input]
        /\ UNCHANGED <<operations, executing, settled>>
        /\ p.tool \in UNION Capabilities[p.actor]
    BY <1>1 DEF PreviewTool
  <2>2. i \in PreviewId /\ p.actor \in Actors /\ p.input \in Inputs
    BY DEF IdOf, KeyOf, PreviewId, OperationKey, Preview
  <2>3. IdOf(p) = i
    OBVIOUS
  <2> HIDE DEF i
  <2>4. ToolsTypeOK'
    BY <1>0, <2>1, <2>2 DEF ToolsTypeOK
  <2>5. ASSUME NEW id \in PreviewId, previews'[id] # NoPreview
        PROVE  /\ IdOf(previews'[id]) = id
               /\ last_shown'[<<previews'[id].actor, id>>] = previews'[id].input
               /\ previews'[id].tool \in UNION Capabilities[previews'[id].actor]
    <3>1. CASE id = i
      BY <1>0, <2>1, <2>2, <2>3, <3>1 DEF ToolsTypeOK
    <3>2. CASE id # i
      <4>1. previews'[id] = previews[id]
        BY <1>0, <2>1, <3>2 DEF ToolsTypeOK
      <4>2. last_shown'[<<previews[id].actor, id>>] = last_shown[<<previews[id].actor, id>>]
        <5>1. previews[id].actor \in Actors
          BY <1>0, <2>5, <4>1 DEF ToolsTypeOK, Preview
        <5> QED
          BY <1>0, <2>1, <3>2, <5>1 DEF ToolsTypeOK
      <4> QED
        BY <1>0, <2>5, <4>1, <4>2 DEF PreviewsAreShown
    <3> QED
      BY <3>1, <3>2
  <2>6. PreviewsAreShown'
    BY <2>5 DEF PreviewsAreShown, IdOf, KeyOf
  <2>7. RunsAreShown' /\ ResultsAreOfTheirKey' /\ SettledByOverlaps'
    BY <1>0, <2>1 DEF RunsAreShown, ResultsAreOfTheirKey, SettledByOverlaps, KeyOk, Awaiting
  <2> QED
    BY <2>4, <2>6, <2>7 DEF ToolsIInv
<1>2. ASSUME NEW c \in ToolCalls, NEW a \in Actors, NEW id \in PreviewId,
             NEW confirmation \in PreviewId, NEW key \in ToolKeys,
             BeginExecute(c, a, id, key, confirmation)
      PROVE  ToolsIInv'
  <2> DEFINE p == previews[id]
             e == [by |-> a, preview |-> p, shown |-> last_shown[<<a, id>>],
                   confirmed |-> confirmation = id]
  <2>1. /\ p # NoPreview /\ p.actor = a /\ operations[KeyOf(p)] = NoResult
        /\ p.tool \in IrreversibleTools => confirmation = IdOf(p)
        /\ executing' = [executing EXCEPT ![c] = e]
        /\ UNCHANGED <<previews, last_shown, operations, settled>>
    BY <1>2 DEF BeginExecute, Owned
  <2>2. p \in Preview /\ last_shown[<<a, id>>] \in Inputs \cup {NoInput}
    BY <1>0, <2>1 DEF ToolsTypeOK
  <2>3. IdOf(p) = id /\ last_shown[<<a, id>>] = p.input /\ p.tool \in UNION Capabilities[a]
    BY <1>0, <2>1 DEF PreviewsAreShown
  <2>4. e \in Execution /\ RunOk(e) /\ e.preview = p
    BY <2>1, <2>2, <2>3 DEF Execution, RunOk
  <2> HIDE DEF p, e
  <2>5. ToolsTypeOK'
    BY <1>0, <2>1, <2>4 DEF ToolsTypeOK
  <2>6. \A d \in ToolCalls : executing'[d] = executing[d] \/ (d = c /\ executing'[d] = e)
    BY <1>0, <2>1 DEF ToolsTypeOK
  <2>7. RunsAreShown'
    BY <1>0, <2>4, <2>6 DEF RunsAreShown, RunOk
  <2>8. ASSUME NEW k \in OperationKey PROVE KeyOk(k)'
    <3>1. CASE k = KeyOf(p)
      BY <1>0, <2>1, <3>1 DEF SettledByOverlaps, KeyOk
    <3>2. CASE k # KeyOf(p)
      <4>1. Awaiting(k)' \subseteq Awaiting(k)
        BY <2>4, <2>6, <3>2 DEF Awaiting, KeyOf
      <4> QED
        BY <1>0, <2>1, <4>1, FewerAwaiting
    <3> QED
      BY <3>1, <3>2
  <2>9. PreviewsAreShown' /\ ResultsAreOfTheirKey' /\ SettledByOverlaps'
    BY <1>0, <2>1, <2>8 DEF PreviewsAreShown, ResultsAreOfTheirKey, SettledByOverlaps
  <2> QED
    BY <2>5, <2>7, <2>9 DEF ToolsIInv
<1>3. ASSUME NEW c \in ToolCalls, FinishExecute(c) PROVE ToolsIInv'
  <2> DEFINE p == executing[c].preview
  <2>1. PICK outcome \in {"completed", "unknown"} :
          operations' = [operations EXCEPT ![KeyOf(p)] = [outcome |-> outcome, preview |-> p]]
    BY <1>3 DEF FinishExecute
  <2>2. PICK k : k = KeyOf(p)
    OBVIOUS
  <2> DEFINE r == [outcome |-> outcome, preview |-> p]
  <2>3. /\ executing[c] # NotExecuting /\ executing' = [executing EXCEPT ![c] = NotExecuting]
        /\ operations' = [operations EXCEPT ![k] = r]
        /\ settled' = [settled EXCEPT ![k] = settled[k] + 1]
        /\ UNCHANGED <<previews, last_shown>>
    BY <1>3, <2>2, <2>1 DEF FinishExecute
  <2>4. p \in Preview
    BY <1>0, <2>3 DEF ToolsTypeOK, Execution
  <2>5. r \in Result /\ r.preview = p /\ r # NoResult
    BY <2>4 DEF Result, NoResult
  <2>6. k \in OperationKey /\ k = KeyOf(p)
    BY <2>2, <2>4 DEF KeyOf, OperationKey, Preview
  <2>7. c \in Awaiting(k)
    BY <2>2, <2>3 DEF Awaiting
  <2> HIDE DEF p, r
  <2>8. ToolsTypeOK'
    BY <1>0, <2>3, <2>5, <2>6 DEF ToolsTypeOK
  <2>9. \A d \in ToolCalls : executing'[d] = IF d = c THEN NotExecuting ELSE executing[d]
    BY <1>0, <2>3 DEF ToolsTypeOK
  <2>10. RunsAreShown' /\ PreviewsAreShown'
    <3>1. RunsAreShown'
      BY <1>0, <2>9 DEF RunsAreShown, RunOk
    <3>2. PreviewsAreShown'
      BY <1>0, <2>3 DEF PreviewsAreShown
    <3> QED
      BY <3>1, <3>2
  <2>11. ResultsAreOfTheirKey'
    BY <1>0, <2>3, <2>5, <2>6 DEF ResultsAreOfTheirKey, ToolsTypeOK, KeyOf
  <2>12. ASSUME NEW j \in OperationKey PROVE KeyOk(j)'
    <3>1. CASE j = k
      <4>1. Awaiting(k)' = Awaiting(k) \ {c}
        BY <2>9 DEF Awaiting, KeyOf
      <4>2. /\ Cardinality(Awaiting(k)') = Cardinality(Awaiting(k)) - 1
            /\ Cardinality(Awaiting(k)) \in Nat /\ Cardinality(ToolCalls) \in Nat
            /\ Cardinality(Awaiting(k)) <= Cardinality(ToolCalls)
        BY <2>7, <4>1, AwaitingIsFinite, FS_RemoveElement
      <4>3. operations'[k] = r /\ settled'[k] = settled[k] + 1 /\ settled[k] \in Nat
        BY <1>0, <2>3, <2>6 DEF ToolsTypeOK
      <4>4. KeyOk(k)
        BY <1>0, <2>6 DEF SettledByOverlaps
      <4>5. settled'[k] + Cardinality(Awaiting(k)') <= Cardinality(ToolCalls)
        BY <4>2, <4>3, <4>4 DEF KeyOk
      <4> QED
        BY <2>5, <3>1, <4>3, <4>5 DEF KeyOk
    <3>2. CASE j # k
      <4>1. Awaiting(j)' \subseteq Awaiting(j)
        BY <2>9 DEF Awaiting, KeyOf
      <4>2. operations'[j] = operations[j] /\ settled'[j] = settled[j]
        BY <1>0, <2>3, <3>2 DEF ToolsTypeOK
      <4> QED
        BY <1>0, <4>1, <4>2, FewerAwaiting
    <3> QED
      BY <3>1, <3>2
  <2>13. SettledByOverlaps'
    BY <2>12 DEF SettledByOverlaps
  <2> QED
    BY <2>8, <2>10, <2>11, <2>13 DEF ToolsIInv
<1>4. ASSUME NEW c \in ToolCalls, ToolFails(c) PROVE ToolsIInv'
  <2>1. /\ executing' = [executing EXCEPT ![c] = NotExecuting]
        /\ UNCHANGED <<previews, last_shown, operations, settled>>
    BY <1>4 DEF ToolFails
  <2>2. ToolsTypeOK'
    BY <1>0, <2>1 DEF ToolsTypeOK
  <2>3. \A d \in ToolCalls : executing'[d] = IF d = c THEN NotExecuting ELSE executing[d]
    BY <1>0, <2>1 DEF ToolsTypeOK
  <2>4. PreviewsAreShown' /\ RunsAreShown' /\ ResultsAreOfTheirKey'
    <3>1. RunsAreShown'
      BY <1>0, <2>3 DEF RunsAreShown, RunOk
    <3>2. PreviewsAreShown' /\ ResultsAreOfTheirKey'
      BY <1>0, <2>1 DEF PreviewsAreShown, ResultsAreOfTheirKey
    <3> QED
      BY <3>1, <3>2
  <2>5. ASSUME NEW k \in OperationKey PROVE KeyOk(k)'
    <3>1. Awaiting(k)' \subseteq Awaiting(k)
      BY <2>3 DEF Awaiting, KeyOf
    <3> QED
      BY <1>0, <2>1, <3>1, FewerAwaiting
  <2>6. SettledByOverlaps'
    BY <2>5 DEF SettledByOverlaps
  <2> QED
    BY <2>2, <2>4, <2>6 DEF ToolsIInv
<1>5. CASE ToolsRestart
  <2>1. ToolsInit'
    BY <1>5 DEF ToolsRestart, ToolsInit
  <2>2. ToolsTypeOK'
    BY <2>1 DEF ToolsInit, ToolsTypeOK
  <2>3. PreviewsAreShown' /\ RunsAreShown' /\ ResultsAreOfTheirKey' /\ SettledByOverlaps'
    BY <2>1 DEF ToolsInit, PreviewsAreShown, RunsAreShown, ResultsAreOfTheirKey,
                SettledByOverlaps, KeyOk
  <2> QED
    BY <2>2, <2>3 DEF ToolsIInv
<1>6. CASE UNCHANGED tovars
  <2>1. /\ ToolsTypeOK' /\ PreviewsAreShown' /\ RunsAreShown' /\ ResultsAreOfTheirKey'
    BY <1>0, <1>6 DEF tovars, ToolsTypeOK, PreviewsAreShown, RunsAreShown,
                      ResultsAreOfTheirKey
  <2>2. SettledByOverlaps'
    BY <1>0, <1>6 DEF tovars, SettledByOverlaps, KeyOk, Awaiting
  <2> QED
    BY <2>1, <2>2 DEF ToolsIInv
<1> QED
  BY <1>1, <1>2, <1>3, <1>4, <1>5, <1>6 DEF ToolsNext

\* However calls overlap, fail, reuse each other's ids or are forgotten by a restart, a tool
\* runs on what its own caller was last shown and confirmed under the id it names, a key
\* answers with a result of its own tenant, and only calls that overlap settle it again.
THEOREM ShownThenRun == ToolsSpec => []OnlyWhatWasShown
  BY ToolsProperty, ToolsInitInv, ToolsNextInv, PTL DEF ToolsSpec

-----------------------------------------------------------------------------
(* The editors *)

\* A draft that can still be edited is the last saved content and has no version; one with
\* versions was published, and is the last of them.
DraftsAreSaved ==
  \A d \in Documents :
    /\ draft[d] # NoDraft => saves[d] # <<>>
    /\ draft[d] # NoDraft /\ draft[d].status = "draft" =>
         /\ draft[d].content = saves[d][Len(saves[d])].to
         /\ draft[d].content \in ValidContents
         /\ versions[d] = <<>>
    /\ versions[d] # <<>> => draft[d] # NoDraft /\ saves[d] # <<>>

\* An editor holds a revision that was, and the content that revision had.
EditorsAreRevisions ==
  \A a \in Authors : editor[a] # Closed =>
    LET d == editor[a].document
    IN /\ saves[d] # <<>>
       /\ draft[d] # NoDraft =>
            /\ editor[a].revision <= draft[d].revision
            /\ draft[d].status = "draft" /\ editor[a].revision = draft[d].revision
                 => editor[a].received = draft[d].content

EditorsIInv == EditorsTypeOK /\ DraftsAreSaved /\ EditorsAreRevisions /\ NoEditLost

\* The null values are none, and what the others are made of.
LEMMA EditorShapes ==
  /\ NoDraft \notin Draft /\ NoDraft.status = "none" /\ Closed \notin OpenEditor
  /\ \A x \in Draft : /\ x.status \in {"draft", "published"} /\ x.tenant \in Tenants
                      /\ x.content \in Contents /\ x.revision \in 1 .. MaxRevision
  /\ \A x \in OpenEditor : /\ x.document \in Documents /\ x.revision \in 1 .. MaxRevision
                           /\ x.received \in Contents /\ x.content \in Contents
  BY DEF NoDraft, Draft, Closed, OpenEditor

\* What an answer shows is the content and the revision of the draft it is of.
LEMMA ShowStep ==
  ASSUME EditorsTypeOK, NEW a \in Authors, NEW d \in Documents, NEW n \in 1 .. MaxRevision,
         NEW c \in Contents, Show(a, d, n, c) \/ UNCHANGED editor
  PROVE  /\ editor' \in [Authors -> OpenEditor \cup {Closed}]
         /\ \A b \in Authors :
              \/ editor'[b] = editor[b]
              \/ /\ editor'[b] \in OpenEditor /\ editor'[b].document = d
                 /\ editor'[b].revision = n /\ editor'[b].received = c
<1> DEFINE x == [document |-> d, revision |-> n, received |-> c, content |-> c]
<1>1. x \in OpenEditor /\ x.document = d /\ x.revision = n /\ x.received = c
  BY DEF OpenEditor
<1>2. editor' = [editor EXCEPT ![a] = x] \/ editor' = editor
  BY DEF Show
<1> HIDE DEF x
<1> QED
  BY <1>1, <1>2 DEF EditorsTypeOK

\* The invariant holds at first.
LEMMA EditorsInitInv == EditorsInit => EditorsIInv
<1> SUFFICES ASSUME EditorsInit PROVE EditorsIInv
  OBVIOUS
<1>1. EditorsTypeOK
  BY DEF EditorsInit, EditorsTypeOK
<1>2. DraftsAreSaved /\ EditorsAreRevisions
  BY DEF EditorsInit, DraftsAreSaved, EditorsAreRevisions
<1>3. NoEditLost
  BY DEF EditorsInit, NoEditLost
<1> QED
  BY <1>1, <1>2, <1>3 DEF EditorsIInv

\* A document's first draft.
LEMMA CreateStep ==
  ASSUME EditorsIInv, NEW a \in Authors, NEW d \in Documents, NEW c \in Contents,
         CreateDraft(a, d, c)
  PROVE  EditorsIInv'
<1> USE EditorsAssumption DEF EditorsAssumption
<1> DEFINE row == [status |-> "draft", tenant |-> TenantOf[a], content |-> c, revision |-> 1]
           save == [from |-> c, to |-> c]
<1>0. EditorsTypeOK /\ DraftsAreSaved /\ EditorsAreRevisions /\ NoEditLost
  BY DEF EditorsIInv
<1>1. /\ row \in Draft /\ row # NoDraft /\ row.content = c /\ row.revision = 1
      /\ row.status = "draft" /\ save \in Save /\ save.to = c
  BY EditorShapes DEF Draft, Save
<1>2. /\ draft' = [draft EXCEPT ![d] = row] /\ saves' = [saves EXCEPT ![d] = <<save>>]
      /\ UNCHANGED versions /\ saves[d] = <<>> /\ c \in ValidContents
  BY DEF CreateDraft
<1>3. /\ editor' \in [Authors -> OpenEditor \cup {Closed}]
      /\ \A b \in Authors :
           \/ editor'[b] = editor[b]
           \/ /\ editor'[b] \in OpenEditor /\ editor'[b].document = d
              /\ editor'[b].revision = 1 /\ editor'[b].received = c
  <2>1. 1 \in 1 .. MaxRevision /\ (Show(a, d, 1, c) \/ UNCHANGED editor)
    BY DEF CreateDraft
  <2> QED
    BY <1>0, <2>1, ShowStep
<1> HIDE DEF row, save
<1>4. /\ draft'[d] = row /\ saves'[d] = <<save>> /\ <<save>> # <<>> /\ Len(<<save>>) = 1
      /\ <<save>>[1] = save /\ <<save>> \in Seq(Save)
      /\ \A x \in Documents \ {d} : draft'[x] = draft[x] /\ saves'[x] = saves[x]
  BY <1>0, <1>1, <1>2 DEF EditorsTypeOK
<1>5. versions[d] = <<>>
  BY <1>0, <1>2 DEF DraftsAreSaved
<1>6. EditorsTypeOK'
  BY <1>0, <1>1, <1>2, <1>3, <1>4 DEF EditorsTypeOK
<1>7. DraftsAreSaved'
  BY <1>0, <1>1, <1>2, <1>4, <1>5, SMTT(30) DEF DraftsAreSaved
<1>8. EditorsAreRevisions'
  <2> SUFFICES ASSUME NEW b \in Authors, editor'[b] # Closed
               PROVE  LET e == editor'[b].document
                      IN /\ saves'[e] # <<>>
                         /\ draft'[e] # NoDraft =>
                              /\ editor'[b].revision <= draft'[e].revision
                              /\ draft'[e].status = "draft"
                                   /\ editor'[b].revision = draft'[e].revision
                                   => editor'[b].received = draft'[e].content
    BY DEF EditorsAreRevisions
  <2>1. CASE editor'[b] = editor[b]
    <3>1. editor[b] \in OpenEditor /\ editor[b].document \in Documents
      BY <1>0, <2>1, EditorShapes DEF EditorsTypeOK
    <3>2. editor[b].document # d
      BY <1>0, <1>2, <2>1 DEF EditorsAreRevisions
    <3> QED
      BY <1>0, <1>4, <2>1, <3>1, <3>2 DEF EditorsAreRevisions
  <2>2. CASE /\ editor'[b].document = d
             /\ editor'[b].revision = 1 /\ editor'[b].received = c
    <3>1. /\ saves'[d] # <<>> /\ draft'[d].revision = 1 /\ draft'[d].content = c
      BY <1>1, <1>4
    <3>2. editor'[b].revision <= draft'[d].revision /\ editor'[b].received = draft'[d].content
      BY <2>2, <3>1
    <3> QED
      BY <2>2, <3>1, <3>2
  <2> QED
    BY <1>3, <2>1, <2>2
<1>9. NoEditLost'
  BY <1>0, <1>1, <1>2, <1>4, <1>5 DEF NoEditLost
<1> QED
  BY <1>6, <1>7, <1>8, <1>9 DEF EditorsIInv

\* What appending does.
LEMMA Appended ==
  ASSUME NEW S, NEW s \in Seq(S), NEW x \in S
  PROVE  /\ Append(s, x) \in Seq(S) /\ Append(s, x) # <<>>
         /\ Len(s) \in Nat /\ Len(Append(s, x)) = Len(s) + 1
         /\ Append(s, x)[Len(s) + 1] = x
         /\ \A i \in 1 .. Len(s) : Append(s, x)[i] = s[i]
         /\ DOMAIN s = 1 .. Len(s) /\ DOMAIN Append(s, x) = 1 .. Len(s) + 1
  OBVIOUS

\* A save: the content it was made from is the one saved before.
LEMMA SaveStep ==
  ASSUME EditorsIInv, NEW a \in Authors, SaveDraft(a)
  PROVE  EditorsIInv'
<1> USE EditorsAssumption DEF EditorsAssumption
<1> DEFINE e == editor[a]
           d == editor[a].document
           n == draft[d].revision + 1
           save == [from |-> e.received, to |-> e.content]
           row == [draft[d] EXCEPT !.content = e.content, !.revision = n]
<1>0. EditorsTypeOK /\ DraftsAreSaved /\ EditorsAreRevisions /\ NoEditLost
  BY DEF EditorsIInv
<1>1. /\ e \in OpenEditor /\ e # Closed /\ d \in Documents /\ e.revision \in 1 .. MaxRevision
      /\ e.received \in Contents /\ e.content \in Contents /\ e.content \in ValidContents
  BY <1>0, EditorShapes DEF SaveDraft, EditorsTypeOK
<1>2. /\ draft[d] \in Draft /\ draft[d] # NoDraft /\ draft[d].status = "draft"
      /\ draft[d].revision = e.revision /\ draft[d].revision < MaxRevision
  BY <1>0, <1>1, EditorShapes DEF SaveDraft, Editable, Found, EditorsTypeOK
<1>3. n \in 1 .. MaxRevision /\ n = e.revision + 1 /\ draft[d].revision < n
      /\ \A m \in 1 .. MaxRevision : m <= draft[d].revision => m < n
  BY <1>1, <1>2
<1>4. /\ row \in Draft /\ row.status = "draft" /\ row.content = e.content /\ row.revision = n
      /\ row # NoDraft /\ save \in Save /\ save.from = e.received /\ save.to = e.content
  BY <1>1, <1>2, <1>3, EditorShapes DEF Draft, Save
<1>5. /\ saves[d] # <<>> /\ e.received = draft[d].content
      /\ draft[d].content = saves[d][Len(saves[d])].to /\ versions[d] = <<>>
  BY <1>0, <1>1, <1>2 DEF DraftsAreSaved, EditorsAreRevisions
<1>6. /\ draft' = [draft EXCEPT ![d] = row] /\ saves' = [saves EXCEPT ![d] = Append(@, save)]
      /\ UNCHANGED versions /\ (Show(a, d, n, e.content) \/ UNCHANGED editor)
  <2>1. draft' = [draft EXCEPT ![d].content = e.content, ![d].revision = @ + 1]
    BY DEF SaveDraft
  <2>2. draft' = [draft EXCEPT ![d] = row]
    BY <1>0, <1>1, <1>2, <2>1 DEF EditorsTypeOK
  <2> QED
    BY <1>3, <2>2 DEF SaveDraft
<1>7. /\ editor' \in [Authors -> OpenEditor \cup {Closed}]
      /\ \A b \in Authors :
           \/ editor'[b] = editor[b]
           \/ /\ editor'[b] \in OpenEditor /\ editor'[b].document = d
              /\ editor'[b].revision = n /\ editor'[b].received = e.content
  BY <1>0, <1>1, <1>3, <1>6, ShowStep
<1> HIDE DEF row, save, n
<1>8. /\ draft'[d] = row /\ saves'[d] = Append(saves[d], save)
      /\ \A x \in Documents \ {d} : draft'[x] = draft[x] /\ saves'[x] = saves[x]
  BY <1>0, <1>1, <1>6 DEF EditorsTypeOK
<1>9. /\ saves[d] \in Seq(Save) /\ saves'[d] \in Seq(Save) /\ saves'[d] # <<>>
      /\ Len(saves'[d]) = Len(saves[d]) + 1 /\ saves'[d][Len(saves[d]) + 1] = save
      /\ \A i \in 1 .. Len(saves[d]) : saves'[d][i] = saves[d][i]
  <2>1. saves[d] \in Seq(Save) /\ save \in Save
    BY <1>0, <1>1, <1>4 DEF EditorsTypeOK
  <2> HIDE DEF d
  <2> QED
    BY <1>8, <2>1, Appended
<1>10. EditorsTypeOK'
  BY <1>0, <1>1, <1>4, <1>6, <1>7, <1>9 DEF EditorsTypeOK
<1>11. DraftsAreSaved'
  <2>1. saves'[d][Len(saves'[d])].to = e.content /\ versions'[d] = <<>>
    BY <1>4, <1>5, <1>6, <1>9
  <2>2. /\ draft'[d].content = e.content /\ draft'[d].status = "draft"
        /\ e.content \in ValidContents /\ saves'[d] # <<>>
    BY <1>1, <1>4, <1>8, <1>9
  <2>3. \A x \in Documents \ {d} : draft'[x] = draft[x] /\ saves'[x] = saves[x]
                                     /\ versions'[x] = versions[x]
    BY <1>6, <1>8
  <2> HIDE DEF d, e
  <2> QED
    BY <1>0, <2>1, <2>2, <2>3 DEF DraftsAreSaved
<1>12. EditorsAreRevisions'
  <2> SUFFICES ASSUME NEW b \in Authors, editor'[b] # Closed
               PROVE  /\ saves'[editor'[b].document] # <<>>
                      /\ draft'[editor'[b].document] # NoDraft =>
                           /\ editor'[b].revision <= draft'[editor'[b].document].revision
                           /\ draft'[editor'[b].document].status = "draft"
                                /\ editor'[b].revision = draft'[editor'[b].document].revision
                                => editor'[b].received = draft'[editor'[b].document].content
    BY DEF EditorsAreRevisions
  <2>1. CASE editor'[b] = editor[b]
    <3>1. /\ editor[b] \in OpenEditor /\ editor[b].document \in Documents
          /\ editor[b].revision \in 1 .. MaxRevision
      BY <1>0, <2>1, EditorShapes DEF EditorsTypeOK
    <3>2. CASE editor[b].document # d
      BY <1>0, <1>8, <2>1, <3>1, <3>2 DEF EditorsAreRevisions
    <3>3. CASE editor[b].document = d
      <4>1. editor[b].revision <= draft[d].revision
        BY <1>0, <1>2, <2>1, <3>3 DEF EditorsAreRevisions
      <4>2. editor[b].revision < n
        BY <1>3, <3>1, <4>1
      <4>3. editor[b].revision <= draft'[d].revision /\ editor[b].revision # draft'[d].revision
        BY <1>3, <1>4, <1>8, <3>1, <4>2
      <4> QED
        BY <1>9, <2>1, <3>3, <4>3
    <3> QED
      BY <3>2, <3>3
  <2>2. CASE /\ editor'[b].document = d
             /\ editor'[b].revision = n /\ editor'[b].received = e.content
    <3>1. n <= n
      BY <1>3
    <3> QED
      BY <1>4, <1>8, <1>9, <2>2, <3>1
  <2> QED
    BY <1>7, <2>1, <2>2
<1>13. NoEditLost'
  <2>1. \A x \in Documents \ {d} : draft'[x] = draft[x] /\ saves'[x] = saves[x]
                                     /\ versions'[x] = versions[x]
    BY <1>6, <1>8
  <2>2. \A i \in 2 .. Len(saves'[d]) : saves'[d][i].from = saves'[d][i - 1].to
    <3> SUFFICES ASSUME NEW i \in 2 .. Len(saves'[d])
                 PROVE  saves'[d][i].from = saves'[d][i - 1].to
      OBVIOUS
    <3>0. Len(saves[d]) \in Nat /\ Len(saves[d]) > 0
      BY <1>5, <1>9
    <3>1. CASE i = Len(saves[d]) + 1
      <4>1. i - 1 = Len(saves[d]) /\ i - 1 \in 1 .. Len(saves[d])
        BY <3>0, <3>1
      <4> QED
        BY <1>4, <1>5, <1>9, <3>1, <4>1
    <3>2. CASE i # Len(saves[d]) + 1
      <4>1. i \in 2 .. Len(saves[d]) /\ i \in 1 .. Len(saves[d])
            /\ i - 1 \in 1 .. Len(saves[d])
        BY <1>9, <3>0, <3>2
      <4> QED
        BY <1>0, <1>1, <1>9, <4>1 DEF NoEditLost
    <3> QED
      BY <3>1, <3>2
  <2>3. versions'[d] = <<>> /\ DOMAIN versions'[d] = {}
    BY <1>5, <1>6
  <2> QED
    BY <1>0, <1>1, <2>1, <2>2, <2>3, SMTT(30) DEF NoEditLost
<1> QED
  BY <1>10, <1>11, <1>12, <1>13 DEF EditorsIInv

\* A version is added to a draft that is no longer editable: the last saved content.
LEMMA VersionStep ==
  ASSUME EditorsIInv, NEW d \in Documents, draft[d] # NoDraft,
         NEW row \in Draft, row.status = "published", draft[d].revision <= row.revision,
         NEW version \in Version, version.content = row.content,
         row.content = saves[d][Len(saves[d])].to, row.content \in ValidContents,
         draft' = [draft EXCEPT ![d] = row],
         versions' = [versions EXCEPT ![d] = Append(@, version)],
         UNCHANGED <<saves, editor>>
  PROVE  EditorsIInv'
<1> USE EditorsAssumption DEF EditorsAssumption
<1>0. EditorsTypeOK /\ DraftsAreSaved /\ EditorsAreRevisions /\ NoEditLost
  BY DEF EditorsIInv
<1>1. /\ draft'[d] = row /\ versions'[d] = Append(versions[d], version) /\ row # NoDraft
      /\ \A x \in Documents \ {d} : draft'[x] = draft[x] /\ versions'[x] = versions[x]
  BY <1>0, EditorShapes DEF EditorsTypeOK
<1>2. /\ versions[d] \in Seq(Version) /\ versions'[d] \in Seq(Version) /\ versions'[d] # <<>>
      /\ Len(versions'[d]) = Len(versions[d]) + 1
      /\ versions'[d][Len(versions[d]) + 1] = version
      /\ \A i \in DOMAIN versions'[d] :
           i = Len(versions[d]) + 1
             \/ (i \in DOMAIN versions[d] /\ versions'[d][i] = versions[d][i])
  <2>1. versions[d] \in Seq(Version)
    BY <1>0 DEF EditorsTypeOK
  <2>2. /\ versions'[d] \in Seq(Version) /\ versions'[d] # <<>> /\ Len(versions[d]) \in Nat
        /\ Len(versions'[d]) = Len(versions[d]) + 1
        /\ versions'[d][Len(versions[d]) + 1] = version
        /\ \A i \in 1 .. Len(versions[d]) : versions'[d][i] = versions[d][i]
        /\ DOMAIN versions[d] = 1 .. Len(versions[d])
        /\ DOMAIN versions'[d] = 1 .. Len(versions[d]) + 1
    BY <1>1, <2>1, Appended
  <2> QED
    BY <2>1, <2>2
<1>3. EditorsTypeOK'
  BY <1>0, <1>2 DEF EditorsTypeOK
<1>4. DraftsAreSaved'
  BY <1>0, <1>1, <1>2 DEF DraftsAreSaved
<1>5. EditorsAreRevisions'
  <2> SUFFICES ASSUME NEW b \in Authors, editor[b] # Closed
               PROVE  /\ saves[editor[b].document] # <<>>
                      /\ draft'[editor[b].document] # NoDraft =>
                           /\ editor[b].revision <= draft'[editor[b].document].revision
                           /\ draft'[editor[b].document].status = "draft"
                                /\ editor[b].revision = draft'[editor[b].document].revision
                                => editor[b].received = draft'[editor[b].document].content
    BY DEF EditorsAreRevisions
  <2>1. /\ editor[b].document \in Documents /\ editor[b].revision \in 1 .. MaxRevision
        /\ draft[d].revision \in 1 .. MaxRevision /\ row.revision \in 1 .. MaxRevision
    BY <1>0, EditorShapes DEF EditorsTypeOK
  <2>2. CASE editor[b].document = d
    <3>1. editor[b].revision <= draft[d].revision /\ saves[d] # <<>>
      BY <1>0, <2>2 DEF EditorsAreRevisions
    <3>2. editor[b].revision <= row.revision
      BY <2>1, <3>1
    <3> QED
      BY <1>1, <2>2, <3>1, <3>2
  <2>3. CASE editor[b].document # d
    BY <1>0, <1>1, <2>1, <2>3 DEF EditorsAreRevisions
  <2> QED
    BY <2>2, <2>3
<1>6. NoEditLost'
  BY <1>0, <1>1, <1>2 DEF NoEditLost
<1> QED
  BY <1>3, <1>4, <1>5, <1>6 DEF EditorsIInv

\* Every step preserves it.
LEMMA EditorsNextInv == EditorsIInv /\ [EditorsNext]_edvars => EditorsIInv'
<1> SUFFICES ASSUME EditorsIInv, [EditorsNext]_edvars PROVE EditorsIInv'
  OBVIOUS
<1> USE EditorsAssumption DEF EditorsAssumption
<1>0. EditorsTypeOK /\ DraftsAreSaved /\ EditorsAreRevisions /\ NoEditLost
  BY DEF EditorsIInv
<1>1. ASSUME NEW a \in Authors, NEW d \in Documents, LoadDraft(a, d) PROVE EditorsIInv'
  <2>1. /\ draft[d] \in Draft /\ draft[d] # NoDraft /\ draft[d].revision \in 1 .. MaxRevision
        /\ draft[d].content \in Contents /\ saves[d] # <<>>
    BY <1>0, <1>1, EditorShapes DEF LoadDraft, Found, EditorsTypeOK, DraftsAreSaved
  <2>2. UNCHANGED <<draft, versions, saves>>
    BY <1>1 DEF LoadDraft
  <2>3. /\ editor' \in [Authors -> OpenEditor \cup {Closed}]
        /\ \A b \in Authors :
             \/ editor'[b] = editor[b]
             \/ /\ editor'[b] \in OpenEditor /\ editor'[b].document = d
                /\ editor'[b].revision = draft[d].revision
                /\ editor'[b].received = draft[d].content
    BY <1>0, <1>1, <2>1, ShowStep DEF LoadDraft
  <2>4. draft[d].revision <= draft[d].revision
    BY <2>1
  <2>5. EditorsAreRevisions'
    BY <1>0, <2>1, <2>2, <2>3, <2>4 DEF EditorsAreRevisions
  <2> QED
    BY <1>0, <2>2, <2>3, <2>5 DEF EditorsIInv, EditorsTypeOK, DraftsAreSaved, NoEditLost
<1>2. ASSUME NEW a \in Authors, NEW c \in Contents, EditContent(a, c) PROVE EditorsIInv'
  <2> DEFINE x == [editor[a] EXCEPT !.content = c]
  <2>1. editor[a] \in OpenEditor /\ editor[a] # Closed
    BY <1>0, <1>2 DEF EditContent, EditorsTypeOK
  <2>2. /\ x \in OpenEditor /\ x.document = editor[a].document
        /\ x.revision = editor[a].revision /\ x.received = editor[a].received
    BY <2>1 DEF OpenEditor
  <2>3. editor' = [editor EXCEPT ![a] = x] /\ UNCHANGED <<draft, versions, saves>>
    BY <1>0, <1>2 DEF EditContent, EditorsTypeOK
  <2> HIDE DEF x
  <2>4. EditorsAreRevisions'
    BY <1>0, <2>1, <2>2, <2>3 DEF EditorsAreRevisions, EditorsTypeOK
  <2> QED
    BY <1>0, <2>2, <2>3, <2>4
    DEF EditorsIInv, EditorsTypeOK, DraftsAreSaved, NoEditLost
<1>3. ASSUME NEW a \in Authors, PublishDraft(a) PROVE EditorsIInv'
  <2> DEFINE d == editor[a].document
             row == [draft[d] EXCEPT !.status = "published"]
             version == [content |-> draft[d].content, revision |-> draft[d].revision]
  <2>1. d \in Documents
    BY <1>0, <1>3, EditorShapes DEF PublishDraft, EditorsTypeOK
  <2>2. /\ draft[d] \in Draft /\ draft[d] # NoDraft /\ draft[d].status = "draft"
        /\ draft[d].revision \in 1 .. MaxRevision /\ draft[d].content \in Contents
        /\ draft[d].content = saves[d][Len(saves[d])].to /\ draft[d].content \in ValidContents
    BY <1>0, <1>3, <2>1, EditorShapes
    DEF PublishDraft, Editable, Found, EditorsTypeOK, DraftsAreSaved
  <2>3. /\ row \in Draft /\ row.status = "published" /\ row.revision = draft[d].revision
        /\ row.content = draft[d].content
        /\ version \in Version /\ version.content = draft[d].content
    BY <2>2 DEF Draft, Version
  <2>4. draft[d].revision <= row.revision
    BY <2>2, <2>3
  <2>5. /\ draft' = [draft EXCEPT ![d] = row]
        /\ versions' = [versions EXCEPT ![d] = Append(@, version)]
        /\ UNCHANGED <<saves, editor>>
    BY <1>0, <1>3, <2>1 DEF PublishDraft, EditorsTypeOK
  <2> HIDE DEF row, version, d
  <2> QED
    BY <2>1, <2>2, <2>3, <2>4, <2>5, VersionStep
<1>4. ASSUME NEW a \in Authors, NEW d \in Documents, NEW v \in 1 .. MaxRevision,
             RestoreVersion(a, d, v)
      PROVE  EditorsIInv'
  <2> DEFINE c == versions[d][v].content
             n == draft[d].revision + 1
             row == [[[draft[d] EXCEPT !.status = "published"] EXCEPT !.revision = n]
                      EXCEPT !.content = c]
             version == [content |-> c, revision |-> n]
  <2>1. /\ draft[d] \in Draft /\ draft[d] # NoDraft
        /\ draft[d].revision \in 1 .. MaxRevision /\ draft[d].revision < MaxRevision
    BY <1>0, <1>4, EditorShapes DEF RestoreVersion, Found, EditorsTypeOK
  <2>2. n \in 1 .. MaxRevision /\ draft[d].revision <= n
    BY <2>1
  <2>3. c = saves[d][Len(saves[d])].to /\ c \in ValidContents /\ c \in Contents
    BY <1>0, <1>4 DEF RestoreVersion, NoEditLost
  <2>4. /\ draft' = [draft EXCEPT ![d] = row]
        /\ versions' = [versions EXCEPT ![d] = Append(@, version)]
        /\ UNCHANGED <<saves, editor>>
    BY <1>0, <1>4 DEF RestoreVersion, EditorsTypeOK
  <2> HIDE DEF n, c
  <2>5. /\ row \in Draft /\ row.status = "published" /\ row.revision = n /\ row.content = c
        /\ version \in Version /\ version.content = c
    BY <2>1, <2>2, <2>3 DEF Draft, Version
  <2> HIDE DEF row, version
  <2> QED
    BY <2>1, <2>2, <2>3, <2>4, <2>5, VersionStep
<1>5. CASE ServerRestart
  <2>1. /\ draft' = [d \in Documents |-> NoDraft] /\ versions' = [d \in Documents |-> <<>>]
        /\ UNCHANGED <<saves, editor>>
    BY <1>5 DEF ServerRestart
  <2>2. EditorsTypeOK'
    BY <1>0, <2>1 DEF EditorsTypeOK
  <2>3. DraftsAreSaved'
    BY <2>1, EditorShapes DEF DraftsAreSaved
  <2>4. EditorsAreRevisions'
    <3>1. \A b \in Authors : editor[b] # Closed => editor[b].document \in Documents
      BY <1>0, EditorShapes DEF EditorsTypeOK
    <3> QED
      BY <1>0, <2>1, <3>1 DEF EditorsAreRevisions
  <2>5. NoEditLost'
    BY <1>0, <2>1 DEF NoEditLost
  <2> QED
    BY <2>2, <2>3, <2>4, <2>5 DEF EditorsIInv
<1>6. CASE UNCHANGED edvars
  BY <1>6 DEF edvars, EditorsIInv, EditorsTypeOK, DraftsAreSaved, EditorsAreRevisions,
              NoEditLost
<1>7. ASSUME NEW a \in Authors, Edit(a) PROVE EditorsIInv'
  BY <1>1, <1>2, <1>3, <1>4, <1>7, CreateStep, SaveStep DEF Edit
<1> QED
  BY <1>5, <1>6, <1>7 DEF EditorsNext

\* Whatever order several people load, save, publish and restore in, and whatever answer or
\* memory is lost, each saved content was made from the one saved before, and every version
\* is the last saved one.
THEOREM EditsAreKept == EditorsSpec => []NoEditLost
<1>1. EditorsIInv => NoEditLost
  BY DEF EditorsIInv
<1> QED
  BY <1>1, EditorsInitInv, EditorsNextInv, PTL DEF EditorsSpec

-----------------------------------------------------------------------------
(* The rule engine *)

\* The runs of a rule for an event that are about to carry out an action.
WaitingAt(k, i) ==
  {w \in Runs : /\ rule_run[w].pc = "running"
                /\ rule_run[w].key = k /\ rule_run[w].next = i}

\* An earlier action was carried out once for each time the later one was, and once more
\* for each run that waits to carry out the later one.
EarlierFirst ==
  \A k \in EventKey : \A i, j \in DOMAIN done[k] :
    i < j => done[k][i] >= done[k][j] + Cardinality(WaitingAt(k, j))

\* The tenant and the trigger of the rule are those of the event.
Meant(k) == k[1].tenant = k[2].tenant /\ k[1].trigger = k[2].type

\* A run has carried out the actions before its next one, of a rule meant for its event.
RunsAreMeant ==
  \A w \in Runs : rule_run[w] # Resting =>
    /\ Meant(rule_run[w].key)
    /\ \A i \in DOMAIN done[rule_run[w].key] :
         i < rule_run[w].next => done[rule_run[w].key][i] > 0

\* What is executed was carried out, and what was carried out was meant.
DoneIsMeant ==
  \A k \in EventKey :
    /\ k \in executed => \A i \in DOMAIN done[k] : done[k][i] > 0
    /\ \A i \in DOMAIN done[k] : done[k][i] > 0 => Meant(k)

RuleEngineIInv == RuleEngineTypeOK /\ EarlierFirst /\ RunsAreMeant /\ DoneIsMeant

\* The shapes of the runs and of the counts.
LEMMA RuleShapes ==
  /\ Resting \notin RuleRun /\ Resting.pc = "idle"
  /\ \A x \in RuleRun : /\ x.pc = "running" /\ x.key \in EventKey /\ x.next \in Nat \ {0}
                        /\ x.next <= Len(x.key[1].actions) + 1
  /\ \A k \in EventKey : /\ k[1] \in Rules /\ k[2] \in Events
                         /\ Len(k[1].actions) \in Nat
                         /\ DOMAIN k[1].actions = 1 .. Len(k[1].actions)
<1> USE RuleEngineAssumption DEF RuleEngineAssumption
<1>1. \A k \in EventKey : k[1] \in Rules /\ k[2] \in Events
  BY DEF EventKey
<1>2. \A r \in Rules : r.actions \in Seq(ActionTypes)
  OBVIOUS
<1>3. \A s \in Seq(ActionTypes) : Len(s) \in Nat /\ DOMAIN s = 1 .. Len(s)
  OBVIOUS
<1> QED
  BY <1>1, <1>2, <1>3 DEF Resting, RuleRun

\* The runs that wait are counted.
LEMMA WaitingIsFinite ==
  ASSUME NEW k, NEW i
  PROVE  IsFiniteSet(WaitingAt(k, i)) /\ Cardinality(WaitingAt(k, i)) \in Nat
<1>1. WaitingAt(k, i) \subseteq Runs /\ IsFiniteSet(Runs)
  BY RuleEngineAssumption DEF RuleEngineAssumption, WaitingAt
<1>2. IsFiniteSet(WaitingAt(k, i))
  BY <1>1, FS_Subset
<1> QED
  BY <1>2, FS_CardinalityType

\* What the invariant says of the counts.
LEMMA CountsAreTyped ==
  ASSUME RuleEngineTypeOK, NEW k \in EventKey
  PROVE  /\ DOMAIN done[k] = 1 .. Len(k[1].actions)
         /\ \A i \in DOMAIN done[k] : done[k][i] \in Nat /\ i \in Nat \ {0}
  BY RuleShapes, RuleEngineAssumption DEF RuleEngineTypeOK, RuleEngineAssumption

\* When the runs that wait are fewer and nothing is carried out, the order stays.
LEMMA FewerWait ==
  ASSUME RuleEngineIInv, UNCHANGED done, RuleEngineTypeOK',
         \A k \in EventKey : \A j \in DOMAIN done[k] :
           j > 1 => WaitingAt(k, j)' \subseteq WaitingAt(k, j)
  PROVE  EarlierFirst'
<1> SUFFICES ASSUME NEW k \in EventKey, NEW i \in DOMAIN done[k], NEW j \in DOMAIN done[k],
                    i < j
             PROVE  done[k][i] >= done[k][j] + Cardinality(WaitingAt(k, j)')
  BY DEF EarlierFirst
<1>1. done[k][i] \in Nat /\ done[k][j] \in Nat /\ i \in Nat \ {0} /\ j \in Nat \ {0}
  BY CountsAreTyped DEF RuleEngineIInv
<1>2. WaitingAt(k, j)' \subseteq WaitingAt(k, j)
  BY <1>1
<1>3. /\ IsFiniteSet(WaitingAt(k, j)) /\ Cardinality(WaitingAt(k, j)) \in Nat
  BY WaitingIsFinite
<1>4. /\ Cardinality(WaitingAt(k, j)') \in Nat
      /\ Cardinality(WaitingAt(k, j)') <= Cardinality(WaitingAt(k, j))
  BY <1>2, <1>3, FS_Subset, FS_CardinalityType
<1>5. done[k][i] >= done[k][j] + Cardinality(WaitingAt(k, j))
  BY DEF RuleEngineIInv, EarlierFirst
<1> QED
  BY <1>1, <1>3, <1>4, <1>5

\* The invariant holds at first.
LEMMA RuleEngineInitInv == RuleEngineInit => RuleEngineIInv
<1> SUFFICES ASSUME RuleEngineInit PROVE RuleEngineIInv
  OBVIOUS
<1> USE RuleEngineAssumption DEF RuleEngineAssumption
<1>1. RuleEngineTypeOK
  BY RuleShapes DEF RuleEngineInit, RuleEngineTypeOK, Transitions
<1>2. RunsAreMeant /\ DoneIsMeant
  BY RuleShapes DEF RuleEngineInit, RunsAreMeant, DoneIsMeant
<1>3. \A k, i : WaitingAt(k, i) = {}
  BY RuleShapes DEF RuleEngineInit, WaitingAt
<1>4. EarlierFirst
  <2>1. \A k \in EventKey : \A i \in DOMAIN done[k] : done[k][i] = 0
    BY DEF RuleEngineInit
  <2>2. \A k, i : Cardinality(WaitingAt(k, i)) = 0
    BY <1>3, FS_EmptySet
  <2>3. 0 >= 0 + 0
    OBVIOUS
  <2> QED
    BY <2>1, <2>2, <2>3 DEF EarlierFirst
<1> QED
  BY <1>1, <1>2, <1>4 DEF RuleEngineIInv

\* A step that carries nothing out: each run goes on, rests, or begins with the first
\* action of a rule meant for its event.
LEMMA NothingDone ==
  ASSUME RuleEngineIInv, UNCHANGED done,
         rule_status' \in [Rules -> DOMAIN Transitions],
         rule_run' \in [Runs -> RuleRun \cup {Resting}],
         \A w \in Runs : \/ rule_run'[w] = rule_run[w] \/ rule_run'[w] = Resting
                         \/ Meant(rule_run'[w].key) /\ rule_run'[w].next = 1,
         executed' \subseteq EventKey,
         \A k \in executed' \ executed : \A i \in DOMAIN done[k] : done[k][i] > 0
  PROVE  RuleEngineIInv'
<1>0. RuleEngineTypeOK /\ EarlierFirst /\ RunsAreMeant /\ DoneIsMeant
  BY DEF RuleEngineIInv
<1>1. RuleEngineTypeOK'
  BY <1>0 DEF RuleEngineTypeOK
<1>2. \A k \in EventKey : \A j \in DOMAIN done[k] :
        j > 1 => WaitingAt(k, j)' \subseteq WaitingAt(k, j)
  BY RuleShapes DEF WaitingAt
<1>3. EarlierFirst'
  BY <1>1, <1>2, FewerWait
<1>4. RunsAreMeant'
  <2> SUFFICES ASSUME NEW w \in Runs, rule_run'[w] # Resting
               PROVE  /\ Meant(rule_run'[w].key)
                      /\ \A i \in DOMAIN done[rule_run'[w].key] :
                           i < rule_run'[w].next => done[rule_run'[w].key][i] > 0
    BY DEF RunsAreMeant, Meant
  <2>1. rule_run'[w] \in RuleRun /\ rule_run'[w].key \in EventKey
    BY RuleShapes
  <2>2. \A i \in DOMAIN done[rule_run'[w].key] : ~ (i < 1)
    BY <1>0, <2>1, CountsAreTyped
  <2> QED
    BY <1>0, <2>2 DEF RunsAreMeant
<1>5. DoneIsMeant'
  BY <1>0 DEF DoneIsMeant, Meant
<1> QED
  BY <1>1, <1>3, <1>4, <1>5 DEF RuleEngineIInv

\* A handler takes effect: its run no longer waits for its action, and may wait for the next.
LEMMA HandleStep ==
  ASSUME RuleEngineIInv, NEW w \in Runs, HandleAction(w)
  PROVE  RuleEngineIInv'
<1> DEFINE k == rule_run[w].key
           i == rule_run[w].next
           row == [rule_run[w] EXCEPT !.next = i + 1]
<1>0. RuleEngineTypeOK /\ EarlierFirst /\ RunsAreMeant /\ DoneIsMeant
  BY DEF RuleEngineIInv
<1>1. /\ rule_run[w] \in RuleRun /\ rule_run[w].pc = "running" /\ k \in EventKey
      /\ i \in Nat \ {0} /\ i \in DOMAIN k[1].actions /\ done[k][i] < MaxDone
      /\ rule_run[w] # Resting
  BY <1>0, RuleShapes DEF HandleAction, RuleEngineTypeOK
<1>2. /\ i \in 1 .. Len(k[1].actions) /\ Len(k[1].actions) \in Nat
      /\ DOMAIN done[k] = 1 .. Len(k[1].actions) /\ i \in DOMAIN done[k]
      /\ done[k] \in [DOMAIN k[1].actions -> 0 .. MaxDone]
  BY <1>0, <1>1, RuleShapes, CountsAreTyped DEF RuleEngineTypeOK
<1>3. /\ row \in RuleRun /\ row.pc = "running" /\ row.key = k /\ row.next = i + 1
  <2>1. /\ row \in [pc : {"running"}, key : EventKey, next : Nat \ {0}]
        /\ row.pc = "running" /\ row.key = k /\ row.next = i + 1
    BY <1>1 DEF RuleRun
  <2>2. i + 1 <= Len(k[1].actions) + 1
    BY <1>2
  <2> QED
    BY <2>1, <2>2 DEF RuleRun
<1>4. /\ done' = [done EXCEPT ![k] = [done[k] EXCEPT ![i] = done[k][i] + 1]]
      /\ \/ rule_run' = [rule_run EXCEPT ![w] = row]
         \/ rule_run' = [rule_run EXCEPT ![w] = Resting]
      /\ UNCHANGED <<rule_status, executed>>
  BY <1>0, <1>1 DEF HandleAction, RuleEngineTypeOK
<1> HIDE DEF row
<1>5. /\ DOMAIN done' = EventKey
      /\ done'[k] = [done[k] EXCEPT ![i] = done[k][i] + 1]
      /\ \A x \in EventKey \ {k} : done'[x] = done[x]
  BY <1>0, <1>1, <1>4 DEF RuleEngineTypeOK
<1>6. /\ done'[k] \in [DOMAIN k[1].actions -> 0 .. MaxDone] /\ DOMAIN done'[k] = DOMAIN done[k]
      /\ done'[k][i] = done[k][i] + 1 /\ \A j \in DOMAIN done[k] \ {i} : done'[k][j] = done[k][j]
  <2>0. done[k][i] \in 0 .. MaxDone
    BY <1>1, <1>2
  <2>1. done[k][i] + 1 \in 0 .. MaxDone
    BY <1>1, <2>0, RuleEngineAssumption, SMTT(30) DEF RuleEngineAssumption
  <2> HIDE DEF k, i
  <2> QED
    BY <1>2, <1>5, <2>1
<1>7. /\ rule_run' \in [Runs -> RuleRun \cup {Resting}]
      /\ rule_run'[w] = row \/ rule_run'[w] = Resting
      /\ \A x \in Runs \ {w} : rule_run'[x] = rule_run[x]
  BY <1>0, <1>3, <1>4 DEF RuleEngineTypeOK
<1> HIDE DEF k, i
<1>8. RuleEngineTypeOK'
  BY <1>0, <1>4, <1>5, <1>6, <1>7 DEF RuleEngineTypeOK
<1>9. RunsAreMeant'
  <2>1. Meant(k) /\ \A j \in DOMAIN done[k] : j < i => done[k][j] > 0
    BY <1>0, <1>1 DEF RunsAreMeant, k, i
  <2>2. \A x \in EventKey : \A j \in DOMAIN done'[x] :
          j \in DOMAIN done[x] /\ (done[x][j] > 0 => done'[x][j] > 0)
    <3>1. \A x \in EventKey \ {k} : done'[x] = done[x]
      BY <1>5
    <3>2. \A j \in DOMAIN done'[k] : j \in DOMAIN done[k] /\ (j # i => done'[k][j] = done[k][j])
      BY <1>6
    <3>3. done[k][i] > 0 => done'[k][i] > 0
      BY <1>2, <1>6
    <3> QED
      BY <3>1, <3>2, <3>3
  <2>3. \A j \in DOMAIN done'[k] : j < i + 1 => done'[k][j] > 0
    <3>1. \A j \in DOMAIN done[k] : j < i + 1 => j < i \/ j = i
      BY <1>1, <1>2
    <3>2. done'[k][i] > 0
      BY <1>2, <1>6
    <3> QED
      BY <1>6, <2>1, <2>2, <3>1, <3>2, <1>1
  <2>4. \A x \in Runs : rule_run[x] # Resting => rule_run[x].key \in EventKey
    BY <1>0, RuleShapes DEF RuleEngineTypeOK
  <2> SUFFICES ASSUME NEW x \in Runs, rule_run'[x] # Resting
               PROVE  /\ Meant(rule_run'[x].key)
                      /\ \A j \in DOMAIN done'[rule_run'[x].key] :
                           j < rule_run'[x].next => done'[rule_run'[x].key][j] > 0
    BY DEF RunsAreMeant, Meant
  <2>5. CASE x = w
    BY <1>3, <1>7, <2>1, <2>3, <2>5
  <2>6. CASE x # w
    BY <1>0, <1>7, <2>2, <2>4, <2>6 DEF RunsAreMeant
  <2> QED
    BY <2>5, <2>6
<1>10. DoneIsMeant'
  <2>1. Meant(k)
    BY <1>0, <1>1 DEF RunsAreMeant, k
  <2>2. \A j \in DOMAIN done'[k] : j \in DOMAIN done[k]
                                       /\ (done[k][j] > 0 => done'[k][j] > 0)
    <3>1. \A j \in DOMAIN done'[k] : j \in DOMAIN done[k]
                                         /\ (j # i => done'[k][j] = done[k][j])
      BY <1>6
    <3>2. done[k][i] > 0 => done'[k][i] > 0
      BY <1>2, <1>6
    <3> QED
      BY <3>1, <3>2
  <2>3. \A x \in EventKey \ {k} : done'[x] = done[x]
    BY <1>5
  <2> QED
    BY <1>0, <1>1, <1>4, <2>1, <2>2, <2>3 DEF DoneIsMeant, Meant
<1>11. EarlierFirst'
  <2> SUFFICES ASSUME NEW y \in EventKey, NEW a \in DOMAIN done'[y], NEW b \in DOMAIN done'[y],
                      a < b
               PROVE  done'[y][a] >= done'[y][b] + Cardinality(WaitingAt(y, b)')
    BY DEF EarlierFirst
  <2>1. /\ a \in DOMAIN done[y] /\ b \in DOMAIN done[y] /\ a \in Nat /\ b \in Nat
        /\ done[y][a] \in Nat /\ done[y][b] \in Nat
    BY <1>0, <1>1, <1>5, <1>6, CountsAreTyped
  <2>2. /\ IsFiniteSet(WaitingAt(y, b)) /\ Cardinality(WaitingAt(y, b)) \in Nat
        /\ IsFiniteSet(WaitingAt(k, i)) /\ Cardinality(WaitingAt(k, i)) \in Nat
    BY WaitingIsFinite
  <2>3. done[y][a] >= done[y][b] + Cardinality(WaitingAt(y, b))
    BY <1>0, <2>1 DEF EarlierFirst
  <2>4. w \in WaitingAt(k, i) /\ (w \in WaitingAt(y, b) => y = k /\ b = i)
    BY <1>1 DEF WaitingAt, k, i
  <2>5. CASE y # k \/ (b # i /\ b # i + 1)
    <3>1. WaitingAt(y, b)' \subseteq WaitingAt(y, b)
      BY <1>3, <1>7, <2>5, RuleShapes DEF WaitingAt
    <3>2. /\ Cardinality(WaitingAt(y, b)') \in Nat
          /\ Cardinality(WaitingAt(y, b)') <= Cardinality(WaitingAt(y, b))
      BY <2>2, <3>1, FS_Subset, FS_CardinalityType
    <3>3. /\ done'[y][b] = done[y][b]
          /\ done'[y][a] = done[y][a] \/ done'[y][a] = done[y][a] + 1
      BY <1>5, <1>6, <2>1, <2>5
    <3> QED
      BY <2>1, <2>2, <2>3, <3>2, <3>3
  <2>6. CASE y = k /\ b = i
    <3>1. WaitingAt(y, b)' \subseteq WaitingAt(k, i) \ {w}
      BY <1>1, <1>3, <1>7, <2>6, RuleShapes DEF WaitingAt
    <3>2. /\ IsFiniteSet(WaitingAt(k, i) \ {w})
          /\ Cardinality(WaitingAt(k, i) \ {w}) = Cardinality(WaitingAt(k, i)) - 1
      BY <2>2, <2>4, FS_RemoveElement
    <3>3. /\ IsFiniteSet(WaitingAt(y, b)')
          /\ Cardinality(WaitingAt(y, b)') <= Cardinality(WaitingAt(k, i) \ {w})
      BY <3>1, <3>2, FS_Subset
    <3>4. Cardinality(WaitingAt(y, b)') \in Nat
      BY <3>3, FS_CardinalityType
    <3>5. a # i /\ done'[y][a] = done[y][a] /\ done'[y][b] = done[y][b] + 1
      BY <1>6, <2>1, <2>6
    <3> QED
      BY <2>1, <2>2, <2>3, <2>6, <3>2, <3>3, <3>4, <3>5
  <2>7. CASE y = k /\ b = i + 1
    <3>1. WaitingAt(y, b)' \subseteq WaitingAt(y, b) \cup {w}
      BY <1>7, <2>7 DEF WaitingAt
    <3>2. /\ IsFiniteSet(WaitingAt(y, b) \cup {w})
          /\ Cardinality(WaitingAt(y, b) \cup {w}) <= Cardinality(WaitingAt(y, b)) + 1
      <4>1. w \notin WaitingAt(y, b)
        BY <1>1, <2>4, <2>7
      <4>2. IsFiniteSet(WaitingAt(y, b) \cup {w})
            /\ Cardinality(WaitingAt(y, b) \cup {w})
                 = IF w \in WaitingAt(y, b) THEN Cardinality(WaitingAt(y, b))
                                          ELSE Cardinality(WaitingAt(y, b)) + 1
        BY <2>2, FS_AddElement
      <4> QED
        BY <2>2, <4>1, <4>2
    <3>3. /\ IsFiniteSet(WaitingAt(y, b)')
          /\ Cardinality(WaitingAt(y, b)') <= Cardinality(WaitingAt(y, b) \cup {w})
      BY <3>1, <3>2, FS_Subset
    <3>4. /\ Cardinality(WaitingAt(y, b)') \in Nat
          /\ Cardinality(WaitingAt(y, b) \cup {w}) \in Nat
      BY <3>2, <3>3, FS_CardinalityType
    <3>5. done'[y][b] = done[y][b] /\ i \in DOMAIN done[k] /\ done[k][i] \in Nat
      <4>1. b # i
        BY <1>1, <2>7
      <4>2. i \in DOMAIN done[k] /\ done[k][i] \in Nat
        BY <1>0, <1>1, <1>2, CountsAreTyped
      <4> QED
        BY <1>6, <2>1, <2>7, <4>1, <4>2
    <3>6. done[k][i] >= done[k][b] + Cardinality(WaitingAt(y, b))
      BY <1>0, <1>1, <2>1, <2>7, <3>5 DEF EarlierFirst
    <3>7. CASE a = i
      <4>1. done'[y][a] = done[y][a] + 1
        BY <1>6, <2>7, <3>7
      <4> QED
        BY <2>1, <2>2, <2>3, <3>2, <3>3, <3>4, <3>5, <4>1
    <3>8. CASE a # i
      <4>1. a < i /\ done'[y][a] = done[y][a]
        BY <1>1, <1>6, <2>1, <2>7, <3>8
      <4>2. done[k][a] >= done[k][i] + Cardinality(WaitingAt(k, i))
        BY <1>0, <1>1, <2>1, <2>7, <3>5, <4>1 DEF EarlierFirst
      <4>3. Cardinality(WaitingAt(k, i)) >= 1
        BY <2>2, <2>4, FS_EmptySet
      <4>4. done[k][a] >= done[k][b] + Cardinality(WaitingAt(y, b)) + 1
        BY <2>1, <2>2, <2>7, <3>5, <3>6, <4>2, <4>3
      <4> QED
        BY <2>1, <2>2, <2>7, <3>2, <3>3, <3>4, <3>5, <4>1, <4>4
    <3> QED
      BY <3>7, <3>8
  <2> QED
    BY <2>5, <2>6, <2>7
<1> QED
  BY <1>8, <1>9, <1>10, <1>11 DEF RuleEngineIInv

\* Every step preserves it.
LEMMA RuleEngineNextInv == RuleEngineIInv /\ [RuleEngineNext]_revars => RuleEngineIInv'
<1> SUFFICES ASSUME RuleEngineIInv, [RuleEngineNext]_revars PROVE RuleEngineIInv'
  OBVIOUS
<1>0. RuleEngineTypeOK /\ RunsAreMeant
  BY DEF RuleEngineIInv
<1>1. ASSUME NEW r \in Rules, NEW s \in DOMAIN Transitions, TransitionAutomationRule(r, s)
      PROVE  RuleEngineIInv'
  <2>1. /\ rule_status' \in [Rules -> DOMAIN Transitions]
        /\ UNCHANGED <<executed, done, rule_run>>
    BY <1>0, <1>1 DEF TransitionAutomationRule, RuleEngineTypeOK
  <2> QED
    BY <1>0, <2>1, NothingDone DEF RuleEngineTypeOK
<1>2. CASE EngineRestart
  <2>1. /\ rule_run' = [w \in Runs |-> Resting] /\ executed' = {}
        /\ UNCHANGED <<rule_status, done>>
    BY <1>2 DEF EngineRestart
  <2>2. /\ rule_run' \in [Runs -> RuleRun \cup {Resting}]
        /\ \A w \in Runs : rule_run'[w] = Resting
    BY <2>1
  <2> QED
    BY <1>0, <2>1, <2>2, NothingDone DEF RuleEngineTypeOK
<1>3. ASSUME NEW w \in Runs, NEW r \in Rules, NEW e \in Events, BeginRule(w, r, e)
      PROVE  RuleEngineIInv'
  <2> DEFINE row == [pc |-> "running", key |-> <<r, e>>, next |-> 1]
  <2>1. <<r, e>> \in EventKey /\ <<r, e>>[1] = r /\ <<r, e>>[2] = e
    BY DEF EventKey
  <2>2. row \in RuleRun /\ row.key = <<r, e>> /\ row.next = 1
    BY <2>1, RuleShapes DEF RuleRun
  <2>3. Meant(<<r, e>>)
    BY <1>3, <2>1 DEF BeginRule, Executable, Meant
  <2>4. /\ rule_run' = [rule_run EXCEPT ![w] = row]
        /\ UNCHANGED <<rule_status, executed, done>>
    BY <1>3 DEF BeginRule
  <2> HIDE DEF row
  <2> QED
    BY <1>0, <2>2, <2>3, <2>4, NothingDone DEF RuleEngineTypeOK
<1>4. ASSUME NEW w \in Runs, RunFails(w) PROVE RuleEngineIInv'
  <2>1. /\ rule_run' = [rule_run EXCEPT ![w] = Resting]
        /\ UNCHANGED <<rule_status, executed, done>>
    BY <1>4 DEF RunFails
  <2> QED
    BY <1>0, <2>1, NothingDone DEF RuleEngineTypeOK
<1>5. ASSUME NEW w \in Runs, FinishRule(w) PROVE RuleEngineIInv'
  <2> DEFINE k == rule_run[w].key
  <2>1. /\ rule_run[w] \in RuleRun /\ rule_run[w] # Resting /\ k \in EventKey
        /\ rule_run[w].next \notin DOMAIN k[1].actions /\ rule_run[w].next \in Nat \ {0}
        /\ DOMAIN k[1].actions = 1 .. Len(k[1].actions) /\ Len(k[1].actions) \in Nat
    BY <1>0, <1>5, RuleShapes DEF FinishRule, RuleEngineTypeOK
  <2>2. \A i \in DOMAIN done[k] : done[k][i] > 0
    <3>1. DOMAIN done[k] = 1 .. Len(k[1].actions)
      BY <1>0, <2>1, CountsAreTyped
    <3>2. \A i \in DOMAIN done[k] : i < rule_run[w].next
      BY <2>1, <3>1
    <3> QED
      BY <1>0, <2>1, <3>2 DEF RunsAreMeant
  <2>3. /\ rule_run' = [rule_run EXCEPT ![w] = Resting] /\ executed' = executed \cup {k}
        /\ UNCHANGED <<rule_status, done>>
    BY <1>5 DEF FinishRule
  <2> HIDE DEF k
  <2> QED
    BY <1>0, <2>1, <2>2, <2>3, NothingDone DEF RuleEngineTypeOK
<1>6. CASE UNCHANGED revars
  BY <1>0, <1>6, NothingDone DEF revars, RuleEngineTypeOK
<1> QED
  BY <1>1, <1>2, <1>3, <1>4, <1>5, <1>6, HandleStep DEF RuleEngineNext, ExecuteRule

\* However many runs overlap, fail and repeat actions, and whenever the engine restarts: an
\* action is carried out after those before it, only for events the rule is meant for, and
\* an event counts as executed when all were.
THEOREM ActionsInOrder == RuleEngineSpec => []RunsInOrder
<1>1. RuleEngineIInv => RunsInOrder
  <2> SUFFICES ASSUME RuleEngineIInv, NEW k \in EventKey
               PROVE  /\ \A i, j \in DOMAIN done[k] : i < j => done[k][i] >= done[k][j]
                      /\ k \in executed => \A i \in DOMAIN done[k] : done[k][i] > 0
                      /\ \A i \in DOMAIN done[k] :
                           done[k][i] > 0 => k[1].tenant = k[2].tenant
                                               /\ k[1].trigger = k[2].type
    BY DEF RunsInOrder
  <2>1. \A i, j \in DOMAIN done[k] : i < j => done[k][i] >= done[k][j]
    <3> SUFFICES ASSUME NEW i \in DOMAIN done[k], NEW j \in DOMAIN done[k], i < j
                 PROVE  done[k][i] >= done[k][j]
      OBVIOUS
    <3>1. done[k][i] \in Nat /\ done[k][j] \in Nat /\ Cardinality(WaitingAt(k, j)) \in Nat
      BY CountsAreTyped, WaitingIsFinite DEF RuleEngineIInv
    <3>2. done[k][i] >= done[k][j] + Cardinality(WaitingAt(k, j))
      BY DEF RuleEngineIInv, EarlierFirst
    <3> QED
      BY <3>1, <3>2
  <2> QED
    BY <2>1 DEF RuleEngineIInv, DoneIsMeant, Meant
<1> QED
  BY <1>1, RuleEngineInitInv, RuleEngineNextInv, PTL DEF RuleEngineSpec

-----------------------------------------------------------------------------
(* The graph of an automation, of any size and drawn in any order: paths in it *)

Graphs == [nodes : Seq([id : NodeIds, type : Types]), edges : SUBSET Connections]

\* The shape of a graph: its edges, its ids, and where its edges lead.
LEMMA GraphShapes ==
  ASSUME NEW g \in Graphs
  PROVE  /\ \A e \in g.edges : e \in [from : NodeIds, to : NodeIds, port : STRING]
         /\ Ids(g) \subseteq NodeIds
         /\ Ids(g) = {g.nodes[i].id : i \in 1 .. Len(g.nodes)}
         /\ Triggers(g) \subseteq Ids(g)
         /\ \A n : Targets(g, n) \subseteq Ids(g)
<1>1. g.nodes \in Seq([id : NodeIds, type : Types]) /\ g.edges \subseteq Connections
  BY DEF Graphs
<1>6. /\ DOMAIN g.nodes = 1 .. Len(g.nodes)
      /\ \A i \in 1 .. Len(g.nodes) : g.nodes[i] \in [id : NodeIds, type : Types]
  <2> DEFINE T == [id : NodeIds, type : Types]
  <2>1. g.nodes \in Seq(T)
    BY <1>1
  <2> HIDE DEF T
  <2>2. DOMAIN g.nodes = 1 .. Len(g.nodes) /\ \A i \in 1 .. Len(g.nodes) : g.nodes[i] \in T
    BY <2>1
  <2> QED BY <2>2 DEF T
<1>2. \A e \in g.edges : e \in [from : NodeIds, to : NodeIds, port : STRING]
  BY <1>1, GraphAssumption
<1>3. Ids(g) \subseteq NodeIds /\ Ids(g) = {g.nodes[i].id : i \in 1 .. Len(g.nodes)}
  BY <1>6 DEF Ids, Range
<1>4. Triggers(g) \subseteq Ids(g)
  BY DEF Triggers, Ids
<1>5. ASSUME NEW n PROVE Targets(g, n) \subseteq Ids(g)
  BY DEF Targets, EdgeFault
<1> QED BY <1>2, <1>3, <1>4, <1>5

\* What a sound edge goes to is a target of where it comes from.
LEMMA SoundEdges ==
  ASSUME NEW g \in Graphs
  PROVE  /\ \A n : \A t \in Targets(g, n) :
              \E e \in g.edges : e.from = n /\ e.to = t /\ EdgeFault(g, e) = "none"
         /\ \A e \in g.edges : EdgeFault(g, e) = "none" => e.to \in Targets(g, e.from)
         /\ \A e \in g.edges :
              EdgeFault(g, e) = "none" <=> {e.from, e.to} \subseteq Ids(g) /\ e.port = "next"
<1>1. \A n : \A t \in Targets(g, n) :
        \E e \in g.edges : e.from = n /\ e.to = t /\ EdgeFault(g, e) = "none"
  BY DEF Targets
<1>2. \A e \in g.edges : EdgeFault(g, e) = "none" => e.to \in Targets(g, e.from)
  BY DEF Targets
<1>3. \A e \in g.edges :
        EdgeFault(g, e) = "none" <=> {e.from, e.to} \subseteq Ids(g) /\ e.port = "next"
  BY DEF EdgeFault
<1> QED BY <1>1, <1>2, <1>3

\* A set of nodes that no edge leaves.
ClosedUnder(g, S) == \A n \in S : Targets(g, n) \subseteq S

\* A path ends in every closed set that has the targets of its start.
LEMMA LeadsInto ==
  ASSUME NEW g, NEW a, NEW b, Leads(g, a, b),
         NEW S \in SUBSET Ids(g), Targets(g, a) \subseteq S, ClosedUnder(g, S)
  PROVE  b \in S
  BY DEF Leads, ClosedUnder

\* Paths: one edge is one, one can be followed by an edge or by another, and ends at a node.
LEMMA LeadsRules ==
  ASSUME NEW g \in Graphs
  PROVE  /\ \A a : \A t \in Targets(g, a) : Leads(g, a, t)
         /\ \A a, b : \A t \in Targets(g, b) : Leads(g, a, b) => Leads(g, a, t)
         /\ \A a, b, c : Leads(g, a, b) /\ Leads(g, b, c) => Leads(g, a, c)
         /\ \A a, b : Leads(g, a, b) => b \in Ids(g)
<1>1. \A a : \A t \in Targets(g, a) : Leads(g, a, t)
  BY DEF Leads
<1>2. \A a, b : \A t \in Targets(g, b) : Leads(g, a, b) => Leads(g, a, t)
  BY DEF Leads
<1>3. \A a, b, c : Leads(g, a, b) /\ Leads(g, b, c) => Leads(g, a, c)
  BY DEF Leads
<1>4. ASSUME NEW a, NEW b, Leads(g, a, b) PROVE b \in Ids(g)
  <2>1. ClosedUnder(g, Ids(g)) /\ Targets(g, a) \subseteq Ids(g)
    BY GraphShapes DEF ClosedUnder
  <2> QED BY <2>1, <1>4, LeadsInto
<1> QED BY <1>1, <1>2, <1>3, <1>4

\* What a closed set of nodes with the triggers has is reached, and nothing else is.
LEMMA ReachedRules ==
  ASSUME NEW g \in Graphs
  PROVE  /\ Reached(g) \subseteq Ids(g) /\ Triggers(g) \subseteq Reached(g)
         /\ ClosedUnder(g, Reached(g))
         /\ \A n \in Reached(g) : \A m : Leads(g, n, m) => m \in Reached(g)
         /\ \A S \in SUBSET Ids(g) : Triggers(g) \subseteq S /\ ClosedUnder(g, S) => Reached(g) \subseteq S
<1>1. Reached(g) \subseteq Ids(g) /\ Triggers(g) \subseteq Reached(g)
  BY GraphShapes DEF Reached
<1>2. \A n \in Reached(g) : \A m : Leads(g, n, m) => m \in Reached(g)
  BY LeadsRules DEF Reached
<1>3. ClosedUnder(g, Reached(g))
  BY <1>2, LeadsRules DEF ClosedUnder
<1>4. ASSUME NEW S \in SUBSET Ids(g), Triggers(g) \subseteq S, ClosedUnder(g, S), NEW n \in Reached(g)
      PROVE  n \in S
  <2>1. PICK t \in Triggers(g) : n = t \/ Leads(g, t, n)
    BY DEF Reached
  <2>2. CASE Leads(g, t, n)
    <3>1. Targets(g, t) \subseteq S
      BY <1>4 DEF ClosedUnder
    <3> QED BY <1>4, <2>2, <3>1, LeadsInto
  <2> QED BY <1>4, <2>1, <2>2
<1> QED BY <1>1, <1>2, <1>3, <1>4

\* The ids are finitely many, and as many as the nodes only if no two nodes share one.
LEMMA IdsAreFinite ==
  ASSUME NEW g \in Graphs
  PROVE  /\ IsFiniteSet(Ids(g)) /\ Len(g.nodes) \in Nat
         /\ Cardinality(Ids(g)) = Len(g.nodes) <=>
              \A i, j \in DOMAIN g.nodes : g.nodes[i].id = g.nodes[j].id => i = j
<1> DEFINE N == 1 .. Len(g.nodes)
           f == [i \in N |-> g.nodes[i].id]
<1>1. Len(g.nodes) \in Nat /\ DOMAIN g.nodes = N
  <2>1. g.nodes \in Seq([id : NodeIds, type : Types])
    BY DEF Graphs
  <2> QED BY <2>1
<1>2. IsFiniteSet(N) /\ Cardinality(N) = Len(g.nodes)
  <2>1. Len(g.nodes) \in Int /\ 1 \in Int
    BY <1>1
  <2>2. IsFiniteSet(N) /\ Cardinality(N) = IF 1 > Len(g.nodes) THEN 0 ELSE Len(g.nodes) - 1 + 1
    BY <2>1, FS_Interval
  <2> QED BY <1>1, <2>2
<1>3. f \in Surjection(N, Ids(g))
  BY GraphShapes DEF Surjection
<1>4. /\ IsFiniteSet(Ids(g))
      /\ Cardinality(Ids(g)) = Cardinality(N) <=> f \in Injection(N, Ids(g))
  BY <1>2, <1>3, FS_Surjection
<1>5. f \in Injection(N, Ids(g)) <=> \A i, j \in N : g.nodes[i].id = g.nodes[j].id => i = j
  <2>1. f \in [N -> Ids(g)] /\ \A i \in N : f[i] = g.nodes[i].id
    BY <1>3 DEF Surjection
  <2> HIDE DEF f, N
  <2> QED BY <2>1 DEF Injection, IsInjective
<1> QED BY <1>1, <1>2, <1>4, <1>5

\* What the validation refuses for: a graph without errors is a proper one.
LEMMA ProperIsSound ==
  ASSUME NEW g \in Graphs
  PROVE  ProperGraph(g) <=>
           /\ Normal(g) /\ Faults(g) = {} /\ Reached(g) = Ids(g)
           /\ ~ \E n \in Reached(g) : Leads(g, n, n)
<1>1. Normal(g) <=> /\ AllSupported(g)
                    /\ \A i, j \in DOMAIN g.nodes : g.nodes[i].id = g.nodes[j].id => i = j
  BY IdsAreFinite DEF Normal
<1>2. Cardinality(Triggers(g)) = 1 <=> \E t \in Ids(g) : Triggers(g) = {t}
  <2>1. Triggers(g) \subseteq Ids(g) /\ IsFiniteSet(Ids(g))
    BY GraphShapes, IdsAreFinite
  <2>2. IsFiniteSet(Triggers(g))
    BY <2>1, FS_Subset
  <2>3. Cardinality(Triggers(g)) = 1 <=> \E t : Triggers(g) = {t}
    BY <2>2, FS_Singleton
  <2> QED BY <2>1, <2>3
<1>3. Faults(g) = {} <=> /\ \A e \in g.edges : EdgeFault(g, e) = "none"
                         /\ Cardinality(Triggers(g)) = 1
  BY DEF Faults
<1>4. (\A e \in g.edges : EdgeFault(g, e) = "none") <=>
        \A e \in g.edges : {e.from, e.to} \subseteq Ids(g) /\ e.port = "next"
  BY SoundEdges
<1> QED BY <1>1, <1>2, <1>3, <1>4 DEF ProperGraph

\* The smallest of some numbers is one of them.
LEMMA Smallest ==
  ASSUME NEW S \in SUBSET Nat, S # {}
  PROVE  Min(S) \in S /\ \A y \in S : Min(S) =< y
<1>1. PICK x \in S : \A y \in S : ~ (<<y, x>> \in OpToRel(<, Nat))
  <2>1. IsWellFoundedOn(OpToRel(<, Nat), Nat)
    BY NatLessThanWellFounded
  <2> QED BY <2>1, WFMin
<1>2. ASSUME NEW y \in S PROVE x =< y
  <2>1. x \in Nat /\ y \in Nat
    OBVIOUS
  <2>2. <<y, x>> \in OpToRel(<, Nat) <=> y < x
    BY <2>1 DEF OpToRel
  <2>3. ~ (y < x)
    BY <2>2, <1>1, Zenon
  <2> QED BY <2>1, <2>3
<1> QED BY <1>2 DEF Min

-----------------------------------------------------------------------------
(* The graph's invariant: what the walk and the sort have done so far *)

\* Its edges are finitely many, and nothing is left of the request before.
GraphClean ==
  /\ IsFiniteSet(graph.edges)
  /\ stage = "drawing" => errors = {} /\ roots = {} /\ visiting = {} /\ visited = {}
  /\ stage = "drawing" => path = <<>>
  /\ stage \in {"drawing", "walking"} => sorted = <<>>

\* What is being visited is the path of calls, and what was visited is behind it.
WalkShape ==
  /\ Normal(graph)
  /\ roots \subseteq Triggers(graph) /\ Triggers(graph) \subseteq roots \cup visiting \cup visited
  /\ visiting = {path[i] : i \in DOMAIN path} /\ visiting \cap visited = {}
  /\ \A i, j \in DOMAIN path : path[i] = path[j] => i = j
  /\ errors \ {"GRAPH_CYCLE"} = Faults(graph)

\* Only what is reached is visited, and the calls of the path are a path of the graph.
WalkReach ==
  /\ visiting \cup visited \subseteq Reached(graph)
  /\ \A i, j \in DOMAIN path : i < j => Leads(graph, path[i], path[j])
  /\ "GRAPH_CYCLE" \in errors => \E n \in Reached(graph) : Leads(graph, n, n)

\* What a visited node leads to was met.
WalkCover ==
  /\ \A n \in NodeIds : rest[n] \subseteq Targets(graph, n)
  /\ \A n \in NodeIds \ (visiting \cup visited) : rest[n] = Targets(graph, n)
  /\ \A n \in visited : Targets(graph, n) \subseteq visiting \cup visited
  /\ \A n \in visiting : Targets(graph, n) \ rest[n] \subseteq visiting \cup visited

\* While no cycle is reported, what was visited is closed and has none: of what a node of
\* the path leads to, only the next call is not yet visited.
WalkAcyclic ==
  "GRAPH_CYCLE" \notin errors =>
    /\ \A n \in visited : Targets(graph, n) \subseteq visited /\ ~ Leads(graph, n, n)
    /\ \A i \in DOMAIN path : \A t \in Targets(graph, path[i]) \ rest[path[i]] :
         t \in visited \/ (i < Len(path) /\ t = path[i + 1])

WalkInv == stage = "walking" => WalkShape /\ WalkReach /\ WalkCover /\ WalkAcyclic

Judged ==
  /\ ValidationIsExact
  /\ stage \in {"sorting", "simulated"} => ProperGraph(graph)

\* The edges of a node that come from outside a set.
From(g, n, S) == {e \in g.edges : e.to = n /\ e.from \notin S}

Placed == {sorted[i] : i \in DOMAIN sorted}

\* The sort counts the edges from nodes that are not placed, and has ready those with none.
SortCounts ==
  /\ sorted \in Seq(Ids(graph))
  /\ \A i, j \in DOMAIN sorted : sorted[i] = sorted[j] => i = j
  /\ \A n \in Ids(graph) : incoming[n] = Cardinality(From(graph, n, Placed))
  /\ ready = {n \in Ids(graph) \ Placed : incoming[n] = 0}

\* A node was placed after each that leads to it, the smallest of those that could be.
SortOrder ==
  /\ \A i \in DOMAIN sorted : \A e \in graph.edges :
       e.to = sorted[i] => \E j \in DOMAIN sorted : j < i /\ sorted[j] = e.from
  /\ \A i \in DOMAIN sorted : \A n \in Ids(graph) :
       n < sorted[i] => \/ \E k \in DOMAIN sorted : k < i /\ sorted[k] = n
                        \/ \E e \in graph.edges :
                             e.to = n /\ \A k \in DOMAIN sorted : k < i => sorted[k] # e.from

SortInv ==
  /\ stage \in {"sorting", "simulated"} => SortCounts /\ SortOrder
  /\ stage = "simulated" => ready = {}

GraphIInv == GraphTypeOK /\ GraphClean /\ WalkInv /\ Judged /\ SortInv

LEMMA GraphTyped ==
  ASSUME GraphTypeOK
  PROVE  graph \in Graphs /\ DOMAIN path = 1 .. Len(path) /\ DOMAIN sorted = 1 .. Len(sorted)
  BY DEF GraphTypeOK, Graphs

LEMMA GraphInitInv == GraphInit => GraphIInv
<1> SUFFICES ASSUME GraphInit PROVE GraphIInv
  OBVIOUS
<1>1. graph \in [nodes : Seq([id : NodeIds, type : Types]), edges : SUBSET Connections]
  <2>1. <<>> \in Seq([id : NodeIds, type : Types])
    OBVIOUS
  <2> QED BY <2>1 DEF GraphInit
<1>2. GraphTypeOK
  BY <1>1 DEF GraphInit, GraphTypeOK
<1>3. GraphClean
  BY FS_EmptySet DEF GraphInit, GraphClean
<1>4. WalkInv /\ Judged /\ SortInv
  BY DEF GraphInit, WalkInv, Judged, ValidationIsExact, SortInv
<1> QED BY <1>2, <1>3, <1>4 DEF GraphIInv

\* A step of the editor: what it draws is a graph.
LEMMA DrawStep ==
  ASSUME GraphIInv, Draw, graph' \in Graphs, IsFiniteSet(graph'.edges)
  PROVE  GraphIInv'
<1>1. stage' = "drawing" /\ UNCHANGED <<stage, errors, gwalk, gsort>>
  BY DEF Draw
<1>2. GraphTypeOK'
  BY <1>1 DEF GraphIInv, GraphTypeOK, Graphs, gwalk, gsort
<1>3. GraphClean'
  BY <1>1 DEF GraphIInv, GraphClean, gwalk, gsort
<1>4. WalkInv' /\ Judged' /\ SortInv'
  BY <1>1 DEF WalkInv, Judged, ValidationIsExact, SortInv
<1> QED BY <1>2, <1>3, <1>4 DEF GraphIInv

LEMMA EditorStep ==
  ASSUME GraphIInv,
         \/ \E id \in NodeIds, type \in Types : AddNode(id, type)
         \/ \E edge \in Connections : Connect(edge)
         \/ \E id \in NodeIds, delta \in {-1, 1} : MoveNode(id, delta)
         \/ \E id \in NodeIds : RemoveNode(id)
  PROVE  GraphIInv'
<1> DEFINE Nodes == [id : NodeIds, type : Types]
<1>1. graph \in Graphs /\ IsFiniteSet(graph.edges)
  BY GraphTyped DEF GraphIInv, GraphClean
<1>2. /\ graph.nodes \in Seq(Nodes) /\ graph.edges \subseteq Connections
      /\ graph = [nodes |-> graph.nodes, edges |-> graph.edges]
  BY <1>1 DEF Graphs
<1>3. ASSUME NEW nodes \in Seq(Nodes), NEW edges \in SUBSET Connections, IsFiniteSet(edges),
             graph' = [nodes |-> nodes, edges |-> edges], Draw
      PROVE  GraphIInv'
  <2>1. graph' \in Graphs /\ graph'.edges = edges
    BY <1>3 DEF Graphs
  <2> QED BY <2>1, <1>3, DrawStep
<1>4. ASSUME NEW id \in NodeIds, NEW type \in Types, AddNode(id, type) PROVE GraphIInv'
  <2>1. Append(graph.nodes, [id |-> id, type |-> type]) \in Seq(Nodes)
    BY <1>2
  <2>2. graph' = [nodes |-> Append(graph.nodes, [id |-> id, type |-> type]), edges |-> graph.edges]
    BY <1>2, <1>4 DEF AddNode
  <2> QED BY <2>1, <2>2, <1>1, <1>2, <1>3, <1>4 DEF AddNode
<1>5. ASSUME NEW edge \in Connections, Connect(edge) PROVE GraphIInv'
  <2>1. IsFiniteSet(graph.edges \cup {edge})
    BY <1>1, FS_AddElement
  <2>2. graph' = [nodes |-> graph.nodes, edges |-> graph.edges \cup {edge}]
    BY <1>2, <1>5 DEF Connect
  <2> QED BY <2>1, <2>2, <1>2, <1>3, <1>5 DEF Connect
<1>6. ASSUME NEW id \in NodeIds, NEW delta \in {-1, 1}, MoveNode(id, delta) PROVE GraphIInv'
  <2> DEFINE i == Min({k \in DOMAIN graph.nodes : graph.nodes[k].id = id})
             j == i + delta
  <2>1. /\ {k \in DOMAIN graph.nodes : graph.nodes[k].id = id} # {} /\ j \in DOMAIN graph.nodes
        /\ graph' = [graph EXCEPT !.nodes[i] = graph.nodes[j], !.nodes[j] = graph.nodes[i]]
        /\ Draw
    BY <1>6 DEF MoveNode
  <2>2. DOMAIN graph.nodes = 1 .. Len(graph.nodes)
    BY <1>2
  <2>3. i \in DOMAIN graph.nodes
    <3>1. {k \in DOMAIN graph.nodes : graph.nodes[k].id = id} \in SUBSET Nat
      BY <2>2
    <3>2. i \in {k \in DOMAIN graph.nodes : graph.nodes[k].id = id}
      BY <2>1, <3>1, Smallest
    <3> QED BY <3>2
  <2> HIDE DEF i, j, Nodes
  <2>4. graph.nodes[i] \in Nodes /\ graph.nodes[j] \in Nodes
    BY <1>2, <2>1, <2>2, <2>3
  <2>5. [[graph.nodes EXCEPT ![i] = graph.nodes[j]] EXCEPT ![j] = graph.nodes[i]] \in Seq(Nodes)
    BY <1>2, <2>1, <2>2, <2>3, <2>4
  <2>6. graph' = [nodes |-> [[graph.nodes EXCEPT ![i] = graph.nodes[j]] EXCEPT ![j] = graph.nodes[i]],
                  edges |-> graph.edges]
    BY <1>2, <2>1
  <2> QED BY <2>1, <2>5, <2>6, <1>1, <1>2, <1>3
<1>7. ASSUME NEW id \in NodeIds, RemoveNode(id) PROVE GraphIInv'
  <2> DEFINE kept == {i \in DOMAIN graph.nodes : graph.nodes[i].id # id}
             left == {e \in graph.edges : e.from # id /\ e.to # id}
  <2>1. PICK place \in [1 .. Cardinality(kept) -> kept] :
          graph' = [nodes |-> [i \in DOMAIN place |-> graph.nodes[place[i]]], edges |-> left]
    BY <1>7 DEF RemoveNode
  <2>2. DOMAIN graph.nodes = 1 .. Len(graph.nodes) /\ Len(graph.nodes) \in Nat
    BY <1>2
  <2>3. Cardinality(kept) \in Nat
    <3>1. IsFiniteSet(1 .. Len(graph.nodes))
      <4>1. 1 \in Int /\ Len(graph.nodes) \in Int
        BY <2>2
      <4> QED BY <4>1, FS_Interval
    <3>2. IsFiniteSet(kept)
      BY <2>2, <3>1, FS_Subset
    <3> QED BY <3>2, FS_CardinalityType
  <2>4. \A k \in kept : graph.nodes[k] \in Nodes
    <3> HIDE DEF Nodes
    <3> QED BY <1>2, <2>2
  <2>5. [i \in DOMAIN place |-> graph.nodes[place[i]]] \in Seq(Nodes)
    <3> HIDE DEF Nodes, kept
    <3>1. DOMAIN place = 1 .. Cardinality(kept)
      OBVIOUS
    <3>2. \A i \in 1 .. Cardinality(kept) : graph.nodes[place[i]] \in Nodes
      BY <2>4
    <3> QED BY <2>3, <3>1, <3>2
  <2>6. IsFiniteSet(left)
    BY <1>1, FS_Subset
  <2> QED BY <2>1, <2>5, <2>6, <1>2, <1>3, <1>7 DEF RemoveNode
<1> QED BY <1>4, <1>5, <1>6, <1>7

\* What a graph is does not change while it stays.
LEMMA GraphUnchanged ==
  ASSUME graph' = graph
  PROVE  /\ Normal(graph)' = Normal(graph) /\ ProperGraph(graph)' = ProperGraph(graph)
         /\ Ids(graph)' = Ids(graph) /\ Triggers(graph)' = Triggers(graph)
         /\ Reached(graph)' = Reached(graph) /\ Faults(graph)' = Faults(graph)
         /\ \A n : Targets(graph, n)' = Targets(graph, n)
         /\ \A a, b : Leads(graph, a, b)' = Leads(graph, a, b)
  OBVIOUS

\* The errors of one node or edge are none of the walk's.
LEMMA FaultCodes ==
  ASSUME NEW g
  PROVE  /\ Faults(g) \subseteq Codes
         /\ "GRAPH_CYCLE" \notin Faults(g) /\ "GRAPH_NODE_UNREACHABLE" \notin Faults(g)
<1> DEFINE Mine == {"GRAPH_EDGE_SOURCE_UNKNOWN", "GRAPH_EDGE_TARGET_UNKNOWN", "GRAPH_PORT_INVALID",
                    "none"}
<1>1. \A e : EdgeFault(g, e) \in Mine
  BY DEF EdgeFault
<1> HIDE DEF Mine
<1>2. Faults(g) \subseteq (Mine \ {"none"}) \cup {"GRAPH_TRIGGER_COUNT_INVALID"}
  BY <1>1 DEF Faults
<1> QED BY <1>2 DEF Mine, Codes

\* The request arrives: nothing is visited yet, or nothing will be.
LEMMA SubmitStep ==
  ASSUME GraphIInv, Submit
  PROVE  GraphIInv'
<1>1. /\ GraphTypeOK /\ GraphClean /\ stage = "drawing" /\ graph \in Graphs
      /\ UNCHANGED <<graph, path, visiting, visited, gsort>>
  BY GraphTyped DEF GraphIInv, Submit
<1>2. /\ errors = {} /\ roots = {} /\ visiting = {} /\ visited = {} /\ path = <<>> /\ sorted = <<>>
      /\ incoming' = incoming /\ ready' = ready /\ sorted' = <<>>
  BY <1>1 DEF GraphClean, gsort
<1>3. Ids(graph) \subseteq NodeIds /\ Triggers(graph) \subseteq Ids(graph)
      /\ \A n : Targets(graph, n) \subseteq Ids(graph)
  BY <1>1, GraphShapes
<1>4. CASE Normal(graph)
  <2>1. /\ stage' = "walking" /\ errors' = Faults(graph) /\ roots' = Triggers(graph)
        /\ rest' = [n \in NodeIds |-> Targets(graph, n)]
    BY <1>4 DEF Submit
  <2>2. Faults(graph) \subseteq Codes /\ "GRAPH_CYCLE" \notin Faults(graph)
    BY FaultCodes
  <2>3. GraphTypeOK'
    BY <1>1, <1>2, <1>3, <2>1, <2>2 DEF GraphTypeOK
  <2>4. GraphClean'
    BY <1>1, <1>2, <2>1 DEF GraphClean
  <2>5. WalkShape'
    BY <1>1, <1>2, <1>4, <2>1, <2>2 DEF WalkShape, Normal, AllSupported, Faults, EdgeFault, Ids, Triggers
  <2>6. WalkReach'
    BY <1>1, <1>2, <2>1, <2>2 DEF WalkReach
  <2>7. WalkCover'
    BY <1>1, <1>2, <2>1 DEF WalkCover, Targets, EdgeFault, Ids
  <2>8. WalkAcyclic'
    BY <1>1, <1>2, <2>1 DEF WalkAcyclic
  <2> QED BY <2>1, <2>3, <2>4, <2>5, <2>6, <2>7, <2>8
          DEF GraphIInv, WalkInv, Judged, ValidationIsExact, SortInv
<1>5. CASE ~ Normal(graph)
  <2>1. /\ stage' = "refused" /\ roots' = roots /\ rest' = rest
        /\ errors' = {IF AllSupported(graph) THEN "GRAPH_NODE_ID_DUPLICATE"
                      ELSE "GRAPH_NODE_TYPE_UNSUPPORTED"}
    BY <1>5 DEF Submit
  <2>6. errors' \subseteq Codes
    BY <2>1 DEF Codes
  <2>2. GraphTypeOK'
    BY <1>1, <1>2, <2>1, <2>6 DEF GraphTypeOK
  <2>3. GraphClean'
    BY <1>1, <1>2, <2>1 DEF GraphClean
  <2>4. ~ ProperGraph(graph)
    BY <1>1, <1>5, ProperIsSound
  <2>5. Judged'
    BY <1>1, <1>5, <2>1, <2>4, GraphUnchanged DEF Judged, ValidationIsExact
  <2> QED BY <2>1, <2>2, <2>3, <2>5 DEF GraphIInv, WalkInv, SortInv
<1> QED BY <1>4, <1>5

-----------------------------------------------------------------------------
(* The walk of validateGraph *)

\* A call of walk on a reached node that the last call's node leads to.
LEMMA WalkMoves ==
  ASSUME GraphIInv, stage = "walking", NEW id \in Reached(graph), Walk(id),
         path # <<>> => id \in Targets(graph, Last(path)),
         graph' = graph, visited' = visited
  PROVE  /\ path' \in Seq(NodeIds) /\ visiting' \subseteq NodeIds /\ errors' \subseteq Codes
         /\ visiting' = {path'[i] : i \in DOMAIN path'} /\ visiting' \cap visited' = {}
         /\ \A i, j \in DOMAIN path' : path'[i] = path'[j] => i = j
         /\ errors' \ {"GRAPH_CYCLE"} = errors \ {"GRAPH_CYCLE"}
         /\ visiting \subseteq visiting' /\ visiting' \subseteq visiting \cup {id}
         /\ id \in visiting' \cup visited'
         /\ WalkReach'
         /\ "GRAPH_CYCLE" \notin errors' =>
              /\ "GRAPH_CYCLE" \notin errors
              /\ \/ id \in visited /\ path' = path /\ visiting' = visiting
                 \/ id \notin visiting \cup visited /\ path' = Append(path, id)
<1>1. /\ GraphTypeOK /\ WalkShape /\ WalkReach /\ graph \in Graphs
      /\ path \in Seq(NodeIds) /\ DOMAIN path = 1 .. Len(path) /\ Len(path) \in Nat
      /\ id \in NodeIds
  <2>1. GraphTypeOK /\ WalkShape /\ WalkReach /\ graph \in Graphs
    BY GraphTyped DEF GraphIInv, WalkInv
  <2>2. path \in Seq(NodeIds)
    BY <2>1 DEF GraphTypeOK
  <2>3. id \in NodeIds
    BY <2>1, GraphShapes, ReachedRules
  <2> QED BY <2>1, <2>2, <2>3
<1>2. graph' = graph /\ visited' = visited
  OBVIOUS
<1>3. path # <<>> => Len(path) >= 1 /\ Last(path) = path[Len(path)] /\ Len(path) \in DOMAIN path
  BY <1>1 DEF Last
<1>7. /\ visiting \subseteq NodeIds /\ errors \subseteq Codes /\ path \in Seq(NodeIds) /\ id \in NodeIds
      /\ visiting = {path[i] : i \in DOMAIN path} /\ visiting \cap visited = {}
      /\ \A i, j \in DOMAIN path : path[i] = path[j] => i = j
  BY <1>1 DEF WalkShape, GraphTypeOK
<1>4. CASE id \in visiting /\ errors' = errors \cup {"GRAPH_CYCLE"} /\ UNCHANGED <<path, visiting>>
  <2>1. PICK k \in DOMAIN path : path[k] = id
    BY <1>1, <1>4 DEF WalkShape
  <2>2. path # <<>> /\ Len(path) >= 1
    BY <1>1, <2>1
  <2>3. Leads(graph, id, id)
    <3>1. CASE k = Len(path)
      BY <1>1, <1>3, <2>1, <2>2, <3>1, LeadsRules
    <3>2. CASE k < Len(path)
      <4>1. Leads(graph, id, Last(path))
        BY <1>1, <1>3, <2>1, <2>2, <3>2 DEF WalkReach
      <4> QED BY <1>1, <2>2, <4>1, LeadsRules
    <3> QED BY <1>1, <2>1, <3>1, <3>2
  <2>4. WalkReach'
    BY <1>1, <1>2, <1>4, <2>3 DEF WalkReach
  <2> QED BY <1>2, <1>4, <1>7, <2>4 DEF Codes
<1>5. CASE id \notin visiting /\ id \in visited /\ UNCHANGED <<errors, path, visiting>>
  <2>1. WalkReach'
    BY <1>1, <1>2, <1>5 DEF WalkReach
  <2> QED BY <1>2, <1>5, <1>7, <2>1
<1>6. CASE /\ id \notin visiting /\ id \notin visited
           /\ visiting' = visiting \cup {id} /\ path' = Append(path, id)
           /\ UNCHANGED errors
  <2>1. /\ path' \in Seq(NodeIds) /\ DOMAIN path' = 1 .. (Len(path) + 1) /\ Len(path') = Len(path) + 1
        /\ path'[Len(path) + 1] = id
        /\ \A i \in DOMAIN path : i \in DOMAIN path' /\ path'[i] = path[i]
        /\ \A i \in DOMAIN path' : i \in DOMAIN path \/ i = Len(path) + 1
        /\ Len(path) + 1 \in DOMAIN path' /\ Len(path) + 1 \notin DOMAIN path
    BY <1>1, <1>6
  <2>2. \A i \in DOMAIN path : path[i] \in visiting
    BY <1>1 DEF WalkShape
  <2>3. visiting' = {path'[i] : i \in DOMAIN path'}
    <3>1. visiting = {path[i] : i \in DOMAIN path}
      BY <1>1 DEF WalkShape
    <3> QED BY <1>6, <2>1, <3>1, Zenon
  <2>4. \A i, j \in DOMAIN path' : path'[i] = path'[j] => i = j
    <3>1. \A i, j \in DOMAIN path : path[i] = path[j] => i = j
      BY <1>1 DEF WalkShape
    <3> SUFFICES ASSUME NEW i \in DOMAIN path', NEW j \in DOMAIN path', path'[i] = path'[j]
                 PROVE  i = j
      OBVIOUS
    <3>2. CASE i \in DOMAIN path /\ j \in DOMAIN path
      BY <2>1, <3>1, <3>2
    <3>3. CASE i = Len(path) + 1 /\ j \in DOMAIN path
      BY <1>6, <2>1, <2>2, <3>3
    <3>4. CASE i \in DOMAIN path /\ j = Len(path) + 1
      BY <1>6, <2>1, <2>2, <3>4
    <3> QED BY <2>1, <3>2, <3>3, <3>4
  <2>5. \A i, j \in DOMAIN path' : i < j => Leads(graph, path'[i], path'[j])
    <3> SUFFICES ASSUME NEW i \in DOMAIN path', NEW j \in DOMAIN path', i < j
                 PROVE  Leads(graph, path'[i], path'[j])
      OBVIOUS
    <3>1. CASE j \in DOMAIN path
      <4>1. i \in DOMAIN path
        BY <1>1, <2>1, <3>1
      <4> QED BY <1>1, <2>1, <3>1, <4>1 DEF WalkReach
    <3>2. CASE j = Len(path) + 1
      <4>1. i \in DOMAIN path /\ path # <<>> /\ id \in Targets(graph, Last(path))
        BY <1>1, <2>1, <3>2
      <4>2. path[i] = Last(path) \/ Leads(graph, path[i], Last(path))
        BY <1>1, <1>3, <4>1 DEF WalkReach
      <4>3. Leads(graph, path[i], id)
        BY <1>1, <4>1, <4>2, LeadsRules
      <4> QED BY <2>1, <3>2, <4>1, <4>3
    <3> QED BY <2>1, <3>1, <3>2
  <2>6. WalkReach'
    BY <1>1, <1>2, <1>6, <2>5 DEF WalkReach
  <2>7. visiting' \cap visited' = {}
    BY <1>2, <1>6, <1>7
  <2> QED BY <1>2, <1>6, <1>7, <2>1, <2>3, <2>4, <2>6, <2>7
<1> QED BY <1>4, <1>5, <1>6 DEF Walk

\* A walk from the next trigger.
LEMMA WalkRootStep ==
  ASSUME GraphIInv, WalkRoot
  PROVE  GraphIInv'
<1>1. /\ GraphTypeOK /\ GraphClean /\ WalkShape /\ WalkReach /\ WalkCover /\ WalkAcyclic
      /\ stage = "walking" /\ path = <<>> /\ graph \in Graphs
      /\ UNCHANGED <<graph, stage, rest, visited, gsort>>
  BY GraphTyped DEF GraphIInv, WalkInv, WalkRoot
<1>2. PICK id \in roots : roots' = roots \ {id} /\ Walk(id)
  BY DEF WalkRoot
<1>3. id \in Triggers(graph) /\ id \in Reached(graph)
  BY <1>1, <1>2, ReachedRules DEF WalkShape
<1>4. /\ path' \in Seq(NodeIds) /\ visiting' \subseteq NodeIds /\ errors' \subseteq Codes
      /\ visiting' = {path'[i] : i \in DOMAIN path'} /\ visiting' \cap visited' = {}
      /\ \A i, j \in DOMAIN path' : path'[i] = path'[j] => i = j
      /\ errors' \ {"GRAPH_CYCLE"} = errors \ {"GRAPH_CYCLE"}
      /\ visiting \subseteq visiting' /\ visiting' \subseteq visiting \cup {id}
      /\ id \in visiting' \cup visited' /\ WalkReach'
      /\ "GRAPH_CYCLE" \notin errors' =>
           /\ "GRAPH_CYCLE" \notin errors
           /\ \/ id \in visited /\ path' = path /\ visiting' = visiting
              \/ id \notin visiting \cup visited /\ path' = Append(path, id)
  BY <1>1, <1>2, <1>3, WalkMoves
<1>5. GraphTypeOK'
  BY <1>1, <1>2, <1>4 DEF GraphTypeOK, gsort
<1>6. GraphClean'
  BY <1>1 DEF GraphClean, gsort
<1>7. WalkShape'
  <2>1. Normal(graph)' /\ Faults(graph)' = Faults(graph) /\ Triggers(graph)' = Triggers(graph)
    BY <1>1, GraphUnchanged DEF WalkShape
  <2>2. roots' \subseteq Triggers(graph)' /\ Triggers(graph)' \subseteq roots' \cup visiting' \cup visited'
    BY <1>1, <1>2, <1>4, <2>1 DEF WalkShape
  <2> QED BY <1>1, <1>4, <2>1, <2>2 DEF WalkShape
<1>8. WalkCover'
  <2>1. \A n : Targets(graph, n)' = Targets(graph, n)
    BY <1>1, GraphUnchanged
  <2> QED BY <1>1, <1>4, <2>1 DEF WalkCover
<1>9. WalkAcyclic'
  <2> SUFFICES ASSUME "GRAPH_CYCLE" \notin errors' PROVE WalkAcyclic'
    BY DEF WalkAcyclic
  <2>1. \A n \in visited' : Targets(graph, n)' \subseteq visited' /\ ~ Leads(graph, n, n)'
    BY <1>1, <1>4, GraphUnchanged DEF WalkAcyclic
  <2>2. ASSUME NEW i \in DOMAIN path' PROVE Targets(graph, path'[i]) \ rest'[path'[i]] = {}
    <3>1. path' = <<id>> /\ id \notin visiting \cup visited
      <4>1. path' # <<>>
        BY <2>2
      <4> QED BY <1>1, <1>4, <4>1
    <3>2. path'[i] = id /\ id \in NodeIds
      BY <1>4, <2>2, <3>1
    <3>3. rest[id] = Targets(graph, id)
      BY <1>1, <3>1, <3>2 DEF WalkCover
    <3> QED BY <1>1, <3>2, <3>3
  <2> QED BY <1>1, <2>1, <2>2 DEF WalkAcyclic
<1>10. stage' = "walking" /\ WalkReach'
  BY <1>1, <1>4
<1> QED BY <1>5, <1>6, <1>7, <1>8, <1>9, <1>10
        DEF GraphIInv, WalkInv, Judged, ValidationIsExact, SortInv

\* A walk to the next target of the last call's node.
LEMMA WalkTargetStep ==
  ASSUME GraphIInv, WalkTarget
  PROVE  GraphIInv'
<1>1. /\ GraphTypeOK /\ GraphClean /\ WalkShape /\ WalkReach /\ WalkCover /\ WalkAcyclic
      /\ stage = "walking" /\ path # <<>> /\ graph \in Graphs
      /\ UNCHANGED <<graph, stage, roots, visited, gsort>>
  BY GraphTyped DEF GraphIInv, WalkInv, WalkTarget
<1> DEFINE top == Last(path)
           L == Len(path)
<1>2. PICK id \in rest[top] : rest' = [rest EXCEPT ![top] = rest[top] \ {id}] /\ Walk(id)
  BY DEF WalkTarget
<1>3. /\ path \in Seq(NodeIds) /\ DOMAIN path = 1 .. L /\ L \in Nat \ {0} /\ L \in DOMAIN path
      /\ top = path[L] /\ top \in NodeIds /\ top \in visiting /\ rest \in [NodeIds -> SUBSET NodeIds]
  <2>1. path \in Seq(NodeIds) /\ rest \in [NodeIds -> SUBSET NodeIds]
    BY <1>1 DEF GraphTypeOK
  <2>2. DOMAIN path = 1 .. L /\ L \in Nat \ {0} /\ L \in DOMAIN path /\ top = path[L] /\ top \in NodeIds
    BY <1>1, <2>1 DEF Last
  <2>3. top \in visiting
    BY <1>1, <2>2 DEF WalkShape
  <2> QED BY <2>1, <2>2, <2>3
<1>4. id \in Targets(graph, top) /\ id \in Reached(graph)
  <2>1. id \in Targets(graph, top)
    BY <1>1, <1>2, <1>3 DEF WalkCover
  <2>2. top \in Reached(graph)
    BY <1>1, <1>3 DEF WalkReach
  <2> QED BY <1>1, <2>1, <2>2, ReachedRules DEF ClosedUnder
<1>5. /\ path' \in Seq(NodeIds) /\ visiting' \subseteq NodeIds /\ errors' \subseteq Codes
      /\ visiting' = {path'[i] : i \in DOMAIN path'} /\ visiting' \cap visited' = {}
      /\ \A i, j \in DOMAIN path' : path'[i] = path'[j] => i = j
      /\ errors' \ {"GRAPH_CYCLE"} = errors \ {"GRAPH_CYCLE"}
      /\ visiting \subseteq visiting' /\ visiting' \subseteq visiting \cup {id}
      /\ id \in visiting' \cup visited' /\ WalkReach'
      /\ "GRAPH_CYCLE" \notin errors' =>
           /\ "GRAPH_CYCLE" \notin errors
           /\ \/ id \in visited /\ path' = path /\ visiting' = visiting
              \/ id \notin visiting \cup visited /\ path' = Append(path, id)
  BY <1>1, <1>2, <1>4, WalkMoves
<1>6. /\ rest' \in [NodeIds -> SUBSET NodeIds] /\ rest'[top] = rest[top] \ {id}
      /\ \A n \in NodeIds \ {top} : rest'[n] = rest[n]
  <2> HIDE DEF top
  <2> QED BY <1>2, <1>3
<1> HIDE DEF top
<1>7. GraphTypeOK'
  BY <1>1, <1>5, <1>6 DEF GraphTypeOK, gsort
<1>8. GraphClean'
  BY <1>1 DEF GraphClean, gsort
<1>9. WalkShape'
  <2>1. Normal(graph)' /\ Faults(graph)' = Faults(graph) /\ Triggers(graph)' = Triggers(graph)
    BY <1>1, GraphUnchanged DEF WalkShape
  <2>2. roots' \subseteq Triggers(graph)' /\ Triggers(graph)' \subseteq roots' \cup visiting' \cup visited'
    BY <1>1, <1>5, <2>1 DEF WalkShape
  <2> QED BY <1>1, <1>5, <2>1, <2>2 DEF WalkShape
<1>10. \A n : Targets(graph, n)' = Targets(graph, n)
  BY <1>1, GraphUnchanged
<1>11. WalkCover'
  <2>1. \A n \in NodeIds : rest'[n] \subseteq Targets(graph, n)
    BY <1>1, <1>3, <1>6 DEF WalkCover
  <2>2. \A n \in NodeIds \ (visiting' \cup visited') : rest'[n] = Targets(graph, n)
    BY <1>1, <1>3, <1>5, <1>6 DEF WalkCover
  <2>3. \A n \in visited' : Targets(graph, n) \subseteq visiting' \cup visited'
    BY <1>1, <1>5 DEF WalkCover
  <2>4. ASSUME NEW n \in visiting' PROVE Targets(graph, n) \ rest'[n] \subseteq visiting' \cup visited'
    <3>1. CASE n = top
      BY <1>1, <1>3, <1>5, <1>6, <3>1 DEF WalkCover
    <3>2. CASE n # top /\ n \in visiting
      BY <1>1, <1>5, <1>6, <2>4, <3>2 DEF WalkCover
    <3>3. CASE n # top /\ n \notin visiting
      <4>1. n \in NodeIds /\ (n \in visited \/ rest[n] = Targets(graph, n))
        BY <1>1, <1>5, <2>4, <3>3 DEF WalkCover
      <4>2. n \notin visited
        BY <1>1, <1>5, <2>4
      <4> QED BY <1>6, <3>3, <4>1, <4>2
    <3> QED BY <3>1, <3>2, <3>3
  <2> QED BY <1>10, <2>1, <2>2, <2>3, <2>4 DEF WalkCover
<1>12. WalkAcyclic'
  <2> SUFFICES ASSUME "GRAPH_CYCLE" \notin errors' PROVE WalkAcyclic'
    BY DEF WalkAcyclic
  <2>1. \A n \in visited' : Targets(graph, n)' \subseteq visited' /\ ~ Leads(graph, n, n)'
    BY <1>1, <1>5, GraphUnchanged DEF WalkAcyclic
  <2>2. \A i \in 1 .. L : \A t \in Targets(graph, path[i]) \ rest[path[i]] :
          t \in visited \/ (i < L /\ t = path[i + 1])
    BY <1>1, <1>3, <1>5 DEF WalkAcyclic
  <2>3. \A i \in 1 .. L : path[i] \in NodeIds /\ (path[i] = top => i = L)
    <3>1. \A i, j \in 1 .. L : path[i] = path[j] => i = j
      BY <1>1, <1>3 DEF WalkShape
    <3>2. \A i \in 1 .. L : path[i] \in NodeIds
      BY <1>3
    <3> QED BY <1>3, <3>1, <3>2
  <2>4. \A i \in 1 .. L : \A t \in Targets(graph, path[i]) \ rest'[path[i]] :
          t \in visited \/ (i < L /\ t = path[i + 1]) \/ (i = L /\ t = id)
    <3> SUFFICES ASSUME NEW i \in 1 .. L, NEW t \in Targets(graph, path[i]) \ rest'[path[i]]
                 PROVE  t \in visited \/ (i < L /\ t = path[i + 1]) \/ (i = L /\ t = id)
      OBVIOUS
    <3>1. CASE path[i] = top
      BY <1>6, <2>2, <2>3, <3>1
    <3>2. CASE path[i] # top
      BY <1>6, <2>2, <2>3, <3>2
    <3> QED BY <3>1, <3>2
  <2>5. CASE id \in visited /\ path' = path
    <3>1. \A i \in DOMAIN path' : \A t \in Targets(graph, path'[i]) \ rest'[path'[i]] :
            t \in visited' \/ (i < Len(path') /\ t = path'[i + 1])
      BY <1>1, <1>3, <2>4, <2>5
    <3> QED BY <1>10, <2>1, <3>1 DEF WalkAcyclic
  <2>6. CASE id \notin visiting \cup visited /\ path' = Append(path, id)
    <3>1. /\ DOMAIN path' = 1 .. (L + 1) /\ Len(path') = L + 1 /\ path'[L + 1] = id
          /\ \A i \in 1 .. L : path'[i] = path[i]
      <4>1. id \in NodeIds
        BY <1>3, <1>2
      <4> QED BY <1>3, <2>6, <4>1
    <3>2. Targets(graph, id) \ rest'[id] = {}
      <4>1. id \in NodeIds /\ id # top
        BY <1>2, <1>3, <2>6
      <4>2. rest[id] = Targets(graph, id)
        BY <1>1, <2>6, <4>1 DEF WalkCover
      <4> QED BY <1>6, <4>1, <4>2
    <3>3. ASSUME NEW i \in DOMAIN path', NEW t \in Targets(graph, path'[i]) \ rest'[path'[i]]
          PROVE  t \in visited' \/ (i < Len(path') /\ t = path'[i + 1])
      <4>1. i \in 1 .. L
        <5>1. i # L + 1
          BY <3>1, <3>2, <3>3
        <5> QED BY <1>3, <3>1, <5>1
      <4>2. path'[i] = path[i] /\ t \in Targets(graph, path[i]) \ rest'[path[i]]
        BY <3>1, <3>3, <4>1
      <4>3. t \in visited \/ (i < L /\ t = path[i + 1]) \/ (i = L /\ t = id)
        BY <2>4, <4>1, <4>2
      <4>4. i < L + 1 /\ i + 1 \in 1 .. (L + 1) /\ (i < L => i + 1 \in 1 .. L)
        BY <1>3, <4>1
      <4> QED BY <1>1, <3>1, <4>3, <4>4
    <3> QED BY <1>10, <2>1, <3>3 DEF WalkAcyclic
  <2> QED BY <1>5, <2>5, <2>6
<1>13. stage' = "walking" /\ WalkReach'
  BY <1>1, <1>5
<1> QED BY <1>7, <1>8, <1>9, <1>11, <1>12, <1>13
        DEF GraphIInv, WalkInv, Judged, ValidationIsExact, SortInv

\* The return of the last call: its node and all it leads to were visited.
LEMMA ReturnStep ==
  ASSUME GraphIInv, Return
  PROVE  GraphIInv'
<1>1. /\ GraphTypeOK /\ GraphClean /\ WalkShape /\ WalkReach /\ WalkCover /\ WalkAcyclic
      /\ stage = "walking" /\ path # <<>> /\ graph \in Graphs
      /\ UNCHANGED <<graph, stage, errors, roots, rest, gsort>>
  BY GraphTyped DEF GraphIInv, WalkInv, Return
<1> DEFINE top == Last(path)
           L == Len(path)
<1>2. /\ rest[top] = {} /\ visiting' = visiting \ {top} /\ visited' = visited \cup {top}
      /\ path' = SubSeq(path, 1, L - 1)
  BY DEF Return, Front
<1>3. /\ path \in Seq(NodeIds) /\ DOMAIN path = 1 .. L /\ L \in Nat \ {0} /\ L \in DOMAIN path
      /\ top = path[L] /\ top \in NodeIds /\ top \in visiting
  <2>1. path \in Seq(NodeIds)
    BY <1>1 DEF GraphTypeOK
  <2>2. DOMAIN path = 1 .. L /\ L \in Nat \ {0} /\ L \in DOMAIN path /\ top = path[L] /\ top \in NodeIds
    BY <1>1, <2>1 DEF Last
  <2>3. top \in visiting
    BY <1>1, <2>2 DEF WalkShape
  <2> QED BY <2>1, <2>2, <2>3
<1> HIDE DEF top
<1>4. /\ path' \in Seq(NodeIds) /\ DOMAIN path' = 1 .. (L - 1) /\ Len(path') = L - 1
      /\ \A i \in 1 .. (L - 1) : path'[i] = path[i]
  BY <1>2, <1>3
<1>5. \A i, j \in 1 .. L : path[i] = path[j] => i = j
  BY <1>1, <1>3 DEF WalkShape
<1>6. GraphTypeOK'
  BY <1>1, <1>2, <1>3, <1>4 DEF GraphTypeOK, gsort
<1>7. GraphClean'
  BY <1>1 DEF GraphClean, gsort
<1>8. WalkShape'
  <2>1. Normal(graph)' /\ Faults(graph)' = Faults(graph) /\ Triggers(graph)' = Triggers(graph)
    BY <1>1, GraphUnchanged DEF WalkShape
  <2>2. Triggers(graph)' \subseteq roots' \cup visiting' \cup visited' /\ visiting' \cap visited' = {}
    BY <1>1, <1>2, <2>1 DEF WalkShape
  <2>3. visiting' = {path'[i] : i \in DOMAIN path'}
    <3>1. visiting = {path[i] : i \in 1 .. L}
      BY <1>1, <1>3 DEF WalkShape
    <3>2. \A i \in 1 .. (L - 1) : i \in 1 .. L /\ path[i] # top
      BY <1>3, <1>5
    <3>3. \A i \in 1 .. L : path[i] = top \/ i \in 1 .. (L - 1)
      BY <1>3
    <3> QED BY <1>2, <1>4, <3>1, <3>2, <3>3
  <2>4. \A i, j \in DOMAIN path' : path'[i] = path'[j] => i = j
    BY <1>3, <1>4, <1>5
  <2> QED BY <1>1, <2>1, <2>2, <2>3, <2>4 DEF WalkShape
<1>9. WalkReach'
  <2>1. visiting' \cup visited' \subseteq Reached(graph)
    BY <1>1, <1>2, <1>3 DEF WalkReach
  <2>2. \A i, j \in DOMAIN path' : i < j => Leads(graph, path'[i], path'[j])
    BY <1>1, <1>3, <1>4 DEF WalkReach
  <2> QED BY <1>1, <2>1, <2>2 DEF WalkReach
<1>10. \A n : Targets(graph, n)' = Targets(graph, n)
  BY <1>1, GraphUnchanged
<1>11. WalkCover'
  BY <1>1, <1>2, <1>3, <1>10 DEF WalkCover
<1>12. WalkAcyclic'
  <2> SUFFICES ASSUME "GRAPH_CYCLE" \notin errors' PROVE WalkAcyclic'
    BY DEF WalkAcyclic
  <2>1. /\ \A n \in visited : Targets(graph, n) \subseteq visited /\ ~ Leads(graph, n, n)
        /\ \A i \in 1 .. L : \A t \in Targets(graph, path[i]) \ rest[path[i]] :
             t \in visited \/ (i < L /\ t = path[i + 1])
    BY <1>1, <1>3 DEF WalkAcyclic
  <2>2. Targets(graph, top) \subseteq visited
    <3>1. \A t \in Targets(graph, path[L]) \ rest[path[L]] : t \in visited
      BY <1>3, <2>1
    <3> QED BY <1>2, <1>3, <3>1
  <2>3. ~ Leads(graph, top, top)
    <3>1. visited \in SUBSET Ids(graph)
      BY <1>1, ReachedRules DEF WalkReach
    <3>2. ClosedUnder(graph, visited)
      BY <2>1 DEF ClosedUnder
    <3>3. top \notin visited
      BY <1>1, <1>3 DEF WalkShape
    <3> QED BY <2>2, <3>1, <3>2, <3>3, LeadsInto
  <2>4. \A n \in visited' : Targets(graph, n) \subseteq visited' /\ ~ Leads(graph, n, n)
    BY <1>2, <2>1, <2>2, <2>3
  <2>5. ASSUME NEW i \in DOMAIN path', NEW t \in Targets(graph, path'[i]) \ rest'[path'[i]]
        PROVE  t \in visited' \/ (i < Len(path') /\ t = path'[i + 1])
    <3>1. i \in 1 .. (L - 1) /\ i \in 1 .. L /\ path'[i] = path[i] /\ i + 1 \in 1 .. L
      BY <1>3, <1>4, <2>5
    <3>2. t \in visited \/ t = path[i + 1]
      BY <1>1, <2>1, <2>5, <3>1
    <3>3. CASE i + 1 = L
      BY <1>2, <1>3, <3>2, <3>3
    <3>4. CASE i + 1 # L
      <4>1. i + 1 \in 1 .. (L - 1) /\ i < L - 1
        BY <1>3, <3>1, <3>4
      <4> QED BY <1>2, <1>4, <3>2, <4>1
    <3> QED BY <3>3, <3>4
  <2> QED BY <1>1, <1>10, <2>4, <2>5 DEF WalkAcyclic
<1>13. stage' = "walking"
  BY <1>1
<1> QED BY <1>6, <1>7, <1>8, <1>9, <1>11, <1>12, <1>13
        DEF GraphIInv, WalkInv, Judged, ValidationIsExact, SortInv

\* The edges of a node that come from outside a set are finitely many.
LEMMA FromIsFinite ==
  ASSUME NEW g, IsFiniteSet(g.edges), NEW n, NEW S
  PROVE  IsFiniteSet(From(g, n, S)) /\ Cardinality(From(g, n, S)) \in Nat
<1>1. From(g, n, S) \in SUBSET g.edges
  BY DEF From
<1>2. IsFiniteSet(From(g, n, S))
  BY <1>1, FS_Subset
<1> QED BY <1>2, FS_CardinalityType

\* The verdict: what was visited is what is reached.
LEMMA JudgeStep ==
  ASSUME GraphIInv, Judge
  PROVE  GraphIInv'
<1>1. /\ GraphTypeOK /\ GraphClean /\ WalkShape /\ WalkReach /\ WalkCover /\ WalkAcyclic
      /\ stage = "walking" /\ path = <<>> /\ roots = {} /\ graph \in Graphs
      /\ UNCHANGED <<graph, gwalk>>
  BY GraphTyped DEF GraphIInv, WalkInv, Judge
<1>2. errors' = errors \cup (IF Ids(graph) \subseteq visited THEN {} ELSE {"GRAPH_NODE_UNREACHABLE"})
  BY DEF Judge
<1>3. visiting = {}
  BY <1>1 DEF WalkShape
<1>4. visited = Reached(graph)
  <2>1. visited \subseteq Reached(graph) /\ visited \subseteq Ids(graph)
    BY <1>1, ReachedRules DEF WalkReach
  <2>2. Triggers(graph) \subseteq visited
    BY <1>1, <1>3 DEF WalkShape
  <2>3. ClosedUnder(graph, visited)
    BY <1>1, <1>3 DEF WalkCover, ClosedUnder
  <2> QED BY <1>1, <2>1, <2>2, <2>3, ReachedRules
<1>5. "GRAPH_CYCLE" \in errors <=> \E n \in Reached(graph) : Leads(graph, n, n)
  BY <1>1, <1>4 DEF WalkReach, WalkAcyclic
<1>6. errors \ {"GRAPH_CYCLE"} = Faults(graph) /\ Normal(graph)
  BY <1>1 DEF WalkShape
<1>7. Reached(graph) \subseteq Ids(graph)
  BY <1>1, ReachedRules
<1>8. /\ "GRAPH_CYCLE" \in errors' <=> "GRAPH_CYCLE" \in errors
      /\ "GRAPH_NODE_UNREACHABLE" \in errors' <=> Reached(graph) # Ids(graph)
      /\ errors' = {} <=> Faults(graph) = {} /\ "GRAPH_CYCLE" \notin errors /\ Reached(graph) = Ids(graph)
  BY <1>2, <1>4, <1>6, <1>7, FaultCodes
<1>9. errors' = {} <=> ProperGraph(graph)
  BY <1>1, <1>5, <1>6, <1>8, ProperIsSound
<1>10. errors' \subseteq Codes
  BY <1>1, <1>2 DEF GraphTypeOK, Codes
<1>11. ASSUME (stage' = "refused" /\ errors' # {}) \/ (stage' = "sorting" /\ errors' = {})
       PROVE  Judged'
  <2>1. ProperGraph(graph)' = ProperGraph(graph) /\ Reached(graph)' = Reached(graph)
        /\ Normal(graph)' = Normal(graph) /\ Ids(graph)' = Ids(graph)
        /\ \A n : Leads(graph, n, n)' = Leads(graph, n, n)
    BY <1>1, GraphUnchanged
  <2> QED BY <1>5, <1>6, <1>8, <1>9, <1>11, <2>1 DEF Judged, ValidationIsExact
<1>12. CASE errors' # {} /\ stage' = "refused" /\ UNCHANGED gsort
  <2>1. GraphTypeOK'
    BY <1>1, <1>10, <1>12 DEF GraphTypeOK, gwalk, gsort
  <2>2. GraphClean'
    BY <1>1, <1>12 DEF GraphClean, gwalk, gsort
  <2> QED BY <1>11, <1>12, <2>1, <2>2 DEF GraphIInv, WalkInv, SortInv
<1>13. CASE /\ errors' = {} /\ stage' = "sorting"
            /\ incoming' = [n \in NodeIds |-> Degree(graph, n)]
            /\ ready' = {n \in Ids(graph) : incoming'[n] = 0}
            /\ UNCHANGED sorted
  <2>1. sorted' = <<>> /\ IsFiniteSet(graph.edges) /\ Ids(graph) \subseteq NodeIds
    BY <1>1, <1>13, GraphShapes DEF GraphClean
  <2>2. \A n : Degree(graph, n) = Cardinality(From(graph, n, {})) /\ Degree(graph, n) \in Nat
    <3> SUFFICES ASSUME NEW n
                 PROVE  Degree(graph, n) = Cardinality(From(graph, n, {})) /\ Degree(graph, n) \in Nat
      OBVIOUS
    <3>1. From(graph, n, {}) = {e \in graph.edges : e.to = n}
      BY DEF From
    <3> QED BY <2>1, <3>1, FromIsFinite DEF Degree
  <2>3. GraphTypeOK'
    <3>1. incoming' \in [NodeIds -> Nat] /\ ready' \subseteq NodeIds
      BY <1>13, <2>1, <2>2
    <3> QED BY <1>1, <1>10, <1>13, <2>1, <3>1 DEF GraphTypeOK, gwalk
  <2>4. GraphClean'
    BY <1>1, <1>13 DEF GraphClean, gwalk
  <2>5. Placed' = {}
    BY <2>1 DEF Placed
  <2>6. SortCounts'
    <3>1. sorted' \in Seq(Ids(graph)') /\ DOMAIN sorted' = {}
      BY <2>1
    <3>2. \A n \in Ids(graph) : incoming'[n] = Cardinality(From(graph, n, {}))
      BY <1>13, <2>1, <2>2
    <3>3. /\ Ids(graph)' = Ids(graph)
          /\ \A n : From(graph, n, Placed)' = From(graph, n, {})
      BY <1>1, <2>5 DEF From, Ids
    <3> QED BY <1>13, <2>5, <3>1, <3>2, <3>3 DEF SortCounts
  <2>7. SortOrder'
    BY <2>1 DEF SortOrder
  <2> QED BY <1>11, <1>13, <2>3, <2>4, <2>6, <2>7 DEF GraphIInv, WalkInv, SortInv
<1> QED BY <1>12, <1>13 DEF Judge

-----------------------------------------------------------------------------
(* The sort of compileGraph *)

\* Of a proper graph every edge is sound, and one edge joins two nodes.
LEMMA ProperEdges ==
  ASSUME NEW g \in Graphs, ProperGraph(g)
  PROVE  /\ \A e \in g.edges : e.from \in Ids(g) /\ e.to \in Ids(g) /\ e.to \in Targets(g, e.from)
         /\ \A e, f \in g.edges : e.from = f.from /\ e.to = f.to => e = f
<1>1. \A e \in g.edges : {e.from, e.to} \subseteq Ids(g) /\ e.port = "next"
  BY DEF ProperGraph
<1>2. \A e \in g.edges : e.to \in Targets(g, e.from)
  BY <1>1, SoundEdges
<1>3. ASSUME NEW e \in g.edges, NEW f \in g.edges, e.from = f.from, e.to = f.to PROVE e = f
  <2>1. /\ e \in [from : NodeIds, to : NodeIds, port : STRING]
        /\ f \in [from : NodeIds, to : NodeIds, port : STRING]
    BY GraphShapes
  <2>2. e.port = f.port
    BY <1>1
  <2> QED BY <1>3, <2>1, <2>2
<1> QED BY <1>1, <1>2, <1>3

\* A node that is placed frees each of its targets of one edge, and no other node of any.
LEMMA OneEdgeLess ==
  ASSUME NEW g \in Graphs, ProperGraph(g), IsFiniteSet(g.edges), NEW S, NEW x, x \notin S, NEW n
  PROVE  /\ n \in Targets(g, x) =>
              /\ From(g, n, S) # {}
              /\ Cardinality(From(g, n, S \cup {x})) = Cardinality(From(g, n, S)) - 1
         /\ n \notin Targets(g, x) => From(g, n, S \cup {x}) = From(g, n, S)
<1>1. CASE n \in Targets(g, x)
  <2>1. PICK e \in g.edges : e.from = x /\ e.to = n
    BY <1>1, SoundEdges
  <2>2. e \in From(g, n, S)
    BY <2>1 DEF From
  <2>3. From(g, n, S \cup {x}) = From(g, n, S) \ {e}
    <3>1. \A f \in g.edges : f.from = x /\ f.to = n => f = e
      BY <2>1, ProperEdges
    <3> QED BY <2>1, <3>1 DEF From
  <2>4. IsFiniteSet(From(g, n, S))
    BY FromIsFinite
  <2> QED BY <1>1, <2>2, <2>3, <2>4, FS_RemoveElement
<1>2. CASE n \notin Targets(g, x)
  <2>1. \A e \in g.edges : e.from = x => e.to # n
    BY <1>2, ProperEdges
  <2> QED BY <1>2, <2>1 DEF From
<1> QED BY <1>1, <1>2

\* What the counts of the sort say.
LEMMA Counted ==
  ASSUME GraphTypeOK, GraphClean, SortCounts
  PROVE  /\ \A n \in Ids(graph) : incoming[n] = 0 <=> From(graph, n, Placed) = {}
         /\ ready \subseteq Ids(graph) \ Placed
         /\ \A n \in ready : From(graph, n, Placed) = {}
         /\ sorted \in Seq(Ids(graph)) /\ DOMAIN sorted = 1 .. Len(sorted) /\ Len(sorted) \in Nat
         /\ \A i \in 1 .. Len(sorted) : sorted[i] \in Placed
         /\ \A n \in Placed : n \in Ids(graph) /\ \E i \in 1 .. Len(sorted) : sorted[i] = n
<1>1. ASSUME NEW n \in Ids(graph) PROVE incoming[n] = 0 <=> From(graph, n, Placed) = {}
  <2>1. incoming[n] = Cardinality(From(graph, n, Placed)) /\ IsFiniteSet(From(graph, n, Placed))
    BY FromIsFinite DEF SortCounts, GraphClean
  <2> QED BY <2>1, FS_EmptySet
<1>2. ready \subseteq Ids(graph) \ Placed /\ \A n \in ready : From(graph, n, Placed) = {}
  BY <1>1 DEF SortCounts
<1>3. sorted \in Seq(Ids(graph))
  BY DEF SortCounts
<1>4. DOMAIN sorted = 1 .. Len(sorted) /\ Len(sorted) \in Nat
  BY <1>3
<1>5. \A i \in 1 .. Len(sorted) : sorted[i] \in Ids(graph)
  BY <1>3
<1> QED BY <1>1, <1>2, <1>3, <1>4, <1>5 DEF Placed

\* The next node is placed.
LEMMA TakeStep ==
  ASSUME GraphIInv, Take
  PROVE  GraphIInv'
<1>1. /\ GraphTypeOK /\ GraphClean /\ SortCounts /\ SortOrder /\ ProperGraph(graph)
      /\ stage = "sorting" /\ ready # {} /\ graph \in Graphs /\ IsFiniteSet(graph.edges)
      /\ UNCHANGED <<graph, stage, errors, gwalk>>
  BY GraphTyped DEF GraphIInv, SortInv, Judged, GraphClean, Take
<1> DEFINE node == Min(ready)
           targets == Targets(graph, node)
           L == Len(sorted)
<1>2. /\ sorted' = Append(sorted, node)
      /\ incoming' = [n \in NodeIds |-> IF n \in targets THEN incoming[n] - 1 ELSE incoming[n]]
      /\ ready' = (ready \ {node}) \cup {n \in targets : incoming'[n] = 0}
  BY DEF Take
<1>3. node \in ready /\ (\A y \in ready : node =< y) /\ node \in Ids(graph) /\ node \notin Placed
      /\ Ids(graph) \subseteq NodeIds /\ targets \subseteq Ids(graph)
  <2>1. ready \in SUBSET Nat
    BY <1>1, GraphAssumption DEF GraphTypeOK
  <2> QED BY <1>1, <2>1, Smallest, Counted, GraphShapes
<1> HIDE DEF node, targets
<1>4. /\ sorted \in Seq(Ids(graph)) /\ DOMAIN sorted = 1 .. L /\ L \in Nat
      /\ \A i \in 1 .. L : sorted[i] \in Placed
      /\ \A n \in Placed : n \in Ids(graph) /\ \E i \in 1 .. L : sorted[i] = n
  BY <1>1, Counted
<1>5. /\ sorted' \in Seq(Ids(graph)) /\ DOMAIN sorted' = 1 .. (L + 1) /\ sorted'[L + 1] = node
      /\ \A i \in 1 .. L : sorted'[i] = sorted[i]
      /\ \A i \in 1 .. (L + 1) : i \in 1 .. L \/ i = L + 1
      /\ \A i \in 1 .. L : i < L + 1 /\ i \in 1 .. (L + 1)
      /\ L + 1 \in 1 .. (L + 1)
  BY <1>2, <1>3, <1>4
<1>6. Placed' = Placed \cup {node}
  BY <1>4, <1>5, SMTT(30) DEF Placed
<1>7. \A n \in Ids(graph) :
        /\ n \in targets => /\ From(graph, n, Placed) # {}
                            /\ Cardinality(From(graph, n, Placed \cup {node}))
                                 = Cardinality(From(graph, n, Placed)) - 1
        /\ n \notin targets => From(graph, n, Placed \cup {node}) = From(graph, n, Placed)
  BY <1>1, <1>3, OneEdgeLess DEF targets
<1>8. From(graph, node, Placed) = {} /\ node \notin targets
  <2>1. From(graph, node, Placed) = {}
    BY <1>1, <1>3, Counted
  <2> QED BY <1>3, <1>7, <2>1
<1>9. \A n \in NodeIds : incoming[n] \in Nat
      /\ incoming'[n] = IF n \in targets THEN incoming[n] - 1 ELSE incoming[n]
  BY <1>1, <1>2 DEF GraphTypeOK
<1>10. \A n \in Ids(graph) : incoming'[n] = Cardinality(From(graph, n, Placed \cup {node}))
  <2>1. \A n \in Ids(graph) : incoming[n] = Cardinality(From(graph, n, Placed))
    BY <1>1 DEF SortCounts
  <2> QED BY <1>3, <1>7, <1>9, <2>1
<1>11. \A n \in NodeIds : incoming'[n] \in Nat
  <2>1. \A n \in Ids(graph) : incoming'[n] \in Nat
    BY <1>1, <1>10, FromIsFinite
  <2>2. \A n \in NodeIds \ Ids(graph) : incoming'[n] = incoming[n]
    BY <1>3, <1>9
  <2> QED BY <1>9, <2>1, <2>2
<1>12. \A n \in targets : n \notin Placed
  <2> SUFFICES ASSUME NEW n \in targets, n \in Placed PROVE FALSE
    OBVIOUS
  <2>1. PICK i \in 1 .. L : sorted[i] = n
    BY <1>4
  <2>2. PICK e \in graph.edges : e.from = node /\ e.to = n
    BY <1>1, SoundEdges DEF targets
  <2>3. \E j \in 1 .. L : sorted[j] = node
    BY <1>1, <1>4, <2>1, <2>2 DEF SortOrder
  <2> QED BY <1>3, <1>4, <2>3
<1>13. ready' = {n \in Ids(graph) \ (Placed \cup {node}) : incoming'[n] = 0}
  <2>1. ready = {n \in Ids(graph) \ Placed : incoming[n] = 0}
    BY <1>1 DEF SortCounts
  <2>2. \A n \in ready : n \notin targets
    BY <1>1, <1>3, <1>7, Counted
  <2>3. \A n \in Ids(graph) : n \notin targets => incoming'[n] = incoming[n]
    BY <1>3, <1>9
  <2> QED BY <1>2, <1>3, <1>8, <1>12, <2>1, <2>2, <2>3
<1>14. GraphTypeOK'
  <2>1. incoming' \in [NodeIds -> Nat]
    BY <1>2, <1>11
  <2>2. sorted' \in Seq(NodeIds)
    BY <1>3, <1>5
  <2>3. ready' \subseteq NodeIds
    BY <1>3, <1>13
  <2> QED BY <1>1, <2>1, <2>2, <2>3 DEF GraphTypeOK, gwalk
<1>15. GraphClean'
  BY <1>1 DEF GraphClean, gwalk
<1>16. SortCounts'
  <2>1. Ids(graph)' = Ids(graph) /\ \A n, S : From(graph, n, S)' = From(graph, n, S)
    BY <1>1 DEF Ids, From
  <2>2. \A i, j \in DOMAIN sorted' : sorted'[i] = sorted'[j] => i = j
    <3>1. \A i, j \in 1 .. L : sorted[i] = sorted[j] => i = j
      BY <1>1, <1>4 DEF SortCounts
    <3> QED BY <1>3, <1>4, <1>5, <3>1
  <2>3. \A n \in Ids(graph)' : incoming'[n] = Cardinality(From(graph, n, Placed)')
    BY <1>1, <1>6, <1>10, <2>1 DEF From
  <2> QED BY <1>5, <1>6, <1>13, <2>1, <2>2, <2>3 DEF SortCounts
<1>17. SortOrder'
  <2>1. ASSUME NEW i \in DOMAIN sorted', NEW e \in graph.edges, e.to = sorted'[i]
        PROVE  \E j \in DOMAIN sorted' : j < i /\ sorted'[j] = e.from
    <3>1. CASE i \in 1 .. L
      <4>1. PICK j \in 1 .. L : j < i /\ sorted[j] = e.from
        BY <1>1, <1>4, <1>5, <2>1, <3>1 DEF SortOrder
      <4> QED BY <1>5, <4>1
    <3>2. CASE i = L + 1
      <4>1. e.from \in Placed
        BY <1>5, <1>8, <2>1, <3>2 DEF From
      <4>2. PICK j \in 1 .. L : sorted[j] = e.from
        BY <1>4, <4>1
      <4> QED BY <1>5, <3>2, <4>2
    <3> QED BY <1>5, <3>1, <3>2
  <2>2. ASSUME NEW i \in DOMAIN sorted', NEW n \in Ids(graph), n < sorted'[i]
        PROVE  \/ \E k \in DOMAIN sorted' : k < i /\ sorted'[k] = n
               \/ \E e \in graph.edges :
                    e.to = n /\ \A k \in DOMAIN sorted' : k < i => sorted'[k] # e.from
    <3>1. CASE i \in 1 .. L
      <4>1. \/ \E k \in 1 .. L : k < i /\ sorted[k] = n
            \/ \E e \in graph.edges : e.to = n /\ \A k \in 1 .. L : k < i => sorted[k] # e.from
        <5> DEFINE P(D) == \A x \in D : \A m \in Ids(graph) :
                             m < sorted[x] =>
                               \/ \E k \in D : k < x /\ sorted[k] = m
                               \/ \E e \in graph.edges :
                                    e.to = m /\ \A k \in D : k < x => sorted[k] # e.from
        <5>3. P(DOMAIN sorted)
          BY <1>1 DEF SortOrder
        <5>4. DOMAIN sorted = 1 .. L
          BY <1>4
        <5>1. P(1 .. L)
          <6> HIDE DEF P, L
          <6> QED BY <5>3, <5>4
        <5>2. n < sorted[i]
          BY <1>5, <2>2, <3>1
        <5> HIDE DEF L
        <5> QED BY <3>1, <5>1, <5>2, <2>2
      <4>2. \A k \in 1 .. (L + 1) : k < i => k \in 1 .. L
        BY <1>4, <3>1
      <4> QED BY <1>5, <4>1, <4>2
    <3>2. CASE i = L + 1
      <4>1. CASE n \in Placed
        BY <1>4, <1>5, <3>2, <4>1
      <4>2. CASE n \notin Placed
        <5>1. n \notin ready
          <6>1. n \in Nat /\ node \in Nat
            BY <1>3, GraphAssumption
          <6> QED BY <1>3, <1>5, <2>2, <3>2, <6>1
        <5>2. From(graph, n, Placed) # {}
          BY <1>1, <4>2, <5>1, Counted DEF SortCounts
        <5>3. PICK e \in graph.edges : e.to = n /\ e.from \notin Placed
          BY <5>2 DEF From
        <5>4. \A k \in 1 .. (L + 1) : k < L + 1 => k \in 1 .. L
          BY <1>4
        <5> QED BY <1>4, <1>5, <3>2, <5>3, <5>4
      <4> QED BY <4>1, <4>2
    <3> QED BY <1>5, <3>1, <3>2
  <2> QED BY <1>1, <2>1, <2>2 DEF SortOrder, Ids
<1>18. stage' = "sorting" /\ Judged'
  BY <1>1, GraphUnchanged DEF GraphIInv, Judged, ValidationIsExact
<1> QED BY <1>14, <1>15, <1>16, <1>17, <1>18 DEF GraphIInv, WalkInv, SortInv

\* The report and the answer leave nothing to prove but what the states before them had.
LEMMA ReportStep ==
  ASSUME GraphIInv, Report
  PROVE  GraphIInv'
<1>1. /\ GraphTypeOK /\ GraphClean /\ SortCounts /\ SortOrder /\ ProperGraph(graph) /\ errors = errors'
      /\ stage = "sorting" /\ stage' = "simulated" /\ ready = {}
      /\ UNCHANGED <<graph, errors, gwalk, gsort>>
  BY DEF GraphIInv, SortInv, Judged, Report
<1>2. GraphTypeOK' /\ GraphClean'
  BY <1>1 DEF GraphTypeOK, GraphClean, gwalk, gsort
<1>3. Judged'
  BY <1>1, GraphUnchanged DEF GraphIInv, Judged, ValidationIsExact
<1>4. SortCounts' /\ SortOrder'
  BY <1>1 DEF SortCounts, SortOrder, Placed, gsort
<1> QED BY <1>1, <1>2, <1>3, <1>4 DEF GraphIInv, WalkInv, SortInv, gsort

LEMMA GraphAnswerStep ==
  ASSUME GraphIInv, Answer
  PROVE  GraphIInv'
<1>1. /\ GraphTypeOK /\ GraphClean /\ graph' = graph
      /\ stage' = "drawing" /\ errors' = {}
      /\ roots' = {} /\ path' = <<>> /\ rest' = [n \in NodeIds |-> {}]
      /\ visiting' = {} /\ visited' = {}
      /\ incoming' = [n \in NodeIds |-> 0] /\ ready' = {} /\ sorted' = <<>>
  BY DEF GraphIInv, Answer
<1>2. GraphTypeOK' /\ GraphClean'
  BY <1>1 DEF GraphTypeOK, GraphClean
<1> QED BY <1>1, <1>2 DEF GraphIInv, WalkInv, Judged, ValidationIsExact, SortInv

LEMMA GraphNextInv == GraphIInv /\ [GraphNext]_grvars => GraphIInv'
<1> SUFFICES ASSUME GraphIInv, [GraphNext]_grvars PROVE GraphIInv'
  OBVIOUS
<1>1. CASE UNCHANGED grvars
  <2>1. /\ UNCHANGED <<graph, stage, errors, roots, path, rest, visiting, visited>>
        /\ UNCHANGED <<incoming, ready, sorted>>
    BY <1>1 DEF grvars, gwalk, gsort
  <2>2. GraphTypeOK' /\ GraphClean'
    BY <2>1 DEF GraphIInv, GraphTypeOK, GraphClean
  <2>3. Judged'
    BY <2>1, GraphUnchanged DEF GraphIInv, Judged, ValidationIsExact
  <2>4. WalkInv'
    <3>1. WalkShape => WalkShape'
      BY <2>1, GraphUnchanged DEF WalkShape
    <3>2. WalkReach => WalkReach'
      BY <2>1, GraphUnchanged DEF WalkReach
    <3>3. WalkCover => WalkCover'
      BY <2>1, GraphUnchanged DEF WalkCover
    <3>4. WalkAcyclic => WalkAcyclic'
      BY <2>1, GraphUnchanged DEF WalkAcyclic
    <3> QED BY <2>1, <3>1, <3>2, <3>3, <3>4 DEF GraphIInv, WalkInv
  <2>5. SortInv'
    <3>1. SortCounts => SortCounts'
      BY <2>1 DEF SortCounts, Placed
    <3>2. SortOrder => SortOrder'
      BY <2>1 DEF SortOrder, Ids
    <3> QED BY <2>1, <3>1, <3>2 DEF GraphIInv, SortInv
  <2> QED BY <2>2, <2>3, <2>4, <2>5 DEF GraphIInv
<1>2. CASE Submit
  BY <1>2, SubmitStep
<1>3. CASE WalkRoot
  BY <1>3, WalkRootStep
<1>4. CASE WalkTarget
  BY <1>4, WalkTargetStep
<1>5. CASE Return
  BY <1>5, ReturnStep
<1>6. CASE Judge
  BY <1>6, JudgeStep
<1>7. CASE Take
  BY <1>7, TakeStep
<1>8. CASE Report
  BY <1>8, ReportStep
<1>9. CASE Answer
  BY <1>9, GraphAnswerStep
<1> QED BY <1>1, <1>2, <1>3, <1>4, <1>5, <1>6, <1>7, <1>8, <1>9, EditorStep DEF GraphNext

\* The invariant of the walk and the sort, the types included, in every reachable state.
THEOREM GraphInvariance == GraphSpec => []GraphIInv
  BY GraphInitInv, GraphNextInv, PTL DEF GraphSpec

\* The validation refuses what it should and nothing else: the walk of validateGraph finds a
\* cycle when a trigger leads to one and misses a node when no trigger leads to it, in
\* graphs of any size, drawn and walked in any order.
THEOREM ExactValidation == GraphSpec => []ValidationIsExact
<1>1. GraphIInv => ValidationIsExact
  BY DEF GraphIInv, Judged
<1> QED BY <1>1, GraphInvariance, PTL

-----------------------------------------------------------------------------
(* The order that is reported *)

\* Nothing is ready only when every node is placed: of the others, one with the fewest nodes
\* that lead to it would still have an edge from another, and that one fewer.
LEMMA AllPlaced ==
  ASSUME GraphTypeOK, GraphClean, SortCounts, ProperGraph(graph), ready = {}
  PROVE  Placed = Ids(graph)
<1> DEFINE Nodes == Ids(graph)
           Left == Nodes \ Placed
           Before(n) == {m \in Nodes : Leads(graph, m, n)}
           Befores == {Before(n) : n \in Left}
<1>1. graph \in Graphs /\ IsFiniteSet(Nodes) /\ Placed \subseteq Nodes
  BY GraphTyped, IdsAreFinite, Counted
<1>2. SUFFICES ASSUME Left # {} PROVE FALSE
  BY <1>1
<1>3. PICK n \in Left : \A m \in Left : ~ (<<Before(m), Before(n)>> \in StrictSubsetOrdering(Nodes))
  <2>1. IsWellFoundedOn(StrictSubsetOrdering(Nodes), FiniteSubsetsOf(Nodes))
    BY FS_StrictSubsetOrderingWellFounded
  <2>2. Befores \subseteq FiniteSubsetsOf(Nodes) /\ Befores # {}
    <3>1. Befores \subseteq SUBSET Nodes /\ Befores # {}
      BY <1>2
    <3>2. FiniteSubsetsOf(Nodes) = SUBSET Nodes
      BY <1>1, FS_FiniteSubsetsOfFinite
    <3> HIDE DEF Nodes, Befores
    <3> QED BY <3>1, <3>2
  <2> HIDE DEF Befores
  <2>3. \E x \in Befores : \A y \in Befores : ~ (<<y, x>> \in StrictSubsetOrdering(Nodes))
    BY <2>1, <2>2, WFMin
  <2> QED BY <2>3 DEF Befores
<1>4. PICK e \in graph.edges : e.to = n /\ e.from \notin Placed
  <2>1. From(graph, n, Placed) # {}
    BY Counted DEF SortCounts
  <2> QED BY <2>1 DEF From
<1>5. e.from \in Left /\ n \in Targets(graph, e.from)
  BY <1>1, <1>4, ProperEdges
<1>6. Leads(graph, e.from, n)
  BY <1>1, <1>5, LeadsRules
<1>7. Before(e.from) \subseteq Before(n)
  BY <1>1, <1>6, LeadsRules
<1>8. e.from \in Before(n) /\ e.from \notin Before(e.from)
  BY <1>5, <1>6 DEF ProperGraph
<1>9. <<Before(e.from), Before(n)>> \in StrictSubsetOrdering(Nodes)
  BY <1>7, <1>8 DEF StrictSubsetOrdering
<1> QED BY <1>3, <1>5, <1>9

\* A sequence that has each element of a set once is as long as the set is large.
LEMMA OnceEach ==
  ASSUME NEW S, NEW o \in Seq(S), \A n \in S : \E i \in DOMAIN o : o[i] = n,
         \A i, j \in DOMAIN o : o[i] = o[j] => i = j
  PROVE  Cardinality(S) = Len(o)
<1> DEFINE L == Len(o)
<1>1. DOMAIN o = 1 .. L /\ L \in Nat
  OBVIOUS
<1>2. IsFiniteSet(1 .. L) /\ Cardinality(1 .. L) = L
  <2>1. 1 \in Int /\ L \in Int
    BY <1>1
  <2>2. IsFiniteSet(1 .. L) /\ Cardinality(1 .. L) = IF 1 > L THEN 0 ELSE L - 1 + 1
    BY <2>1, FS_Interval
  <2> QED BY <1>1, <2>2
<1>3. o \in Surjection(1 .. L, S) /\ o \in Injection(1 .. L, S)
  <2>1. o \in [1 .. L -> S]
    BY <1>1
  <2> QED BY <1>1, <2>1 DEF Surjection, Injection, IsInjective
<1> QED BY <1>2, <1>3, FS_Surjection

\* An order of a graph as the simulation has to report it: each node once, none before one
\* that leads to it, and the smaller of two first unless it had to wait.
InOrder(g, o) ==
  /\ o \in Seq(Ids(g)) /\ \A n \in Ids(g) : \E i \in DOMAIN o : o[i] = n
  /\ \A i, j \in DOMAIN o : o[i] = o[j] => i = j
  /\ \A i, j \in DOMAIN o :
       /\ Leads(g, o[i], o[j]) => i < j
       /\ i < j /\ o[j] < o[i] => \E k \in i .. (j - 1) : o[j] \in Targets(g, o[k])

\* What the sort ends with.
LEMMA OrderedTrace ==
  ASSUME GraphIInv, stage = "simulated"
  PROVE  SimulationIsOrdered /\ InOrder(graph, sorted)
<1> DEFINE L == Len(sorted)
<1>1. /\ GraphTypeOK /\ GraphClean /\ SortCounts /\ SortOrder /\ ProperGraph(graph)
      /\ ready = {} /\ graph \in Graphs
  BY GraphTyped DEF GraphIInv, SortInv, Judged
<1>2. /\ sorted \in Seq(Ids(graph)) /\ DOMAIN sorted = 1 .. L /\ L \in Nat
      /\ \A i \in 1 .. L : sorted[i] \in Ids(graph)
      /\ \A n \in Ids(graph) : \E i \in 1 .. L : sorted[i] = n
      /\ \A i, j \in 1 .. L : sorted[i] = sorted[j] => i = j
  BY <1>1, AllPlaced, Counted DEF SortCounts
<1>3. /\ \A i \in 1 .. L : \A e \in graph.edges :
           e.to = sorted[i] => \E j \in 1 .. L : j < i /\ sorted[j] = e.from
      /\ \A i \in 1 .. L : \A n \in Ids(graph) :
           n < sorted[i] => \/ \E k \in 1 .. L : k < i /\ sorted[k] = n
                            \/ \E e \in graph.edges :
                                 e.to = n /\ \A k \in 1 .. L : k < i => sorted[k] # e.from
  BY <1>1, <1>2, SMTT(30) DEF SortOrder
<1>4. \A i \in 1 .. L : \A n \in Ids(graph) :
        sorted[i] \in Targets(graph, n) => \E j \in 1 .. L : j < i /\ sorted[j] = n
  BY <1>1, <1>3, SoundEdges
<1>5. L = Len(graph.nodes)
  <2>1. Cardinality(Ids(graph)) = L
    BY <1>2, OnceEach
  <2>2. Normal(graph)
    BY <1>1, ProperIsSound
  <2> QED BY <2>1, <2>2 DEF Normal
<1>6. ASSUME NEW i \in 1 .. L, NEW j \in 1 .. L, Leads(graph, sorted[i], sorted[j])
      PROVE  i < j
  <2> DEFINE S == {sorted[k] : k \in {x \in 1 .. L : i < x}}
  <2>1. S \in SUBSET Ids(graph)
    BY <1>2
  <2>2. ASSUME NEW k \in 1 .. L, i =< k, NEW t \in Targets(graph, sorted[k]) PROVE t \in S
    <3>1. t \in Ids(graph)
      BY <1>1, GraphShapes
    <3>2. PICK x \in 1 .. L : sorted[x] = t
      BY <1>2, <3>1
    <3>3. PICK y \in 1 .. L : y < x /\ sorted[y] = sorted[k]
      BY <1>2, <1>4, <2>2, <3>2
    <3>4. y = k
      BY <1>2, <3>3
    <3>5. i < x
      BY <2>2, <3>3, <3>4
    <3> QED BY <3>2, <3>5
  <2>3. Targets(graph, sorted[i]) \subseteq S /\ ClosedUnder(graph, S)
    <3>1. Targets(graph, sorted[i]) \subseteq S
      BY <2>2
    <3>2. ASSUME NEW n \in S PROVE Targets(graph, n) \subseteq S
      <4>1. PICK k \in 1 .. L : i < k /\ n = sorted[k]
        OBVIOUS
      <4>2. i =< k
        BY <4>1
      <4> HIDE DEF S
      <4> QED BY <2>2, <4>1, <4>2
    <3> QED BY <3>1, <3>2 DEF ClosedUnder
  <2>4. sorted[j] \in S
    <3> HIDE DEF S
    <3> QED BY <1>6, <2>1, <2>3, LeadsInto
  <2>5. PICK k \in 1 .. L : i < k /\ sorted[k] = sorted[j]
    BY <2>4
  <2> QED BY <1>2, <2>5
<1>7. ASSUME NEW i \in 1 .. L, NEW j \in 1 .. L, i < j, sorted[j] < sorted[i]
      PROVE  \E k \in i .. (j - 1) : sorted[j] \in Targets(graph, sorted[k])
  <2>1. ~ \E k \in 1 .. L : k < i /\ sorted[k] = sorted[j]
    BY <1>2, <1>7
  <2>2. PICK e \in graph.edges : e.to = sorted[j] /\ \A k \in 1 .. L : k < i => sorted[k] # e.from
    BY <1>2, <1>3, <1>7, <2>1
  <2>3. PICK k \in 1 .. L : k < j /\ sorted[k] = e.from
    BY <1>3, <2>2
  <2>4. ~ (k < i)
    BY <2>2, <2>3
  <2>5. k \in i .. (j - 1)
    BY <2>3, <2>4
  <2>6. sorted[j] \in Targets(graph, sorted[k])
    BY <1>1, <2>2, <2>3, ProperEdges
  <2> QED BY <2>5, <2>6
<1>8. 1 \in 1 .. L /\ sorted[1] \in Triggers(graph)
  <2>1. PICK t \in Ids(graph) : Triggers(graph) = {t}
    BY <1>1 DEF ProperGraph
  <2>2. 1 \in 1 .. L
    BY <1>2, <2>1
  <2>3. CASE sorted[1] # t
    <3> DEFINE S == Ids(graph) \ {sorted[1]}
    <3>1. Leads(graph, t, sorted[1])
      <4>1. sorted[1] \in Reached(graph)
        BY <1>1, <1>2, <2>2 DEF ProperGraph
      <4> QED BY <2>1, <2>3, <4>1 DEF Reached
    <3>2. \A n \in Ids(graph) : Targets(graph, n) \subseteq S
      <4>1. \A n \in Ids(graph) : sorted[1] \notin Targets(graph, n)
        BY <1>2, <1>4, <2>2
      <4> QED BY <1>1, <4>1, GraphShapes
    <3>3. S \in SUBSET Ids(graph) /\ Targets(graph, t) \subseteq S /\ ClosedUnder(graph, S)
      BY <2>1, <3>2 DEF ClosedUnder
    <3>4. sorted[1] \in S
      <4> HIDE DEF S
      <4> QED BY <3>1, <3>3, LeadsInto
    <3> QED BY <3>4
  <2> QED BY <2>1, <2>2, <2>3
<1> DEFINE trace == Simulate(graph, sorted)
<1>9. /\ DOMAIN trace = 1 .. L /\ Len(trace) = L
      /\ \A i \in 1 .. L : trace[i].node = sorted[i]
      /\ trace[1].outcome = "evaluated"
  <2>1. trace = [i \in 1 .. L |-> [node |-> sorted[i],
                                   outcome |-> IF sorted[i] \in Triggers(graph) THEN "evaluated"
                                               ELSE "would_execute"]]
    BY <1>2 DEF Simulate
  <2> HIDE DEF trace
  <2> QED BY <1>2, <1>8, <2>1
<1> HIDE DEF trace
<1>10. {trace[i].node : i \in DOMAIN trace} = Ids(graph)
  BY <1>2, <1>9
<1>11. \A i, j \in DOMAIN trace :
         /\ Leads(graph, trace[i].node, trace[j].node) => i < j
         /\ i < j /\ trace[j].node < trace[i].node =>
              \E k \in i .. (j - 1) : trace[j].node \in Targets(graph, trace[k].node)
  <2> SUFFICES ASSUME NEW i \in 1 .. L, NEW j \in 1 .. L
               PROVE  /\ Leads(graph, sorted[i], sorted[j]) => i < j
                      /\ i < j /\ sorted[j] < sorted[i] =>
                           \E k \in i .. (j - 1) : sorted[j] \in Targets(graph, trace[k].node)
    BY <1>9
  <2>1. \A k \in i .. (j - 1) : trace[k].node = sorted[k]
    <3>1. \A k \in i .. (j - 1) : k \in 1 .. L
      BY <1>2
    <3> QED BY <1>9, <3>1
  <2> QED BY <1>6, <1>7, <2>1
<1>12. SimulationIsOrdered
  BY <1>5, <1>9, <1>10, <1>11 DEF SimulationIsOrdered, trace
<1>13. InOrder(graph, sorted)
  BY <1>2, <1>6, <1>7 DEF InOrder
<1> QED BY <1>12, <1>13

\* The simulation reports each node of an accepted graph once, its trigger first, no node
\* before one that leads to it, and the smaller of two ids first unless the other leads to
\* it: topologicalNodes is a function of the graph, however it was drawn.
THEOREM OrderedSimulation == GraphSpec => []SimulationIsOrdered
<1>1. GraphIInv => SimulationIsOrdered
  BY OrderedTrace DEF SimulationIsOrdered
<1> QED BY <1>1, GraphInvariance, PTL

\* Graphs of the same ids and edges have the same orders.
LEMMA SameOrders ==
  ASSUME NEW g, NEW h, Ids(g) = Ids(h), g.edges = h.edges, NEW o, InOrder(g, o)
  PROVE  InOrder(h, o)
<1>1. \A n : Targets(g, n) = Targets(h, n)
  BY DEF Targets, EdgeFault
<1>2. \A a, b : Leads(g, a, b) <=> Leads(h, a, b)
  BY <1>1 DEF Leads
<1> QED BY <1>1, <1>2 DEF InOrder

\* Where two orders first differ, each node comes later in the other order: the greater one
\* of the two cannot be first there, for what the smaller waits for is before the place.
LEMMA LaterInTheOther ==
  ASSUME NEW g \in Graphs, NEW s, InOrder(g, s), NEW t, InOrder(g, t),
         NEW i \in DOMAIN s, i \in DOMAIN t, s[i] # t[i],
         \A k \in 1 .. (i - 1) : k \in DOMAIN s /\ k \in DOMAIN t /\ s[k] = t[k]
  PROVE  ~ (s[i] < t[i])
<1> SUFFICES ASSUME s[i] < t[i] PROVE FALSE
  OBVIOUS
<1>1. /\ s \in Seq(Ids(g)) /\ t \in Seq(Ids(g)) /\ DOMAIN s \subseteq Nat \ {0}
      /\ DOMAIN t \subseteq Nat \ {0} /\ s[i] \in Ids(g) /\ i \in Nat \ {0}
  <2>1. s \in Seq(Ids(g)) /\ t \in Seq(Ids(g))
    BY DEF InOrder
  <2> QED BY <2>1
<1>2. PICK j \in DOMAIN t : t[j] = s[i]
  BY <1>1 DEF InOrder
<1>3. i < j
  <2>1. j # i
    BY <1>2
  <2>2. CASE j < i
    <3>1. j \in 1 .. (i - 1)
      BY <1>1, <2>2
    <3>2. j \in DOMAIN s /\ s[j] = s[i]
      BY <1>2, <3>1
    <3> QED BY <2>2, <3>2, <1>1 DEF InOrder
  <2> QED BY <1>1, <2>1, <2>2
<1>4. PICK k \in i .. (j - 1) : t[j] \in Targets(g, t[k])
  BY <1>2, <1>3 DEF InOrder
<1>5. k \in DOMAIN t /\ t[k] \in Ids(g)
  BY <1>1, <1>3, <1>4
<1>6. PICK m \in DOMAIN s : s[m] = t[k]
  BY <1>5 DEF InOrder
<1>7. Leads(g, s[m], s[i])
  BY <1>2, <1>4, <1>6, LeadsRules
<1>8. m < i
  BY <1>7 DEF InOrder
<1>9. m \in DOMAIN t /\ t[m] = t[k]
  <2>1. m \in 1 .. (i - 1)
    BY <1>1, <1>8
  <2> QED BY <1>6, <2>1
<1>10. m = k
  BY <1>5, <1>9 DEF InOrder
<1> QED BY <1>1, <1>4, <1>8, <1>10

\* A graph has one order at most.
LEMMA OneOrder ==
  ASSUME NEW g \in Graphs, NEW s, InOrder(g, s), NEW t, InOrder(g, t)
  PROVE  s = t
<1>1. /\ s \in Seq(Ids(g)) /\ t \in Seq(Ids(g)) /\ Ids(g) \subseteq Nat
      /\ DOMAIN s = 1 .. Len(s) /\ DOMAIN t = 1 .. Len(t) /\ Len(s) \in Nat /\ Len(t) \in Nat
  <2>1. s \in Seq(Ids(g)) /\ t \in Seq(Ids(g))
    BY DEF InOrder
  <2>2. Ids(g) \subseteq Nat
    BY GraphShapes, GraphAssumption DEF GraphAssumption
  <2> QED BY <2>1, <2>2
<1>2. Len(s) = Len(t)
  <2>1. Cardinality(Ids(g)) = Len(s) /\ Cardinality(Ids(g)) = Len(t)
    BY OnceEach DEF InOrder
  <2> QED BY <2>1
<1>3. SUFFICES ASSUME s # t PROVE FALSE
  OBVIOUS
<1> DEFINE D == {i \in 1 .. Len(s) : s[i] # t[i]}
<1>4. D # {} /\ D \in SUBSET Nat
  <2>1. \E i \in 1 .. Len(s) : s[i] # t[i]
    BY <1>1, <1>2, <1>3, SMTT(30)
  <2>2. D # {}
    BY <2>1, Zenon
  <2>3. D \in SUBSET Nat
    BY <1>1
  <2> QED BY <2>2, <2>3
<1> HIDE DEF D
<1>5. Min(D) \in D /\ \A y \in D : Min(D) =< y
  BY <1>4, Smallest
<1>6. PICK i \in D : \A y \in D : i =< y
  BY <1>5
<1>7. /\ i \in DOMAIN s /\ i \in DOMAIN t /\ s[i] # t[i]
      /\ \A k \in 1 .. (i - 1) : k \in DOMAIN s /\ k \in DOMAIN t /\ s[k] = t[k]
  BY <1>1, <1>2, <1>6 DEF D
<1>8. ~ (s[i] < t[i])
  BY <1>7, LaterInTheOther
<1>9. ~ (t[i] < s[i])
  <2>1. t[i] # s[i] /\ \A k \in 1 .. (i - 1) : k \in DOMAIN t /\ k \in DOMAIN s /\ t[k] = s[k]
    BY <1>7
  <2> QED BY <1>7, <2>1, LaterInTheOther
<1>10. s[i] \in Nat /\ t[i] \in Nat
  BY <1>1, <1>7
<1> QED BY <1>7, <1>8, <1>9, <1>10

\* What compileGraph makes of a graph is determined by its ids and edges, in whatever order
\* they are listed: of every graph that has those of the submitted one, the order that is
\* simulated is the one that SimulationIsOrdered allows.
THEOREM CompilationIsDetermined ==
  GraphSpec => [](stage = "simulated" =>
                    \A g \in Graphs : Ids(g) = Ids(graph) /\ g.edges = graph.edges =>
                      \A o : InOrder(g, o) <=> o = sorted)
<1>1. ASSUME GraphIInv, stage = "simulated", NEW g \in Graphs, Ids(g) = Ids(graph),
             g.edges = graph.edges, NEW o
      PROVE  InOrder(g, o) <=> o = sorted
  <2>1. graph \in Graphs /\ InOrder(graph, sorted)
    BY <1>1, GraphTyped, OrderedTrace DEF GraphIInv
  <2>2. InOrder(g, o) <=> InOrder(graph, o)
    BY <1>1, SameOrders
  <2> QED BY <2>1, <2>2, OneOrder
<1>2. GraphIInv => (stage = "simulated" =>
                      \A g \in Graphs : Ids(g) = Ids(graph) /\ g.edges = graph.edges =>
                        \A o : InOrder(g, o) <=> o = sorted)
  BY <1>1
<1> QED BY <1>2, GraphInvariance, PTL
=============================================================================
