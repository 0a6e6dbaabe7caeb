----------------------------- MODULE RuleEngine -----------------------------
(***************************************************************************)
(* The execution of automation rules: executeRule, awaiting one handler    *)
(* after the other, by runs that overlap and share the set of executed     *)
(* keys.  A run keeps the rule as it was read; a handler may fail after it *)
(* took effect; the set is in memory and a restart empties it.             *)
(***************************************************************************)
EXTENDS Naturals, Sequences, FiniteSets

CONSTANTS
  Runs,      \* calls of executeRule
  Rules,     \* each a tenant, a trigger, the events its conditions match, and actions
  Events,    \* each an id, a tenant and a type
  MaxDone    \* bound on how often an action of a rule is carried out for one event

ActionTypes == {"assign_queue", "assign_user", "add_tag", "send_template", "create_task",
                "handoff"}

Triggering == {"conversation.opened", "message.received", "sla.breached", "schedule.elapsed"}

ASSUME RuleEngineAssumption ==
  /\ \A r \in Rules : r.actions \in Seq(ActionTypes) /\ r.trigger \in Triggering
  /\ MaxDone \in Nat \ {0}
  /\ IsFiniteSet(Runs)

VARIABLES
  rule_status,  \* the status of each rule
  executed,     \* the keys, <<rule, event>>, of what is done
  done,         \* how often each action was carried out, by key
  rule_run      \* each call

revars == <<rule_status, executed, done, rule_run>>
-----------------------------------------------------------------------------
Transitions ==
  [draft |-> {"active", "archived"}, active |-> {"paused", "archived"},
   paused |-> {"active", "archived"}, archived |-> {}]

EventKey == Rules \X Events

Resting == [pc |-> "idle"]

\* The index of the next action, one past the last when none is left.
RuleRun ==
  {x \in [pc : {"running"}, key : EventKey, next : Nat \ {0}] :
     x.next <= Len(x.key[1].actions) + 1}

RuleEngineInit ==
  /\ rule_status = [r \in Rules |-> "draft"]
  /\ executed = {}
  /\ done = [k \in EventKey |-> [i \in DOMAIN k[1].actions |-> 0]]
  /\ rule_run = [w \in Runs |-> Resting]

TransitionAutomationRule(r, status) ==
  /\ status \in Transitions[rule_status[r]]
  /\ rule_status' = [rule_status EXCEPT ![r] = status]
  /\ UNCHANGED <<executed, done, rule_run>>

\* A draft is executed like an active rule.
Executable(r, e) ==
  /\ r.tenant = e.tenant
  /\ rule_status[r] \in {"draft", "active"}
  /\ r.trigger = e.type
  /\ e \in r.matches

BeginRuleMarked(w, r, e) ==
  /\ rule_run[w] = Resting
  /\ Executable(r, e)
  /\ <<r, e>> \notin executed
  /\ executed' = executed \cup {<<r, e>>}
  /\ rule_run' = [rule_run EXCEPT ![w] = [pc |-> "running", key |-> <<r, e>>, next |-> 1]]
  /\ UNCHANGED <<rule_status, done>>

\* Of a dry run nothing is left but its answer.
BeginRule(w, r, e) ==
  /\ rule_run[w] = Resting
  /\ Executable(r, e)
  /\ <<r, e>> \notin executed
  /\ rule_run' = [rule_run EXCEPT ![w] = [pc |-> "running", key |-> <<r, e>>, next |-> 1]]
  /\ UNCHANGED <<rule_status, executed, done>>

\* The handler resolves, or takes effect and rejects, which ends the run.
HandleAction(w) ==
  LET k == rule_run[w].key
      i == rule_run[w].next
  IN /\ rule_run[w].pc = "running"
     /\ i \in DOMAIN k[1].actions
     /\ done[k][i] < MaxDone
     /\ done' = [done EXCEPT ![k][i] = @ + 1]
     /\ \/ rule_run' = [rule_run EXCEPT ![w].next = i + 1]
        \/ rule_run' = [rule_run EXCEPT ![w] = Resting]
     /\ UNCHANGED <<rule_status, executed>>

\* The handler rejects, or there is none for the action.
RunFails(w) ==
  /\ rule_run[w].pc = "running"
  /\ rule_run[w].next \in DOMAIN rule_run[w].key[1].actions
  /\ rule_run' = [rule_run EXCEPT ![w] = Resting]
  /\ UNCHANGED <<rule_status, executed, done>>

FinishRule(w) ==
  /\ rule_run[w].pc = "running"
  /\ rule_run[w].next \notin DOMAIN rule_run[w].key[1].actions
  /\ executed' = executed \cup {rule_run[w].key}
  /\ rule_run' = [rule_run EXCEPT ![w] = Resting]
  /\ UNCHANGED <<rule_status, done>>

EngineRestart ==
  /\ executed' = {}
  /\ rule_run' = [w \in Runs |-> Resting]
  /\ UNCHANGED <<rule_status, done>>

ExecuteRule(w) ==
  \/ \E r \in Rules, e \in Events : BeginRule(w, r, e)
  \/ HandleAction(w) \/ RunFails(w) \/ FinishRule(w)

RuleEngineNext ==
  \/ \E r \in Rules : \E s \in DOMAIN Transitions : TransitionAutomationRule(r, s)
  \/ EngineRestart
  \/ \E w \in Runs : ExecuteRule(w)

RuleEngineSpec == RuleEngineInit /\ [][RuleEngineNext]_revars

-----------------------------------------------------------------------------
RuleEngineTypeOK ==
  /\ rule_status \in [Rules -> DOMAIN Transitions]
  /\ executed \subseteq EventKey
  /\ DOMAIN done = EventKey
  /\ \A k \in EventKey : done[k] \in [DOMAIN k[1].actions -> 0 .. MaxDone]
  /\ rule_run \in [Runs -> RuleRun \cup {Resting}]

\* Overlapping runs repeat actions, and so does a run after a failed one; but no action is
\* carried out before those the rule names first were, for an event of another tenant or
\* trigger none is, and an event counts as executed only when all of them are.
RunsInOrder ==
  \A k \in EventKey :
    /\ \A i, j \in DOMAIN done[k] : i < j => done[k][i] >= done[k][j]
    /\ k \in executed => \A i \in DOMAIN done[k] : done[k][i] > 0
    /\ \A i \in DOMAIN done[k] :
         done[k][i] > 0 => k[1].tenant = k[2].tenant /\ k[1].trigger = k[2].type
=============================================================================
