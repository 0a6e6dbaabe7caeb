------------------------------- MODULE Tools -------------------------------
(***************************************************************************)
(* The tools an AI assistant may use: preview, then execute, under an      *)
(* idempotency key of the tenant.  Previews and results are in memory.     *)
(* The id of a preview is made of the id of the request, which the caller  *)
(* chooses and may use again, of the tool and of the key: a later preview  *)
(* of the tenant with the same id takes the place of the earlier one,      *)
(* whoever asked and for whatever input, and both read "confirm:" and that *)
(* id.  Capabilities come with the context of each call, so they may       *)
(* differ from one call of an actor to its next; only preview asks.        *)
(* execute reads the result, awaits the tool and writes its own, so two    *)
(* calls may run the same tool at once.                                    *)
(***************************************************************************)
EXTENDS Naturals, FiniteSets

CONSTANTS
  Actors,
  ActorTenant,
  Capabilities,    \* the sets of tools an actor may have the capabilities for, call by call
  AllowedTools,
  IrreversibleTools,
  Inputs,
  Contract,        \* the inputs each tool accepts
  ToolKeys,
  Requests,        \* ids of requests
  ToolCalls        \* calls of execute that may be in flight at once

ASSUME ToolsAssumption ==
  /\ IrreversibleTools \subseteq AllowedTools
  /\ Capabilities \in [Actors -> SUBSET SUBSET AllowedTools]
  /\ Contract \in [AllowedTools -> SUBSET Inputs]
  /\ IsFiniteSet(ToolCalls)

VARIABLES
  previews,    \* the preview registered under each id
  last_shown,  \* history: the input an actor was last shown under an id
  operations,  \* the result under each tenant's key
  executing,   \* what each call awaits
  settled      \* history: how often a key got a result since the start

tovars == <<previews, last_shown, operations, executing, settled>>
-----------------------------------------------------------------------------
OperationKey == {ActorTenant[a] : a \in Actors} \X ToolKeys

PreviewId == Requests \X AllowedTools \X OperationKey

Preview == [request : Requests, actor : Actors, tool : AllowedTools, input : Inputs,
            key : ToolKeys]

KeyOf(p) == <<ActorTenant[p.actor], p.key>>

IdOf(p) == <<p.request, p.tool, KeyOf(p)>>

NoPreview == [actor |-> "none"]

NoInput == "none"

NoResult == [outcome |-> "none"]

Result == [outcome : {"completed", "unknown"}, preview : Preview]

NotExecuting == [by |-> "none"]

\* The caller, what it was last shown under the id it names, and whether it confirmed that id.
Execution == [by : Actors, preview : Preview, shown : Inputs \cup {NoInput},
              confirmed : BOOLEAN]

ToolsInit ==
  /\ previews = [i \in PreviewId |-> NoPreview]
  /\ last_shown = [ai \in Actors \X PreviewId |-> NoInput]
  /\ operations = [k \in OperationKey |-> NoResult]
  /\ executing = [c \in ToolCalls |-> NotExecuting]
  /\ settled = [k \in OperationKey |-> 0]

\* If the key has a result the preview of that result is answered, and none is registered.
PreviewTool(p, capabilities) ==
  /\ p.tool \in capabilities
  /\ p.input \in Contract[p.tool]
  /\ operations[KeyOf(p)] = NoResult
  /\ previews' = [previews EXCEPT ![IdOf(p)] = p]
  /\ last_shown' = [last_shown EXCEPT ![<<p.actor, IdOf(p)>>] = p.input]
  /\ UNCHANGED <<operations, executing, settled>>

OwnedByTenant(a, id) ==
  previews[id] # NoPreview /\ ActorTenant[previews[id].actor] = ActorTenant[a]

\* A preview is registered under the id, and belongs to the actor.
Owned(a, id) == previews[id] # NoPreview /\ previews[id].actor = a

\* The key must be the preview's, and a tool that cannot be undone needs the text
\* "confirm:" and the id.  Capabilities are not asked for.
BeginExecute(c, a, id, key, confirmation) ==
  /\ executing[c] = NotExecuting
  /\ Owned(a, id)
  /\ <<ActorTenant[a], key>> = KeyOf(previews[id])
  /\ operations[KeyOf(previews[id])] = NoResult
  /\ previews[id].tool \in IrreversibleTools => confirmation = IdOf(previews[id])
  /\ executing' = [executing EXCEPT ![c] =
       [by |-> a, preview |-> previews[id], shown |-> last_shown[<<a, id>>],
        confirmed |-> confirmation = id]]
  /\ UNCHANGED <<previews, last_shown, operations, settled>>

FinishExecute(c) ==
  /\ executing[c] # NotExecuting
  /\ executing' = [executing EXCEPT ![c] = NotExecuting]
  /\ \E outcome \in {"completed", "unknown"} :
       operations' = [operations EXCEPT ![KeyOf(executing[c].preview)] =
                        [outcome |-> outcome, preview |-> executing[c].preview]]
  /\ settled' = [settled EXCEPT ![KeyOf(executing[c].preview)] = @ + 1]
  /\ UNCHANGED <<previews, last_shown>>

\* The tool throws: nothing is recorded, and the key may be executed again.
ToolFails(c) ==
  /\ executing[c] # NotExecuting
  /\ executing' = [executing EXCEPT ![c] = NotExecuting]
  /\ UNCHANGED <<previews, last_shown, operations, settled>>

ToolsRestart ==
  /\ previews' = [i \in PreviewId |-> NoPreview]
  /\ last_shown' = [ai \in Actors \X PreviewId |-> NoInput]
  /\ operations' = [k \in OperationKey |-> NoResult]
  /\ executing' = [c \in ToolCalls |-> NotExecuting]
  /\ settled' = [k \in OperationKey |-> 0]

ToolsNext ==
  \/ \E p \in Preview : \E capabilities \in Capabilities[p.actor] : PreviewTool(p, capabilities)
  \/ \E c \in ToolCalls, a \in Actors, id, confirmation \in PreviewId, key \in ToolKeys :
       BeginExecute(c, a, id, key, confirmation)
  \/ \E c \in ToolCalls : FinishExecute(c) \/ ToolFails(c)
  \/ ToolsRestart

ToolsSpec == ToolsInit /\ [][ToolsNext]_tovars
-----------------------------------------------------------------------------
ToolsTypeOK ==
  /\ previews \in [PreviewId -> Preview \cup {NoPreview}]
  /\ last_shown \in [Actors \X PreviewId -> Inputs \cup {NoInput}]
  /\ operations \in [OperationKey -> Result \cup {NoResult}]
  /\ executing \in [ToolCalls -> Execution \cup {NotExecuting}]
  /\ settled \in [OperationKey -> Nat]

\* However ids collide and calls overlap: what runs was shown to its own caller, is the last
\* the caller was shown under the id it named (an earlier one of that id may have been another
\* input, and reads the same confirmation), is of a tool some context of the caller allowed,
\* and was confirmed by that id if it cannot be undone.  A key answers with a result of its
\* own tenant, and a tool comes to a result under it no more often than calls overlap.
OnlyWhatWasShown ==
  /\ \A c \in ToolCalls : executing[c] # NotExecuting =>
       /\ executing[c].by = executing[c].preview.actor
       /\ executing[c].shown = executing[c].preview.input
       /\ executing[c].preview.tool \in UNION Capabilities[executing[c].by]
       /\ executing[c].preview.tool \in IrreversibleTools => executing[c].confirmed
  /\ \A k \in OperationKey : operations[k] # NoResult => KeyOf(operations[k].preview) = k
  /\ \A k \in OperationKey : settled[k] <= Cardinality(ToolCalls)
=============================================================================
