------------------------------ MODULE Editors ------------------------------
(***************************************************************************)
(* The editors of automations and campaigns: drafts and versions in the    *)
(* memory of the server, and several people who edit the same drafts.      *)
(* Both services are the same protocol over different contents, and each   *)
(* call of theirs runs to its end at once; what comes between is a load    *)
(* and the save that follows it, an answer that is lost, and a restart,    *)
(* which empties both maps.  Published content can no longer be edited, so *)
(* every later version is a restored one.                                  *)
(***************************************************************************)
EXTENDS Naturals, Sequences

CONSTANTS
  Authors,       \* people with an editor open
  Tenants,
  TenantOf,      \* each author's tenant
  Documents,     \* ids drawn for automations and campaigns
  Contents,      \* graphs or campaign contents
  ValidContents, \* those the validation accepts
  MaxRevision    \* bound on a draft's revision

ASSUME EditorsAssumption ==
  /\ TenantOf \in [Authors -> Tenants]
  /\ ValidContents \subseteq Contents
  /\ MaxRevision \in Nat \ {0}

VARIABLES
  draft,     \* the map of drafts
  versions,  \* the map of versions, each a sequence
  saves,     \* what was saved: the content that was edited and the one it became
  editor     \* what each author's editor holds

edvars == <<draft, versions, saves, editor>>
-----------------------------------------------------------------------------
NoDraft == [status |-> "none"]

Draft ==
  [status : {"draft", "published"}, tenant : Tenants, content : Contents,
   revision : 1 .. MaxRevision]

Version == [content : Contents, revision : 1 .. MaxRevision]

Save == [from : Contents, to : Contents]

Closed == [document |-> "none"]

\* The revision and content last received, and the content as edited since.
OpenEditor == [document : Documents, revision : 1 .. MaxRevision, received : Contents,
               content : Contents]

EditorsInit ==
  /\ draft = [d \in Documents |-> NoDraft]
  /\ versions = [d \in Documents |-> <<>>]
  /\ saves = [d \in Documents |-> <<>>]
  /\ editor = [a \in Authors |-> Closed]

\* getDraft: a draft of another tenant is not found.
Found(a, d) == draft[d] # NoDraft /\ draft[d].tenant = TenantOf[a]

Show(a, d, revision, content) ==
  editor' = [editor EXCEPT ![a] = [document |-> d, revision |-> revision,
                                   received |-> content, content |-> content]]

-----------------------------------------------------------------------------
CreateDraft(a, d, c) ==
  /\ editor[a] = Closed
  /\ draft[d] = NoDraft /\ saves[d] = <<>>
  /\ c \in ValidContents
  /\ draft' = [draft EXCEPT ![d] = [status |-> "draft", tenant |-> TenantOf[a], content |-> c,
                                    revision |-> 1]]
  /\ saves' = [saves EXCEPT ![d] = <<[from |-> c, to |-> c]>>]
  /\ Show(a, d, 1, c) \/ UNCHANGED editor
  /\ UNCHANGED versions

LoadDraft(a, d) ==
  /\ Found(a, d)
  /\ Show(a, d, draft[d].revision, draft[d].content)
  /\ UNCHANGED <<draft, versions, saves>>

EditContent(a, c) ==
  /\ editor[a] # Closed
  /\ editor' = [editor EXCEPT ![a].content = c]
  /\ UNCHANGED <<draft, versions, saves>>

EditableAtAnyRevision(a, d) == Found(a, d) /\ draft[d].status = "draft"

\* What both saveDraft and publish ask first.
Editable(a, d) ==
  /\ Found(a, d)
  /\ draft[d].status = "draft"
  /\ draft[d].revision = editor[a].revision

\* The answer, with the new revision, may be lost.
SaveDraft(a) ==
  LET d == editor[a].document
      e == editor[a]
  IN /\ e # Closed
     /\ Editable(a, d)
     /\ e.content \in ValidContents
     /\ draft[d].revision < MaxRevision
     /\ draft' = [draft EXCEPT ![d].content = e.content, ![d].revision = @ + 1]
     /\ saves' = [saves EXCEPT ![d] = Append(@, [from |-> e.received, to |-> e.content])]
     /\ Show(a, d, e.revision + 1, e.content) \/ UNCHANGED editor
     /\ UNCHANGED versions

PublishDraft(a) ==
  LET d == editor[a].document
  IN /\ editor[a] # Closed
     /\ Editable(a, d)
     /\ versions' = [versions EXCEPT ![d] = Append(@, [content |-> draft[d].content,
                                                       revision |-> draft[d].revision])]
     /\ draft' = [draft EXCEPT ![d].status = "published"]
     /\ UNCHANGED <<saves, editor>>

\* Restoring takes no expected revision.
RestoreVersion(a, d, v) ==
  /\ Found(a, d)
  /\ v \in DOMAIN versions[d]
  /\ draft[d].revision < MaxRevision
  /\ versions' = [versions EXCEPT ![d] = Append(@, [content |-> versions[d][v].content,
                                                    revision |-> draft[d].revision + 1])]
  /\ draft' = [draft EXCEPT ![d].status = "published", ![d].revision = @ + 1,
                            ![d].content = versions[d][v].content]
  /\ UNCHANGED <<saves, editor>>

\* Ids are random: a document's id is not drawn again.
ServerRestart ==
  /\ \E d \in Documents : draft[d] # NoDraft
  /\ draft' = [d \in Documents |-> NoDraft]
  /\ versions' = [d \in Documents |-> <<>>]
  /\ UNCHANGED <<saves, editor>>

Edit(a) ==
  \/ \E d \in Documents, c \in Contents : CreateDraft(a, d, c)
  \/ \E d \in Documents : LoadDraft(a, d)
  \/ \E c \in Contents : EditContent(a, c)
  \/ SaveDraft(a) \/ PublishDraft(a)
  \/ \E d \in Documents, v \in 1 .. MaxRevision : RestoreVersion(a, d, v)

EditorsNext == ServerRestart \/ \E a \in Authors : Edit(a)

EditorsSpec == EditorsInit /\ [][EditorsNext]_edvars

-----------------------------------------------------------------------------
EditorsTypeOK ==
  /\ draft \in [Documents -> Draft \cup {NoDraft}]
  /\ versions \in [Documents -> Seq(Version)]
  /\ saves \in [Documents -> Seq(Save)]
  /\ editor \in [Authors -> OpenEditor \cup {Closed}]

\* No edit is lost and nothing else is published: whoever saves, publishes and restores in
\* whatever order, each saved content was made from the one saved before it, every version
\* is the last saved content, which was valid, and the reference for execution is the draft.
NoEditLost ==
  \A d \in Documents :
    /\ \A i \in 2 .. Len(saves[d]) : saves[d][i].from = saves[d][i - 1].to
    /\ \A v \in DOMAIN versions[d] :
         versions[d][v].content = saves[d][Len(saves[d])].to
           /\ versions[d][v].content \in ValidContents
    /\ versions[d] # <<>> => versions[d][Len(versions[d])].content = draft[d].content
=============================================================================
