# CRMTSiAPP: TLA+ models and proofs

CRMTSiAPP is a WhatsApp CRM in Node.js over PostgreSQL. Agents read and answer
conversations in a web inbox. Messages come in through provider webhooks (Meta Cloud API,
WAHA) and go out through the providers' APIs; around that are setup, provider configuration,
automations and campaigns, alerts, integrations, AI tools, privacy requests and a command
line. This directory models the parts in which processes, requests, crashes and timeouts
meet. TLC checks the models on small instances, and TLAPS proves the safety results for every
value of the constants.

Run everything in this directory:

    tlc -workers 2 -config Outbox.cfg MCOutbox        # one line for each run listed below
    tlapm OutboxProofs.tla      # and WebhookProofs, PipelineProofs, DeliveryProofs,
                                # RealtimeProofs, ServiceProofs, RecordProofs, MCServicesProofs

## Inventory

| Component | State | Operations | What is hard | What makes it correct |
|---|---|---|---|---|
| **Outbox** `outbox.js`, `outbox-worker*.js` | `outbox_jobs`, `conversation_messages.delivery_status`, `failed_jobs`; per worker the job in hand | enqueue, claim with sweep, send, mark delivered, mark failed | several workers, crashes with a lease, provider answers that are late or lost, retries | one worker per job, honest statuses, bounded sends, every job settled |
| **Webhook ingestion** `channel-webhook-service.js` | `webhook_events` | verify, insert each event of the batch, answer | batches that fail part-way, redeliveries | a 2xx only after the whole batch is durable |
| **Webhook worker** `webhook-worker*.js` | leases of `webhook_events` | claim or take over, process, mark processed or failed | takeover from a slow worker, poison events | only the newest lease decides, every event decided, bounded retry |
| **Inbound processing** `webhook-processor.js`, `appendEvent` | `conversations`, `conversation_messages`, `realtime_events`, advisory and row locks | processInbound, processDelivery | concurrent transactions, lost commits, receipts in any order | one message per event, one announcement per message, monotone statuses |
| **Customer window, templates** `customer-service-window.js`, `template-delivery.js`, routes of `server.js` | `last_inbound_at`, messages | is free text allowed, send text or template | read before the transaction, not rechecked; messages processed out of order | no free text that was checked after the window |
| **Privacy, retention, status** `privacy-service.js`, `tenant-inbox-store.js` | `privacy_requests`, `conversations` | request, process, redact, delete, close, reopen | changes beside requests of agents | erasure never opens a window |
| **Sessions** `auth.js`, `security.js`, routes of `server.js` | sessions, login counters | log in, log out, expire, revoke | limiter and rotation in separate steps | failures and live sessions are bounded |
| **Realtime** `modules/realtime`, `public/js/realtime-inbox.js` | `realtime_events`, connections, cursors | append, replay, register, fan out, reconcile | the gap between replay and registration, pages, sequence before commit, quotas | streams without gaps, nothing after a revocation, versions in order |
| **Setup** `modules/setup` | `installation_setup`, the provider's active row | bootstrap, draft, validate, activate, rotate secret | activation in a transaction and four more statements, with an undo | an installation is active with its whole configuration or not at all |
| **Providers** `modules/providers` | `provider_configs`, credentials | create, test and activate, deactivate, rotate, migrate | reads outside the transaction, a network test before the update | one active row, a revoked provider stays revoked |
| **Automation** `modules/automation`, `workers/automation-worker.js` | drafts, versions, graphs, rules, executed set (in memory) | edit, publish, restore; draw, validate, simulate; execute | expected revisions, graph shapes, overlapping runs, partial failure | no lost edit, only sound graphs, actions in order |
| **Marketing** `modules/marketing` | campaigns, versions (in memory) | edit, publish, restore, preview, dispatch | like automation | no lost edit |
| **Alerts** `modules/reporting` | `alert_instances`, and a map in memory | evaluate, acknowledge, escalate | look up, then insert or update | one active alert per rule |
| **Integrations** `modules/integrations` | records, circuits (in memory) | sync | answers out of order, counts read before an await | what is called synced was accepted |
| **AI tools** `modules/ai` | previews, operations (in memory) | preview, confirm, execute | execution twice before the result is stored, ids of previews used again, capabilities that change | what runs was last shown to its caller, results once per key but for overlaps |
| **Command line, operations** `modules/cli`, `modules/shared`, `modules/operations`, `bin/crm-cli.js` | accounts, idempotency keys, `queue_controls` | create admin, reset password, drain, request privacy | effects inside and outside the transaction, lost answers, two locks | one execution per key, accounts apart |
| **Schema, migration** `domain-schema.js`, `migrate.js`, `bootstrap-admin.js` | tables, the first administrator, settings | migrate | beside the command line | the administrator of the settings exists |
| Inbox collaboration, presence, CRM, knowledge, identity, governance | mostly in memory or one row | single-object services | little concurrency | per-object rules |
| Configuration, rendering | none at run time | parse, render | none | out of scope |

How they interact: the server and the provider's POST write rows; the two worker programs
poll the tables and share nothing but the database; `processInbound` writes what the inbox
reads and appends the realtime events that the browser streams. An agent's message is one
transaction over `conversation_messages` and `outbox_jobs`. Its delivery status is written
by the outbox worker and by delivery receipts, which come in through the webhook queue.

The other services meet in few places: setup's activation and the provider service write
`provider_configs` (of the two, `server.js` mounts only setup's routes); agents, inbound
processing and the privacy service write `conversations`; the command line and the migration
write `users`.

`PROJECT.json` lists the hazards of this code at their lines, with the properties that cover
them.

## Modules

| Module | What it is |
|---|---|
| `LeasedQueue` | abstract queue: submit, grant under a ticket, give back, settle, expire |
| `Outbox` | `outbox.js`, `outbox-worker.js`, `outbox-worker-main.js`; implements `LeasedQueue` with `Reissue = FALSE` |
| `OutboxProofs` | theorems about `Outbox` |
| `WebhookQueue` | `receive()` and `webhook-worker.js`, `processEvent` open; implements `LeasedQueue` with `Reissue = TRUE` |
| `WebhookPipeline` | extends `WebhookQueue` with `processInbound` as the processing step, and with agents |
| `WebhookProofs`, `PipelineProofs` | theorems about `WebhookQueue` and `WebhookPipeline` |
| `DeliveryReceipts` | extends `Outbox` with the providers' receipts and `processDelivery`, and with what the agent reads of a message |
| `DeliveryProofs` | theorems about `DeliveryReceipts` |
| `Realtime` | `modules/realtime` and the browser's client: stored stream, route with replay, registry, `publish`, `receive` |
| `RealtimeProofs` | theorems about `Realtime` |
| `Setup` | `setup-service.js` behind its routes, the wizard's pages |
| `Providers` | `provider-service.js`, `credential-service.js`, `provider-migration.js`, the status trigger |
| `Operations` | `bin/crm-cli.js`: parser, idempotent runner, commands; `migrate.js` with the first administrator |
| `Desk` | inbound messages, agents' texts and templates within the window, status changes, privacy requests, retention |
| `Sessions` | login limiter, login, logout, session rotation |
| `RecordProofs` | theorems about `Sessions`, `Desk`, `Providers`, `Operations` and `Setup` |
| `Editors` | drafts and versions of automations and campaigns |
| `AutomationGraph` | the drawn graph, `validateGraph`, `topologicalNodes`, `simulateGraph` |
| `RuleEngine` | `executeRule`, its executed set, the rules' life cycle |
| `Integrations` | `SyncService` with its circuit |
| `Tools` | `tool-service.js` |
| `Alerts` | `alert-service.js`, persistent and in memory, and the page's acknowledgement |
| `ServiceProofs` | theorems about `Alerts`, `Integrations`, `Tools`, `Editors`, `RuleEngine` and `AutomationGraph` |
| `MCOutbox`, `MCWebhook`, `MCPipeline`, `MCDelivery`, `MCRealtime`, `MCServices` | small instances |
| `MCServicesProofs` | theorems about the composition of the services |

**Correspondence.** One SQL statement is one step, because PostgreSQL makes each statement
atomic and nothing else is. Hence:

* `ClaimJob` is the claim statement with its three CTEs: the sweep of expired leases to
  `delivery_unknown` runs over the whole table (`Swept`) in the same step as the lease of one
  due job. `ClaimNothing` is the same statement when no job is due; its sweep still commits.
* The provider call is a step between claim and mark. It ends in four ways: not sent,
  accepted, accepted but unheard (timeout, lost or malformed answer), rejected. Only
  `sendTemplate` sets `error.status`, so only template jobs can fail terminally.
* `MarkDeliveredThrows` and `MarkProcessedThrows` are there because the mark is inside the
  `try` block: when it throws, the `catch` block marks the same job failed, and the statement
  may have committed.
* `MarkFailedDead` changes no row: the statement it issues selects `tenant_id` from a CTE that
  does not return it, so PostgreSQL rejects it as a whole. `exhausted` records who tried.
* In `WebhookPipeline` what a transaction writes is one step with its commit. The advisory
  lock, the duplicate check, the snapshot of the `for update` select and each row lock are
  steps of their own, because other transactions can come between.
* `processDelivery` is no transaction: its update of `delivery_status` and its insert into
  `delivery_events` are two steps, and the worker can fail or be overtaken between them. The
  provider's id of a message is stored by the second update of `markDelivered`
  (`RecordDelivery`), so a receipt that is processed earlier finds no row: it is logged without
  a message and never shows. A message at the provider is named by the job and the lease it was
  sent under. The provider posts `sent` first; receipts are processed in any order and more
  than once. Statuses the code does not know are `failed` (`Normalized`).
* In `Realtime` each query of the route and of `publish` is a step, together with the
  JavaScript that follows it up to the next await; so the replay's frames, the second quota
  check and the registration are one step (`SelectAndRegister`), and other requests come in
  between the first check and it. `Sent` and `Drain` are `sendConnection`, `enqueue` and
  `flush`: whether a write fills the socket is left open, and so is whether the bytes of a
  queue are exceeded. `Written` is what the socket got; the browser receives it in order and
  may leave at any frame. A rejection of `register` ends the process. `server.js` mounts the
  route only: the calls of `publish` and `pruneExpiredEvents` are those its tests make.
* In `Setup` every handler but two is one transaction over the locked row, hence one step.
  `activate` commits `activating` and then persists, audits and finishes in statements of their
  own, each of which may fail, apply unheard, or be the last before a crash; its `catch` block's
  undo writes `validated` without asking for the state. `rotateBootstrapSecret` verifies, writes
  and audits in three. `Receive` is the wizard's page that shows the answer.
* In `Providers` a request holds a transaction on one connection and reads the provider, and
  stores its credential, on others: `manager` keeps what it read. `getProvider` takes the row
  whose status comes last in the alphabet; the updates name the provider, so they take every
  row that the trigger does not hold back.
* In `Operations` a run parses its arguments (`ParseArgs`), claims the key by an insert that
  waits for another transaction that has inserted it, does its effect and commits. Admin
  commands write in that transaction; drain and the privacy request on other connections, so
  what they did stays when it rolls back. `told` is what operators were answered.
* In `Desk` an agent's request reads the conversation, checks the window, and stores and enqueues
  the message in one transaction that checks neither again. Inbound messages set
  `last_inbound_at` to their own time, older or newer. Processing, anonymizing, deleting,
  closing and retention are steps at any moment.
* In `Sessions` the limiter is asked in one step and counts in a later one; old sessions are
  revoked in one statement and the new one inserted in another.
* In `RuleEngine`, `Integrations` and `Tools` state in memory, and in `Alerts` a row, is read
  before an `await` and written after it; each is a step of its own, so calls overlap there. `Editors` has
  calls that run to their end at once, and the races of people who load, edit and save.
* In `Tools` the id of a preview is made of the request's id, the tool and the key, and the
  request's id is the caller's (`requestTraceId` takes `X-Request-Id`): ids may be used again, by
  anyone of the tenant and for another input, and the later preview takes the earlier one's place
  in `previews`. Capabilities come with each call, from `Capabilities`, and may differ from one call
  of an actor to its next; only `PreviewTool` asks for them. `last_shown` and `settled` are history.
* `AutomationGraph` draws a graph in the editor, submits it, and runs the two algorithms step by
  step: a call of `walk` or its return, one node taken by the sort. Request and answer are one
  conversation of the author with the server, which works on a copy, so nothing is drawn
  meanwhile. The triggers and the targets of a node are walked in any order, of which the code's
  is one. Error codes are those of `EdgeFault` and `Codes`; ids and edges are well formed, since
  the editor makes them so, and `GRAPH_REFERENCE_TENANT_MISMATCH` is left out: it needs a `Map` of
  queues, and the references that `routes.js` takes from a JSON body are never one. The properties compare the algorithms with what they
  are for, by definitions that do not compute: `Leads` is the least closed set of targets.

Abstractions: time comparisons are booleans of the row (`due`, `expired`) that `BackoffElapses`
and `LeaseExpires` turn on at any moment; a lease token counts the claims of its row, which is
as fresh as the random UUID; payloads, credentials, tenants, signatures and parsing are left
out (a bad signature never reaches the loop). Which due row a claim takes is left open, since
`skip locked` makes the order advisory. The statements use columns that the repository's
`domain-schema.js` does not create (`outbox_jobs.locked_by`, `webhook_events.tenant_id`,
`event_type` and `signature_valid`, `conversation_messages.provider_channel_id`;
`installation_setup.validation_attempts` and `last_validation_at`; the tables
`provider_credentials` and `legacy_settings`), and `on conflict (tenant_id, provider, status)`
matches no index of `provider_configs`. With the repository's own schema `validateDraft`,
`persistProviderConfigs`, `storeCredential` and the provider migration fail each time. The models
let every statement fail, so their safety results hold with that schema and with one that has
the missing parts; only in the second does anything get validated, activated or stored.

## Runs

| Run | Instance | What it shows |
|---|---|---|
| `outbox` | 2 workers, a text and a template job, 2 attempts | types, exclusive delivery, retry budget, honest status, refinement of `LeasedQueue`, every job settled |
| `outbox_dead` | same | violation: a job given up by its worker is not dead-lettered |
| `outbox_duplicate` | same | violation: a message accepted unheard is sent twice |
| `webhook` | 2 workers, batches `<<e1,e2>>` and `<<e2>>`, 2 attempts, 1 lost lease per event | types, acknowledged is durable, unique leases, fenced marks, refinement, every event decided |
| `pipeline` | 2 messages of one sender in one second, 2 workers, 2 attempts, 1 lost lease per event | types, one message per event, processed is stored, one announcement per stored message |
| `pipeline_live` | the same one second apart, 1 attempt | every event decided through lock waits |
| `pipeline_lost` | the same second, nothing fails | violation: the second message is dead-lettered |
| `delivery` | 1 job of 2 attempts, 2 workers, 2 receipt handlers, statuses `sent` and `deleted` | types, no status without a receipt of that very message, a true log, the mark never overwrites a receipt |
| `delivery_regress` | the same, statuses `sent`, `delivered`, `read` | violation: a late `sent` overwrites `delivered` |
| `realtime` | 1 tab, 2 connections with a quota of 1, 2 events of one conversation, 2 calls of `publish`, queue 1, page 1 | types, quotas, unbroken streams, nothing after a revocation, versions applied in order and once |
| `realtime_quota` | the same | violation: a request beyond the quota fails after its headers and takes the process down |
| `services` | an instance of each of eleven services, see below | types and thirteen properties, next table |

`services` checks an instance of each service by itself: the first state chooses the component
whose steps are taken, so the instances add up and do not multiply. They share no state that both
of two mounted parts write, except conversations, whose writers are gathered in `Desk`.

| Property of `services` | Instance | What it shows |
|---|---|---|
| `ServicesTypeOK` | all | types of the eleven modules |
| `ActivationIsWhole` | 2 administrators, 3 drafts of which one is refused, 2 secrets, 2 validations a window | active means: acceptable, audited, equal to the provider's row, no draft left |
| `AnnouncedStaysActive` | same | the wizard's "can no longer be changed" is true, undo and all |
| `ProviderRowsSound` | 2 requests, 3 rows, an accepted and a refused submission, 2 legacy channels | one active row, credential before draft, nothing active without a trace |
| `KeyedOnce` | 2 operators, 8 argument lists with one e-mail in two spellings, one key twice, and a migration | what was told under a key stays, an admin command happens once and exactly when its key completes |
| `NoEditLost` | 2 authors of a tenant and 1 of another, 1 document, 2 valid and 1 invalid content, 4 revisions | every save follows the one before, every version is the last save |
| `ValidationIsExact`, `SimulationIsOrdered` | every graph of up to 3 nodes and 3 edges, repeated ids and a wrong port included | exactly the sound graphs are accepted; the simulation follows the edges |
| `RunsInOrder` | 2 overlapping runs, 1 rule of 2 actions, 3 events, each action at most 3 times | no action before the earlier ones, executed means all done; overlapping runs may repeat actions |
| `SyncIsAttested` | 2 calls, 1 record, versions to 2, threshold 3 | synced was accepted as recorded, though perhaps by an older answer; the circuit opens on real failures |
| `OnlyWhatWasShown` | 2 actors of one tenant and 1 of another, one key, 2 tools, one irreversible and with 2 inputs, one request id that all use, 2 calls at once | what runs is what its caller was last shown under the id it confirms; results stay in their tenant; only calls that overlap settle a key again |
| `OneAlertPerRule` | 2 calls, 2 alerts, 1 rule | one active alert per rule and none without a cause |
| `WindowIsTrue` | 1 agent, 2 conversations, 1 privacy request, clock to 2, window 1 | a text that is enqueued was checked within the window; the clock may tick between check and transaction |
| `LoginsBounded` | 2 logins, 3 sessions, 1 user, limit 2 | the limit and the single session are exceeded by overlapping logins only |

**Why the bounds are enough.** Two workers are what every race here needs: a stale holder and
its successor, or two transactions at one lock. Two rows let a statement that ranges over the
table (the sweep) meet a row of somebody else's. Two attempts are the smallest budget with both
a retry and an exhaustion; one attempt, in `pipeline_live`, keeps the liveness check small. In
the outbox nothing else is bounded: a job is claimed at most `MaxAttempts` times. The webhook
queue can be taken over for ever, so `MaxExpiries` bounds the lost leases of an event;
one is enough for a takeover. `CHECK_DEADLOCK FALSE` where all requests may be served and all
events decided: the system then rests. No symmetry where liveness is checked; `delivery` uses that of
workers and handlers. One job there is sent up to twice, which gives the receipts of the
forgotten send that must not show on the message. In `realtime` one tab is enough for the
races of the quota, because a tab that is loaded again leaves its first request in flight; two
calls of `publish` are what reordering and a late authorization need; connections and calls are
used once each, which bounds the run. In `services` two calls, requests or people are what each
race needs, and a third row, author or session where the two must leave something behind; the
bounds on time, versions, revisions, effects and actions are in the guards and named in the
modules. `CHECK_DEADLOCK FALSE` there because requests are used up and graphs reach their size.
The bounds on the drawing of a graph (3 nodes, 3 edges) give every shape the walk distinguishes: a
diamond, a cycle the trigger leads to or not, a self-loop, two triggers, and a repeated id. Every
safety property of the passing runs is also proved without any of these bounds.

**Fairness.** Each worker's loop polls every second and goes on with what it holds, so polling
and the steps of a worker are weakly fair; so are the clocks. Nothing is assumed of providers,
requests, database failures or crashes. `PipelineFairness` adds that a transaction waiting for a
lock is not starved (strong fairness of `Inbound`), since PostgreSQL queues lock requests.
`EventuallyDecided` rests on `MaxExpiries`: a takeover charges no attempt (`webhook-worker.js:15`),
so without a bound on lost leases an event need not be decided. The other services have no
liveness property, because those worth stating fail: a crash leaves an installation `activating` for ever, an
open circuit is closed only by the late answer of a call that was under way, and a request
stopped by a crash is not taken up again.

## Disagreements between code and text

1. `outbox.js:63`: the dead branch's statement is always rejected, so no job is ever
   dead-lettered by its worker; it ends in `delivery_unknown` and its message stays `queued`.
2. `outbox-worker.js:34`: a send that timed out after it was accepted is repeated, and the
   provider cannot recognise it.
3. `webhook-processor.js:76`: messages of one conversation within one second collide on the
   version of the realtime event, and all but the first are dead-lettered.
4. `webhook-processor.js:96`: the update of the status has no condition, so receipts taken out of
   order, or again, move a message from `read` back to `sent`; the data model says that
   transitions are monotonic.
5. `modules/realtime/routes.js:77`: two requests that pass the quota check together both register;
   the second throws after its headers are out, nobody catches the rejection, and the process
   ends instead of answering 429.

Met while modelling, and not the subject of a run:

* Webhook worker: a takeover charges no attempt (`webhook-worker.js:15`), so an event whose
  workers keep dying is granted without end.
* Realtime: the frames `system.reconcile-required` and `system.permission-revoked` carry no
  aggregate (`sse-protocol.js:11`), so the browser's `receive` returns before it reconciles
  (`realtime-inbox.js:38`); events beyond the replay's first page, or between the replay and the
  registration, are skipped (`routes.js:52-77`); a browser that leaves before line 83 stays
  registered; once a stream is pruned, an older cursor is ahead of `max(sequence)` and is refused
  with 409 instead of being told to reconcile.
* Setup: the undo of a failed activation is unconditional, so a final update that was applied and
  not heard is taken back to `validated` with no draft left; a crash leaves `activating` for ever;
  two rotations that verified the same secret both succeed. The wizard's second step never sends
  the draft, and `rotateBootstrapSecret` is mounted nowhere.
* Providers: after a deactivation a provider can never be activated again, since `getProvider`
  finds the revoked row first, and an active one with a draft beside it cannot be deactivated;
  `activateProvider` audits and answers `active` even if the trigger held back every row;
  `rotateCredential` answers a stale version plus one; requests that hold one pooled connection
  and wait for a second can use up the pool. The migration reports what it counted even when a
  failed statement turned its commit into a rollback.
* Command line: `createAdmin` locks the e-mail as typed and stores it in lower case, and
  `reset-password` does not lower it; a drain's `finally` resumes claims while another drain
  still waits, and no worker reads `claims_paused`; the default actor `crm-cli` of
  `privacy request` violates the foreign key of `requested_by`. A changed `ADMIN_EMAIL` beside a
  login that is still taken makes every migration fail.
* Editors: published content can never be edited again, restoring a campaign keeps the current
  channel, and a restart loses all drafts. `simulateGraph` says `would_execute` even where the
  trigger does not match, and the engine executes rules in `draft`.
* Tools: a preview is overwritten by a later one of the same request id, tool and key
  (`tool-service.js:52,64`), and both read the same confirmation, so what was confirmed for one
  input runs another that the same actor was shown later; and another actor's preview makes the first
  one's confirmation fail. The test in `test/ai-tool-safety.test.js` asks for "an exact preview
  confirmation". `execute` does not ask for the capability again (lines 68-81), though
  `contracts/background-jobs.md:211` wants a "current authorization check" and `spec.md:166` names a
  role revoked during an AI action. Overlapping executions run a tool twice, and the later result
  replaces the one already answered, "unknown" included; the same key with another tool replays the
  first result. (Contracts and `spec.md` here are those of `specs/002-complete-ui-modules`.)
* Rules: overlapping deliveries, and a delivery after a failed action, carry out actions again,
  while FR-018 (`spec.md:198`) asks for "idempotent effects"; `RunsInOrder` allows it.
* Integrations: an older answer overwrites the record of a newer one; `SyncIsAttested` allows it.
* Window: the text is checked before its transaction and never again, neither there nor by the outbox
  worker, while FR-008 (`spec.md:188`) asks for it "before every outbound attempt" and
  `contracts/provider-boundaries.md:66` for a check "before enqueue and rechecked before transport";
  `WindowIsTrue` speaks of the time of the check only.
* Routes: `server.js:157` redirects every request without a session to `/login` before the routes of
  webhooks (178) and login (179, 180) are looked at, so neither is reached without a session.
  `WebhookQueue` and `Sessions` begin at those routes: they have all that a session would let
  through, and more.
* Alerts: `acknowledge` brings a resolved alert back; only tests load the persistent service.
* Desk: `last_inbound_at` can move back, so a text is refused while the window is open; a stale
  `contact_phone` can be enqueued after an anonymization; a legal hold set on a completed request
  makes processing it again say `rejected`, though the data is gone.

## Proofs

The theorems hold for every value of the constants, from the named assumptions of the modules
alone. These say what a configuration is made of (`OutboxAssumption`, `WebhookAssumption`,
`PipelineAssumption`, `DeliveryAssumption`, `RealtimeAssumption`, `SetupAssumption`,
`ProvidersAssumption`, `OperationsAssumption`, `EditorsAssumption`, `RuleEngineAssumption`,
`IntegrationsAssumption`, `ToolsAssumption`, `DeskAssumption`, `SessionsAssumption`,
`GraphAssumption`); where
something is counted, that the counted requests, runs, events or connections are finitely many;
and `ArgvsAssumption`, that the e-mails named in arguments are among `Emails`. In each module one
lemma per action, or per group of actions with the same effect, shows that an inductive
invariant is preserved, and the theorems follow from it. The inductive invariants were model-checked
with the runs' instances before they were proved; the runs list only the properties.

**`OutboxProofs`**: `Invariance` (`IInv`); `TypeCorrect`, `Exclusion`, `Honesty`, `Budget` (the
four invariants of run `outbox`); `FinalForever` (a settled job never moves); `Refinement`
(`Spec => ImplementsQueue`). None of the invariants is inductive. `RetryBudget` needs that
every lease but the current or last one was charged (`LeaseCharged`) and that every acceptance
used up a lease (`AcceptedUnderLease`). `ExclusiveDelivery` needs `HandIsNewest`: a worker that
holds a job holds the newest lease ever granted on it, and the row is either still its own or
settled, so a job with a holder is never claimable. This is where the design works: the sweep
settles an expired lease instead of requeueing it.

**`WebhookProofs`**: `Invariance` (`IInv`); `TypeCorrect`, `Durability`, `LeaseUniqueness`,
`Fencing`, `DecidedForever`, `Refinement`. Here exclusion is false, because an expired lease is
taken over from a worker that may be alive. What holds instead rests on `LeaseIsNewest` (the
token on a row in processing is the last one drawn), on `HandIsCurrent` (what a worker read at
its claim, the attempts included, is still what the row says while its token matches) and, for
durability, on `BatchIsStored` (the events a request has passed are stored).

**`PipelineProofs`**: `PipelineIsQueue` shows `PipelineSpec => Spec`: transactions, locks
and agents only narrow the queue's open processing step, so the queue's theorems carry over.
`PipelineInvariance` (`PipelineIInv`), `PipelineTypeCorrect`, `AtMostOneMessage`, `ProcessedMessageStored` and
`AnnouncedOnce` rest on `TxnUnderLock`: a transaction holds its event's advisory lock alone and
its message is not stored. The duplicate check is therefore still true at the commit, whatever
takeovers and lost answers happen in between. `FinishedIsStored` carries the fact from the
commit to the mark.

**`DeliveryProofs`**: `DeliveryIsOutbox` shows `DeliverySpec => Spec`, so receipts do not touch
the queue and its theorems carry over. `DeliveryInvariance` (`DeliveryIInv`), `DeliveryTypeCorrect`, `Attestation`,
`LogTruth` and `MarksNeverRegress` rest on the provider's id being null until the mark: receipts
only match a stored id, so the message that `markDelivered` reaches still shows `queued`, and
receipts of a send that was never heard match nothing. `MessageWithJob` adds that the outbox
never writes `failed`, since the statement that would is always rejected.

**`RealtimeProofs`**: `RealtimeInvariance` (`RealtimeIInv`), `RealtimeTypeCorrect`, `QuotasHold`,
`NoGapInStream`, `SilentAfterRevocation`, `VersionsInOrder`. `ConnectionsAreSound` says of each
connection that what was written is a beginning of what was handed over and the queue is the rest
(`Unbroken`), that a revocation is the last frame and never waits in a queue (`Silenced`), and that
frames on their way are committed events of the page's audience (`Addressed`). For that an
unblocked connection must have an empty queue, and a call of `publish` must hold connections that
were and remain of pages that may hear its event (`PublishersAreSound`). `SourcesAreTheirs` carries
it to the page that reads, and `VersionsBound`, that the versions a page keeps bound all it
applied, makes the order inductive. `SelectAndRegister` checks the quota in the step that
registers, which is why it holds although the first check is stale.

**`ServiceProofs`**: `OneActiveAlert` (with `AlertsHaveCause`), `AttestedSync` (`CountsAreReal`: what
was read before the await is below the threshold and no more than the failures that happened),
`ShownThenRun` (`PreviewsAreShown`: the preview under an id has that id and is the last its actor was
shown under it; `SettledByOverlaps`: once a key has a result, its settlements and the calls still
under way are together no more than the calls there are),
`EditsAreKept` (`DraftsAreSaved`, and `EditorsAreRevisions`: an editor whose revision is current
holds the draft's content), `ActionsInOrder`. The last needs a count (`EarlierFirst`): an earlier
action was carried out once for each time the later one was, and once more for each run that is
about to carry out the later one.

The graph's theorems are there too: `GraphInvariance` (`GraphIInv`), `ExactValidation`,
`OrderedSimulation`, `CompilationIsDetermined`, for graphs of any size. `Leads(a, b)` says that b is in every set that has a's
targets and is closed, which is what a recursive definition would compute, and what an invariant
can be compared with. The invariant of the walk: the calls under way are a path of the graph without
repetition (`WalkShape`, `WalkReach`); what a visited node has for targets was met
(`WalkCover`); and while no cycle is reported, the visited nodes are closed and none leads to itself, while of
what a node of the path leads to, only the next call is not visited yet (`WalkAcyclic`). When the
walk ends, the visited set is therefore closed and holds the triggers: it is what is reached. A
target found in `visiting` is on the path, and the path from it to the last call and back is the
cycle. The invariant of the sort: `incoming` counts the edges from nodes not placed
(`SortCounts`), and a node was placed after each that leads to it, the smallest that could be
(`SortOrder`). That every node is placed at the end (`AllPlaced`) takes an argument by the number of nodes that
lead to one: of the nodes left over, one with the fewest would have an edge from another, and
that one fewer, since no node leads to itself. `CompilationIsDetermined` is what
`specs/005-operational-experience/tasks.md:231` asks of `compiler.js` (a deterministic compilation): the
ids and edges allow one order only (`OneOrder`), whatever order the editor lists the nodes in. Where
two orders first differ, the smaller of the two nodes comes later in one of them, so it waits
there for a node from that place on (`LaterInTheOther`), which would also have to come before
it in the other order, where everything earlier is the same.

**`RecordProofs`**: `LoginsStayBounded` (`PlacesAreKept`: failures counted plus logins being checked
stay within the limit and the overlap), `TextsAreInTime` (`ReadsAreTrue`, `ChecksAreTrue`: a row's
`last_inbound_at`, and what was read of it, is a time the customer really wrote at),
`RowsAgree` (`RowsAreHeld`, `CredentialFirst`), `RevocationIsFinal` (a revoked row never leaves that status,
an action property), `KeyIsOneExecution` and `AccountsStaySound` (`ClaimsAreHeld`: a run under way has
its claim alone; `EffectsAreRecorded`; `AccountsApart`, over committed and pending rows;
`AdministratorExists`).

For setup, also in `RecordProofs`: `SetupInvariance` (`SetupIInv`), `SetupTypeCorrect`, `WholeActivation`,
`ActivationIsFinal`. Only the state `activating` keeps others away once the transaction is
committed: at most one call is past that commit (`OneActivator`), the draft it read is still in
the row (`DraftIsHeld`, with `DraftIsAcceptable`), and once an answer is out no call is left whose
undo could take the activation back (`AnswerIsLast`).

**`MCServicesProofs`**: the module that TLC checks is itself proved about, with its constants left
open. `ServicesCompose` shows that the composition is a behaviour of each service's own
specification, so a step chosen for one is a stutter of the others; `ServicesInvariance`
(`ServicesIInv`, the conjunction of the eleven inductive invariants), `ServicesTypeCorrect` and
`ServicesStaySound` (all the other properties of run `services`) follow. What TLC checks
side by side in one instance each, the proof gives for every instance at once.

`NextMoves`, in `OutboxProofs` and `WebhookProofs`, lists what a step can do to one row; the refinement maps each of
these moves to one of the abstract queue, and the action properties are read off it.

Only model-checked: liveness (`EventuallySettled`, `EventuallyDecided`), which the prover does
not reach, and the runs that refute a text. Every other property of the passing runs is proved.
`AccountsSound` and `RevokedStaysRevoked` are proved and not in a run. That the walk and the
sort end is not stated: each step takes an element of a finite set (`roots`, `rest`, `ready`), and a
measure over them would be induction over data.

## Plan

Done: the message pipeline (`Outbox`, `WebhookQueue`, `WebhookPipeline`, `DeliveryReceipts`), the
stream (`Realtime`) and eleven services, each with its runs, and proofs of every safety
property the runs check. What could be added, in this order:

1. The realtime listener and `replayBeyondLimit`, once something starts or calls them.
2. Campaign dispatch and segments as operators against reference definitions, like the graph.
3. A restarted server in `Realtime`, with tabs that reconnect to it.

## Not modelled

* Rendering (`workspace.js`, the pages of `public/`), apart from what they send: no state.
* Configuration parsing, signatures, encryption, hashing and QR codes: functions of one input
  without state; where their outcome matters it is left open.
* Presence, collaboration, routing and SLA of the inbox, and the CRM, knowledge, identity and
  governance services: single calls over one object in memory or one row, which end at once;
  nothing comes between, and `server.js` uses few of them.
* `job-store.js`: it claims a status that the constraint on `outbox_jobs` forbids, so nothing it
  enqueues is ever stored. `setup-wizard.js`, `setup/workspace.js` and `provider-settings.js` are
  loaded by nobody.
* Campaign dispatch, segments, metrics, `policy-service.js`, system status and worker health: pure
  functions or reads.
