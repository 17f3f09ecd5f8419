# A verification development for admin-panel

TLA+ modules, TLC configurations and TLAPS proofs about the Rust backend of this
repository. First came `backend/ai-runtime`, the service that holds provider
credentials, a fixed acceptance budget and the journal of paid model calls: the
part where an interleaving, a failed write or a restart costs money or revives a
withdrawn authorisation. Around it stand the Admin server's stores whose rows
several actors change: profile publication, the service registry and its health
worker, branding, and the feed of finished pipelines.

Paths below are relative to `src/`; `ai-runtime/` stands for
`backend/ai-runtime/src/`.

## 1. The system

| Component | State | Operations | What makes it correct |
|---|---|---|---|
| Inference journal (`ai-runtime/inference_journal.rs`, `inference_tools.rs`, `scoped_readback.rs`) | `VaultState.inference_runs`, `root_profiles` | prepare, dispatch, delta, finish, finish with tools, continue, cancel, late cost, generation id and its readback, mark unknown, reconcile at restart; status and events | one POST per request; intent and reservation durable before it; no two assignments live on a task; one profile per root task; tool results used once; the log a client pages through explains state and cost |
| Acceptance budget (`ai-runtime/budget.rs`, `openrouter_pricing.rs`) | `VaultState.budget` | estimate and ceiling, reserve, mark dispatched / uncertain, cancel before dispatch, settle, summary | commitments within 30 USD; no refund while an outcome is unknown; an overrun stops paid work; the ceiling covers the bill |
| Encrypted vault (`ai-runtime/vault.rs`) | `Vault.state` and the file `vault.aead` | open, commit | a failed commit leaves the effective state alone; a crash leaves one of two states |
| Execution grants (`ai-runtime/execution_grant.rs`) | none (verified claims are immutable) | verify, check_current | only current, matching claims reach the journal |
| OpenRouter transport and codec (`ai-runtime/openrouter*.rs`, `schema_validation.rs`, `backend/domain/src/inference.rs`) | the permit `OpenRouterDispatch`, the open `OpenRouterResponse`, decoder buffers | build and check the request, begin, start, next_deltas, renew, finish, generation readback | consumes one permit per POST; reports loss rather than retry; only a whole stream is a completed answer |
| Native ChatGPT login (`ai-runtime/http.rs`, `codex.rs`, `main.rs`) | `logins`, `disconnects`, `connections["chatgpt"]`, `auth_checkpoint_ready`, RPC waiters; the child's `auth.json` | start, cancel, disconnect; checkpoint task (completion, expiry, refresh); startup reconciliation, or a start without a child | a withdrawn login never connects; one attempt at a time; vault and child agree after a start that has a child |
| Native Codex process (`ai-runtime/native_*.rs`, `config.rs`) | child process, isolated directories | spawn, isolate, classify errors | isolation |
| Profile publication (`ai-runtime/publication.rs`, `backend/infra/src/ai.rs`, `ai_runtime.rs`, `backend/server/src/ai_publication_worker.rs`) | draft, revisions, pending publication and outbox in PostgreSQL; registrations in the vault | save draft, prepare, worker reconcile (status, register, registry, complete / reject) | one pending publication per workspace; published = registered at the runtime; replay by operation id |
| Service registry and health (`backend/infra/src/registry.rs`, `backend/server/src/health_worker.rs`, handlers in `backend/api/src/lib.rs`, bootstrap in `backend/server/src/main.rs`) | `service_registry_entries`, `service_declarations`, `service_check_runs`, `health_status` | create, patch, approve, disable, retire, check, probe, catalog, bootstrap at a start | compare-and-set on the version; a decision is about what was seen; evidence about what is in force |
| Branding (`backend/infra/src/branding.rs`, handlers in `backend/api/src/lib.rs`) | `branding_revisions` | draft, withdraw, publish | one published revision, no reused number, sound lineage |
| Messaging inbox and feed (`backend/infra/src/messaging.rs`, `backend/server/src/messaging_worker.rs`) | `messaging_inbox`, `platform_events`, consumer observation | handle, ack, retention, shutdown | a completion is shown by one event, and not again while the inbox remembers it; nothing acknowledged before it is stored; retention bounded and not stuck |
| Access and audit (`backend/infra/src/access.rs`, `audit.rs`), Admin API (`backend/api`), server wiring, domain types, migrations, frontend | rows, requests | CRUD, rendering | authorisation, validation |

Interactions. All state of ai-runtime is one `VaultState`; every handler clones
it, edits the clone and calls `Vault::commit` under `RuntimeState.vault` (a tokio
mutex), so the operations of journal, budget, login and registration are
serialised but interleave at every unlock: around a native RPC (login, logout),
around a POST to OpenRouter, and between two HTTP calls. The Admin server talks
to ai-runtime over HTTP (`backend/infra/src/ai_runtime.rs`, no retries) and keeps
its own intents in PostgreSQL; the publication worker reconciles the two. Its own
handlers are sequences of statements and short transactions under READ COMMITTED,
each on a connection of the pool: what one of them read may be out of date when
the next one writes, and only versions, conditions in the statement and unique
indexes decide. Health worker, messaging consumer, retention and publication
worker are tasks of the same process, without supervision.

In this revision prepare, dispatch, finish and continue are library operations
of the runtime with no public route; status, events, cancel, the restart
reconciliation, credentials, login and registration are wired in production. The
journal model composes all of them as the adapter `openrouter_transport.rs` and
its tests do.

Behaviours that are hard here: a rename that succeeded under a directory sync
that failed; crash between intent and POST; permits held without the lock;
cancellation against stream and tool receipts; late and repeated bills;
replacement assignments; notifications of old logins; dropped HTTP handlers;
RPC timeouts whose request still takes effect; a stream cut anywhere; two
publications that wait for each other's row; a decision made on two reads; a
probe's answer stored under another declaration; redelivery after the row is
gone. `PROJECT.json` lists each with its line and the properties that would
catch it.

## 2. Modules

| Module | Content |
|---|---|
| `BudgetLedger` | the ledger of `budget.rs` as operators on ledger values: `CanOp(b, ..)` for what the code checks, `Op(b, ..)` for the ledger it returns, and the summary it serves with the Admin's check of it |
| `InferenceJournal` | journal, tools, ledger, readbacks, vault file, adapter permit, crash and restart; extends `BudgetLedger` |
| `PaidOnce` | abstract specification: what the runtime promises about money |
| `JournalRefinement` | the refinement mapping from `InferenceJournal` to `PaidOnce` |
| `OpenRouterPricing` | the arithmetic of prices, estimate, ceiling and bill |
| `OpenRouterCall` | one call to OpenRouter: price, conversation, permit, stream, lease, verdict; extends `OpenRouterPricing` |
| `NativeLogin` | login handlers, checkpoint task, RPC, native child, crash and restart |
| `Publication` | the Admin's drafts, revisions and outbox, the runtime's registrations, the worker's passes between them |
| `Registry` | entries, declarations, operators, checks, health worker, catalog, start of the server |
| `Branding` | drafts and overlapping publication transactions over the rows and indexes |
| `PlatformFeed` | inbox, feed, consumer loop, retention, end and start of the server |
| `MC*` | instances for TLC, one module per specification |
| `*Proofs` | theorems checked by TLAPS: `InferenceJournalProofs` (the refinement of `PaidOnce` included), `NativeLoginProofs`, `PublicationProofs`, `RegistryProofs`, `BrandingProofs`, `OpenRouterCallProofs`, `PlatformFeedProofs` |
| `FoldLemmas` | lemmas about the library's folds and sums, which the proofs of the journal and of the call rest on |

### InferenceJournal

`vault` is the effective state, `disk` what the file decrypts to, `permit[r]` the
`OpenRouterDispatch` ("held") or `OpenRouterResponse` ("open") of a request,
`posts[r]` a history counter of POSTs. Operations are written on vault values,
as in the code, where each one is "clone, edit, commit"; the actions at the end
of the module run an operation and commit it.

*Commit.* `Vault::write` creates a temporary file, syncs it, renames it and syncs
the directory. `Saved` is success. `Torn` is an error after the rename: the
caller sees a failure and `vault` keeps the old state, but `disk` already holds
the new one. An error before the rename is a stuttering step. Only the latest
torn commit is remembered: the next commit overwrites the file. `Crash` picks
`vault` or `disk`, because a loss of power may undo a rename whose directory was
not synced. A torn commit during `Restart` is the same as `Restart` then `Crash`.

*Transport.* `Dispatch` is `dispatch_inference_once` as an adapter calls it: the
permit exists only if the commit returned Ok. `OpenRouterDispatch::begin` turns runs
of the other provider away before it gets there (`openrouter_transport.rs`:38); the
journal's function takes both, and so does the action. `Post` consumes it without the lock. `LoseTransport` is
an expired grant, an error, or a dropped response. Receipts (`Finish`,
`FinishTools`, `ReconcileCost`) exist only for requests the provider was sent;
the cost they state is any member of `Costs`, above the ceiling included.
`RecordGeneration` stores the id that came with a response while it is open, and
`MarkUnknown` reports a transport that is gone: neither function of the journal looks
at a permit, the guards are those of the adapter that calls them.
`ReconcileGeneration` is the readback of it, which may end a run of unknown
outcome as Failed or Cancelled and never as Completed.

*Readbacks.* `InferenceStatus` and `InferenceEvents` are what `scoped_readback.rs`
serves, the page's end and its cursor included. They change nothing; the
properties read the journal through them, as a client does.

*Abstractions.* Grants are verified claims and never change; their expiry, the
expiry of a price and a missing capability proof only reject. Rejected calls and
idempotent repeats change nothing and are stuttering steps. Payloads, schemas,
tool arguments and the text of deltas are left out here (`OpenRouterCall` has
them); so are the serialised size of the state, encryption and the process lock.
`Connect`/`Disconnect` replace and remove a provider's credential generation; the
detail of the ChatGPT one is `NativeLogin`.

### OpenRouterCall and OpenRouterPricing

One call from its price to its verdict; the journal around it is
`InferenceJournal`. `Quote` is the pricing snapshot, `Begin` checks price,
conversation and lease, `Start` is the POST and its response header, `Receive`
reads events in chunks that may end within an event (`partial`), `End` judges the
whole (`ValidTurn`), `Renew` replaces the authorisation and `Tick` lets it run
out. `decoder` and `output` are the two decoders that read every event,
`visible` is what the caller was handed. `ReceiveRefused` is a chunk of which the
decoders took a part before they met what they refuse.

The properties compare the verdict with `Complete(wire)`, a definition of a whole
answer over the events as they were sent, independent of the decoders.
`OpenRouterPricing` counts dollars in units of 10^-10, finer than both roundings.

*Abstractions.* A message of the assistant has a text or none, and the ids of its
calls; one with neither is refused, as in the code. An event is the fields that the decoders look at; text is whole, a
beginning, an end or unfit for its schema; malformed events are one refusal.
Sizes, UTF-8 and JSON syntax, reasoning details and the schema language are left
out.

### NativeLogin

A handler that calls the native process is two actions: one that commits and
sends (`StartLogin`, `CancelLogin`, `Disconnect`, `ExpireLogin`), one that handles
the answer (`StartReturns`, `CancelReturns`, `LogoutReturns`, `ExpireReturns`).
`call` is what the caller knows, `queue` what the child has not read. `Timeout`
answers the caller with an error and leaves the request in the queue; `Abandon`
drops an HTTP handler at its await. The checkpoint task takes one notification
(`CheckpointLogin`), polls (`ExpireLogin`, `CheckpointRefresh`) or ends
(`CheckpointEnds`), and does none of it while it waits for an answer.

A start has three outcomes. `Restart` restores auth.json from the vault, starts the
native app server, reconciles logins and disconnects and spawns the checkpoint task.
`RestartRefused` is the process that exits because its native account does not fit the
vault. `RestartWithout` is the process that serves all the same (main.rs:53-65): with
external calls off it touches nothing, and after an error of `restore_managed_auth` or
`CodexClient::start` auth.json is what it was or what the vault has. Such a process
(`codex` FALSE, `codex_error` its reason) reconciles nothing and has no checkpoint task,
although `auth_checkpoint_ready` is true. Its `start_login` and `cancel_login` answer
before they commit; `disconnect_chatgpt` commits the withdrawal before it finds that
there is nobody to log out, unless external calls are off (`DisconnectUnsent`).
auth.json is on a tmpfs: a crash leaves it or takes it away.

The native process is not in this repository. It is modelled as its callers
rely on it, and marked external: it reads requests in order, has at most one
device-code attempt, forgets attempt and credential on logout, announces how an
attempt ended, answers a cancel with `canceled` or something else, refreshes
tokens, may refuse any request and may exit. Commits are atomic in this module;
a commit that fails in the checkpoint task is `CheckpointEnds`, one that fails in
a handler after its call leaves the record as `Abandon` does. `expire_logins`
handles all overdue logins in one pass; since at most one login is pending
(`OneAttempt`) the pass is over one operation.

### Publication

Two databases and no transaction across them. `draft`, `outbox` and `active` are
PostgreSQL, where each store method is one step (its transaction locks the row of
`ai_active_profile`); `connection`, `proof`, `registered` are the runtime's vault,
where each handler is one step; `file` is `registered` as the vault file has it,
ahead of the memory after a torn commit. `outbox[o]` joins the outbox row with its
immutable revision row: what the candidate holds is named by its operation and by
the proof it was prepared from.

A pass of `reconcile` is one step per await: `StartPass` (pending_publication),
`ReadStatus`, `CheckEvidence`, `Register`, `CheckConnection` (the registry),
`CompletePublication` or `RejectPublication`. `pass[w]` is what the pass knows.
The Admin runs one worker per process; with `Workers` of two, an old and a new
process overlap, as in a rolling restart. `Drop` ends a pass at any await
(transport error, the 55 s timeout, shutdown); what it sent may arrive later
(`LateRegistration`) or never. `RegisterRevision` is register_profile with its
answers; those that are not definitive (503, 5xx) make the pass give up, as
`definitive_rejection` does. A commit of the runtime that fails may or may not
have changed the file.

*Abstractions.* Both servers read one clock: `expired` is when the proof's
`expires_at` has passed for either. The deployed adapter and accounting policy do not
change while a candidate is pending, proofs are never replaced, and a candidate's
settings are named by its draft revision (every save makes a new one). Nothing in
the repository produces proofs yet; `Verify` is external and does what its readers
rely on. Connections are reduced to generations. Restore mode, in which the
runtime registers nothing, and `operator_rejected`, which no route reaches, are
not modelled.

### Registry

Every statement or transaction of the database is a step. An operator's request
is `ViewEntry`, `ViewDeclarations`, then a write that carries the version seen
(`PatchDeclaration`, `ApproveDeclaration`, `DisableService`, `RetireService`); an
approval is followed by its audit event (`AppendAudit`), which may be lost. A check
is `FindActive`, `FindDeclared`, the call to the service, `FinishCheck`; a pass of
the health worker `ListTargets`, `Probe`, `SetHealth`; a catalog `ListEntries`,
one `FindDeclaration` each, `AnswerCatalog`. `ViewDeclarations` may show nothing:
`get_service` answers an error of its second statement with an empty list, beside the
version it read before (`backend/api/src/lib.rs`:525). `Bootstrap` is what a start of the
server reconciles with its environment: it may put another declaration in force
without a new version. `latest` is the other answer to "which declaration is in
force", the greatest `approved_at`, that `ActiveDeclaration` uses.

*Abstractions.* A declaration is named by its entry and content, since
`content_hash` is unique; a `Bootstrapped` content is not one that operators
declare, because a start hashes differently. `Owned` are those that a start replaces:
its own and those whose author is an operator with the subject "bootstrap"
(`should_bootstrap`). `up` is what answers; a content of `Unsteady` starts and stops
answering freely, a bound of the runs only. Addresses, capabilities other than `health.read` and field validation are
left out.

### Branding

A draft is four statements: `Allocate` (the next number), `FindBase` (the
published revision), then `InsertDraft` or `AbandonDraft` when the key is taken.
A publication is `LoadDraft` and a READ COMMITTED transaction: `Supersede` locks the
published row it sees or waits for the lock; who waits looks again at the row it
waited for (`Awake`), not for a row published meanwhile. The writes of a
transaction appear at its commit: the last two statements and the commit are one
step (`Commit`), where the partial unique index on the published state may roll
everything back.

### PlatformFeed

`sdlc-messaging` is not in this repository: it calls the handler in its inbox
transaction and acknowledges after the commit. `Process`, `Conflict` and
`Duplicate` are what such a transaction comes to, `Ack` the acknowledgement.
`consumer` is the loop of `messaging_worker.rs` around it (connect, work under a
measurement, drain at shutdown, pause after an error), `retention` the other task;
`Expired` and `Batches` are its delete in bounded batches. `NextDay` is the
calendar of both retention times; `Crash`, `Stop`, `Exit`, `Start` the process.
`shown` is a history variable: when each event last entered the feed. `completion`
says which completion of a pipeline an event reports; it is chosen at the start and
stays, so the events may be rivals or not.

*Abstractions.* Events are well-formed. The library counts and quarantines, for
reasons of its own (migration 0006), an event whose schema is invalid or whose id
comes back with another fingerprint; those never reach the handler.

## 3. Runs

| Run | Instance | Question |
|---|---|---|
| `journal_paid` | 2 requests of one grant, ceilings {1, 3}, a bill of 2, limit 3, 5 events per log, 1 delta | do money, journal, file and cancellation stay consistent over failed commits, crashes and restarts, and is the whole an implementation of `PaidOnce` |
| `journal_tasks` | 3 requests, 4 grants: a replacement, a sibling with the same fencing token, a foreign tenant under the same root; subscription profile, 4 events per log | exclusion of assignments, single continuation, one POST |
| `native_login` | 2 operation ids, 1 token refresh, starts with and without a native app server, fair (59,848 states) | safety of the login protocol, progress of the checkpoint task |
| `publication` | 2 candidates, 1 proof, 2 overlapping passes, one of them dropped, 2 drafts, 1 generation, fair | safety of publication, late registrations, does every pending publication end |
| `registry` | 1 service, 2 contents of operators, one of them of the author "bootstrap", and 2 of starts, 2 operators, 3 versions (1.2 million states) | are decisions and evidence about what is in force |
| `registry_health` | 1 service, a content and two of starts, 6 versions, fair | does the health shown catch up |
| `branding` | 2 editors, 3 publications, 3 revisions, 2 documents | is there always one published revision, with a sound history |
| `openrouter_call` | every stream of up to 4 of 19 events in chunks of up to 2, 5 conversations, 13 price rows, lease of 2 | is a completed answer whole, traceable, paid for and continuable |
| `platform_feed` | 2 events of one completion or two, 2 publications, 3 days, quarantine at 2 failures, batches of 1, fair (87,368 states) | is a fact shown, kept and not repeated while the inbox remembers it, does everything settle and expire |
| `journal_cancelled` | 2 requests, ceilings {1, 2}, 6 events | violation, finding 1 |
| `journal_restart_blocked` | 1 request, 5 events, 3 deltas | violation, finding 2 |
| `branding_stale` | 2 editors, 1 publication at a time, 3 revisions | violation, finding 3 |

Why the bounds suffice. *Journal:* ceilings of 1 and 3 under a limit of 3 make
two requests fit, or not, depending on what the first one reserved, was billed or
overran: a bill of 2 over a ceiling of 1 is an overrun, under one of 3 it frees
the rest. A log of 5 events holds the longest paid story that ends in a late bill
with its overrun, and is short enough that a full log occurs at every point.
Three requests give parent, child and rival. `MaxRuns` and `MaxEvents` are the
code's limits made small; `MaxDeltas`, `MaxGenerations` and `MaxRotations` bound
inputs only. Crashes and restarts are not bounded.

*Login:* the first start has a child, and any later one may have none, in any
order; two ids are the old and the new login, or a login and the disconnect that
races it; the third actor is the checkpoint task. *Publication:* the second
candidate is what a rejected first one could harm (its revision, the slot, the
active pointer); two passes give every disagreement about one candidate; one
dropped pass is enough for its registration to come late, as a further one is
indistinguishable from the next pass but for what it leaves behind. The second
draft is the one saved under a candidate. That a proof outlives its connection
comes from `Disconnect`; with one generation there is no reconnection in the run,
and the theorems cover any number.

*Registry:* two operators are enough for a lost update; the first two versions are
the entry and its approval, the third a change under the other's eyes. Two contents of starts make a start leave
the older one approved beside its own, which is what `ApprovedIsActive` excepts; the
content of the author "bootstrap" is the other one that a start replaces. What
answers is fixed in this run (`Unsteady` is empty), no property of it depends on
health. The health
run leaves out checks and catalogs, on which health does not depend
(`HealthStep`), and has room for the active declaration to change three times
under one pass. *Branding:* a publication that waits, the one it waits for and a
third that publishes meanwhile. *Feed:* one day is more than `FeedDays` = 0 and as
long as `InboxDays` = 1, so an event is redelivered while the inbox knows it,
after its row has gone, and after the inbox has forgotten it. Two publications are
one event twice, two rivals, or two completions: in the last case both rows expire
while a batch takes one, and the other must wait for a pass more. The order in which
a larger backlog goes is the theorem `OldestFirst`. *Call:* four events
hold a tool call in two fragments with its end and `[DONE]`.

Symmetry permutes ids that no definition distinguishes and is not used with
liveness. Deadlock checking is off where the system may stop (all requests
finished, bounds reached, or a restart that a full log blocks); it is on for the
registry and the feed.

Fairness. The journal needs none: its properties are safety. `FairSpec` of
`NativeLogin` assumes only what the runtime schedules itself: the 2 s poll of the
checkpoint task, the branches of its `select!`, the 45 s timeout of a call, the
handling of the answer of a call that has one, and clocks. Handlers (a client may
go away), the native process, and restarts get no fairness. Both properties except
`~Serving`: the task has died, the process is down, or it serves without a native app
server and has no task. `FairSpec` of
`Publication` assumes the worker's 5 s poll (`WF` of `Reconcile`) and that proofs
expire; passes are dropped only `MaxLosses` times, which stands for a network that
works in the end. The expiry is needed: the runtime may fail to store a
registration for ever, and it is the expired proof that then frees the slot. The
property excepts a provider whose authorisation is uncertain, as the contract does
("holds pending"). `HealthSpec` assumes the worker's endless loop and, strongly,
that the database stores an answer now and again (`SetHealth` can be replaced by
`LoseHealth` at each try). `FairSpec` of `PlatformFeed` assumes that the process is
started again after it ended, that the loops go on while it lives, and, strongly,
that a connection, a delivery, an ack and a retention pass succeed now and again;
no crash, failure or conflict is excluded.

Every property of a passing run has a mutant in `PROJECT.json`: a plausible bug
(the definition marked "Faulty variant" in the module) under which TLC violates
it.

## 4. Findings

1. **A requested cancellation is forgotten by an unknown outcome**
   (`CancellationKept`). AI_PROFILE_V1.md:161 keeps a cancellation request after
   the intent until a reconciled provider receipt. `mark_inference_unknown` and
   the restart reconciliation replace `CancellationRequested` by `Unknown`, and
   `finish_inference_tools` accepts `Unknown` and tests only the current state: the
   run ends up `AwaitingTools`. The adapter's own generation readback only
   offers Failed or Cancelled for an unknown run, so today the hole is in the
   journal's interface.
2. **A full log blocks every restart** (`RestartNeverBlocked`). AI_PROFILE_V1.md:157
   says a restart moves active calls to unknown. The reconciliation appends an
   event through `append`, which rejects a log of `MAX_EVENTS`; the error aborts
   the whole reconciliation and `main` exits. Deltas may use the last slot.
3. **Publishing a branding revision ignores `If-Match`** (`NoStalePublish`).
   docs/adr/0005:22 says an administrative write uses `If-Match` and gets 412 when
   its revision is stale; the OpenAPI annotation of `publish_revision`
   (`backend/api/src/lib.rs`:1098) declares the header. The handler reads none, and
   `BrandingStore::publish` supersedes whatever is published: of two drafts made
   on one base the second silently undoes the first. In the counterexample that base
   is none: nothing had been published when both drafts were made.

Observed while modelling, and not stated as properties since no document
promises otherwise or nothing can be checked about them:

- A process without a native app server serves, and `providers` (`ai-runtime/http.rs`:344)
  reports the ChatGPT connection of the vault as connected although auth.json may be
  absent. `ConnectionBacked` is therefore about processes that have one. A disconnect
  sent to one whose native start failed is committed, then refused, and stays pending
  until a start with a native app server completes it.
- The answer of `login/cancel` is written over whatever the record became meanwhile
  (`ai-runtime/http.rs`:745): a login that a disconnect had revoked may end as
  cancelled, or as uncertain, and then blocks new logins until the next start or
  disconnect. It cannot complete either way (`NoResurrection`).
- An operator may decide on an empty list of declarations, since `get_service`
  swallows the error of the statement that reads them. `NoLostUpdate` says that an
  empty list is, but for what a start declares, the only way in which what was shown may differ
  from what is there, and that it is never the true one: an entry always has a
  declaration.

- A start of the server whose environment goes back to an earlier content (A, B,
  then A) meets the unique index `idx_declaration_content` and fails.
- `approved_at` is the API's clock for requests and the database's `now()` for a
  start; `latest` assumes that they agree on the order of approvals.
- A changed declaration gets the status pending (docs/ARCHITECTURE.md:64), but one
  whose content was declared before is not inserted again: the patch succeeds, the
  version grows, and a superseded content stays superseded, so an entry cannot go
  back to it (`backend/infra/src/registry.rs`:162; `PatchDeclaration`).
- An audit event follows its transaction in a statement of its own whose error is
  ignored (`backend/api/src/lib.rs`:776), so it may be lost; docs/ARCHITECTURE.md:114
  says that they are one transaction. `LoseAudit` models the code, and `EvidenceIsTrue`
  speaks of the events that are there, not of those that are missing.
- `set_openrouter` carries no order: a request that is delayed on its way connects
  the provider although its sender has disconnected it since. A repeat of its
  operation id is recognised, a first arrival is not late by any rule.

## 5. Theorems

Every safety property that a passing run checks, invariant or action property, is
a theorem for all values of the constants. The seven modules about components
follow the same plan: an inductive invariant, one lemma for `Init`, one for `Next`
with a step per action, `Spec => []Inv`, and each property from it. The assumptions
are the named `ASSUME`s of the modules only. They type the constants and say:
`Requests` of the journal is finite (sums over it are served; the code keeps at most
`MAX_RUNS` runs), the value None is none of the values it stands beside, an event
with a chunk of an answer has an id (the decoder refuses one without it, as it does
any malformed event), and the feed's days are within the inbox's. Other sets may
be infinite, limits and bounds (`MaxChunk` events per chunk, `MaxEvents` per stream)
are any numbers, logs, pages and queues have any length.

`InferenceJournalProofs`: `TypeOK`, `AtMostOnePost`, `TaskExclusive`,
`RootFrozen`, `SingleContinuation`.

A property of the effective state alone is not inductive, because a crash may
install `disk`. So every part is a predicate of a vault value: `Sound(v)` is
`WellFormed(v)` (types, finitely many runs and at most `MaxRuns`, logs within
`MaxEvents`, unused slots empty) and the value forms of the three properties,
`Exclusive`, `Bound` and `Linked`. `Inv` is `Sound(vault)`, `Sound(disk)`, the types
of the other variables, and `SentOnce`: a request that was sent, or for which a
permit is held, is past `Prepared` in the memory *and* in the file, so no crash
makes `Dispatch` possible for it again. The argument is made once per operation:
the `*Typed` lemmas show that it keeps a value well-formed and, unless it admits
a run, that it `Evolves` it (owners and links stay, no terminal run revives, no
begun run becomes unsent), which preserves `Sound` (`EvolvesSound`).
`PreparedSound` and `ContinuedSound` do the two operations that admit one;
`Committing` does the choice between a saved and a torn commit for all of them.

The same module: `FailedCommitIsOneStep`, `CancelHolds`, `LedgerMatchesRuns`, and the
refinement `Spec => PaidOncePromise`.

The difficulty is again the crash, now for the abstract steps: when it installs
the file, the abstract state changes by whatever the file is ahead. So the first
fact is `Ahead`: the file is the memory or one legal operation further, and equal
to it when the process is down. Then each operation is shown once to move the
ledger in one of four ways (`Moves`: nothing, a reservation, a doubt, a bill), and
`NextCases` reduces every action to a commit of an operation (`CommitStep`), a POST,
nothing but permits given up (`Quiet`), a crash or a restart. `LInv` adds what the
entries are (`Ledgered`: Reserved and CancelledBeforeDispatch never last, since an
operation reserves and dispatches in one commit) and what they are backed by
(`Backed`: a bill is of something sent; what may be sent has its entry, in memory
and file). From it, a commit is a hold, a bill or a stutter of `PaidOnce`, and so is
a crash that completes a torn one; the amount that `PaidOnce` calls exposure is
what the code compares with the limit (`ExposureIsCommitted`); and a restart, which
only turns dispatched entries into uncertain ones, is a stutter.

`LedgerMatchesRuns` needs the link in the other direction, from entries to runs:
`Matched(v)` (entries are those of the paid runs whose log has the intent, active
ones in doubt, generations only of paid runs), which every operation keeps
(`Follows`, one lemma per operation), and `MInv`, which ties intents and
generations to what was sent. So the restart finds every active paid run with a
reservation in doubt; it is the log's capacity alone that can stop it
(finding 2).

The same module: `JournalExplainsState` and `JournalOnlyGrows`. `JInv` adds `Retold` of
memory and file: a run's log replays to its state, and the overruns it tells of
are its ledger entry's. An operation appends some events and moves state and entry
(`Grown`); that they fit is `Tells`, which is about every log with that outcome, so
the earlier history need not be known. A client reads the log in pages:
`ReadsAll` shows that each page begins where the last ended and that following
cursors returns the whole log in its order, for any size of page; so what it
can tell of a run is what the status says. Over a crash the memory is replaced by
a file that is it or one operation further (`Ahead`), so logs only get longer and a
cursor stays good.

The same module: `CommittedWithinLimit`. The bill of an overrun may exceed the limit,
so the committed sum is not inductive. `Planned` of an entry is what it holds, or its
ceiling once the bill exceeded it; `Fits` says that the plans of a ledger are within
the limit, and holds of memory and file (`FInv`). Reserving checks the committed
sum, which is at least the planned one, so it keeps `Fits`; a settlement
replaces a ceiling by no more than that, or by an overrun that plans the same.
Every operation changes one entry, so each sum changes by that entry's part
(`SumUpdate`). The summary's totals are three sums over the same entries, split by
status, and add up (`SumAdds`), which is what the Admin checks.

`FoldLemmas` makes this possible. The library defines a fold by a recursive function,
that is the choice of a function that solves an equation, and the induction theorems
that would show that there is one take an operator, which the provers cannot fill in. So the lemmas work on sets:
`NatSet` and `SubsetInduction` are inductions on a set of numbers or of subsets;
`FoldExists` shows that the equation has a solution, hence that the chosen function
is one, `FoldAgrees` that all of them agree, `AnyOrder` that a sum does not depend
on which element is taken out first. From them come sums (`SumIs`, `SumUpdate`, `SumMonotone`, `SumAdds`) and folds
over sequences: `FoldGoes` gives a fold its run, the value after each element, along
which `UpTo` argues.

`NativeLoginProofs`: `TypeOK`, `OneAttempt`, `DisconnectIsolates`,
`ConnectionBacked`, and the action properties `NoResurrection` and
`OnlyNewDisconnectRevokes`.

Here `Inv` is about the vault (`Alone`: one live login, stated without counting;
`Named`: a pending login knows its attempt; `Isolated`: an open disconnect
excludes connections and logins; `Unconnected`: a login that can still complete
finds no connection) and about the calls that outlive the lock: `LogoutOpen`,
whoever waits for a logout holds its disconnect open; `LogoutQueued`, an unread
logout belongs to an open disconnect, has no answer and is in the queue once;
`Quiet`, nothing is in flight without a native app server; `Backed`, a connection
has tokens. `LogoutQueued` is what `ConnectionBacked` needs: a logout whose caller
has timed out is still in the queue, its disconnect is then uncertain, and
`Isolated` keeps the vault without a connection until it has been read or the
child is gone. `Backed` is about processes with a native app server: those without
have no way to a connection, and change the vault only by withdrawing
(`DisconnectUnsent`), after which `Isolated` holds over any number of such starts
until `Restart` reconciles. The rest follows the vault: most actions change one login
(`MoveKeeps`) or nothing (`Elsewhere`).

The same module: `WithdrawnNotRestored`. Tokens are written by a child that knows an
attempt and nothing of the login it came from, and whoever asked for the
attempt may be gone. `Earned` is the property with its strengthening (a login that
completed, or that its own attempt ended); the rest of `OriginInv` says where tokens
can come from. A login is `Known` to the native process from the request for its
attempt, still in the queue, until its tokens are forgotten. `Origin`: while no
disconnect is open, only a `Rightful` login is known, one that ended by itself or
the only one that still may, with no connection in the vault. `Once` and `InQueue`: an
attempt is asked for, under way or has given its tokens, one of the three; a request
is in the queue once, and none is behind a logout. `Gone`: after a cancellation or
logout that was confirmed the login is not known. `OwnName` and `Withdrawing`: a
login bears its own attempt's name, and who waits for a withdrawal has withdrawn it.

`PublicationProofs`: every safety property of `Publication`.

The argument is that what a pass found out cannot become false before it is
written down. `Grows` says what no step takes back: drafts and generations only go
up, proofs stay, expired ones stay expired; `Ages` ties proofs to the drafts and
generations that existed, so a generation that is not current never is again.
`FoundStays` follows, and gives `Reasoned` (of passes) and `Recorded` (of outbox
rows). `Acked` and `Filed` (a receipt is in memory and in the file, and a restart
keeps both) give `PublishedDurable`. A draft is compared only after the
acknowledgement, which is why a rejection whose registration is still travelling
can only be for a reason that `register_revision` sees as well:
`LateRegistrationsIgnored`. `PendingExpectsActive` and `RevisionsUnique` need each
other: the pending candidate has the highest revision, so publishing it raises
the pointer. All steps that do not write the outbox are instances of `Outside`,
those of one pass of `PassStep`.

`RegistryProofs`: `ApprovedIsActive`, `EvidenceIsTrue`, `NoLostUpdate`. An entry's
version stands for the entry and the declarations of operators: whatever changes
either makes it grow, except a start of the server, which changes only the
declaration in force (`Moves`). So what an operator read in two statements is
still what is there as long as the version is (`Seen`), or is the empty list that a
failed read left; that this one is never true needs that an entry, once there, always
has a declaration. And an approval is never
taken back, only superseded, so evidence about it stays true.

`BrandingProofs`: `HistorySound`, `PublishedNeverGone`. A publication that may
commit holds the only published row, so every other transaction holds none; what
an editor has read stays good enough because revisions only come and move on
(`Grows`).

`OpenRouterCallProofs`: `CeilingCoversBill` for all prices and amounts of tokens
(`CeilingCovers`: rounding up per rate and again per product loses nothing
against the provider's own rounding, and a token from the cache is never dearer),
and `NoGap`.

The same module: `TypeOK`, `VerdictIsWhole`, `Traceable`, `ContinuationValid`. The code
judges a stream by two decoders that are fed with chunks; the properties speak of
the whole stream. `Remembers` and `SumsUp` say what each decoder holds in terms of the
events so far. One event more is accepted by the first exactly if the longer
stream is `Ordered` (`AcceptedIsOrdered`, `OrderedIsAccepted`), and by the second
exactly if no call got two ids (`OutputSumsUp`); then both still hold what the stream
says. A chunk is a fold of such steps, and it is decoded before any of its frames
is looked at, so the two are combined only at its end (`ReadDecodes`).
`ValidIsComplete` reads the verdict off: the turn that was decoded is valid if and
only if the stream is `Complete`, the indices of its calls without a gap being the
interval that the code tests (`NoGapIsInterval`). `StreamInv` carries this through
the call: nothing is read before the POST, what is read is sound, and the
generation of the response is the output's. For `ContinuationValid` reading a
conversation goes on where it was (`ReadingGoesOn`), so a turn with new ids and its
answers, one by one and in any order, leaves nothing pending (`AnswersAccepted`).

The proof changed the model in one place: the arms of `OutputFrame` were a CASE whose
guards overlapped, which leaves open which one is taken; they are now tried in the
code's order.

`PlatformFeedProofs`: `ProcessedIsShown`, `FactsStand` and, in no run, `OldestGoFirst`
(theorem `OldestFirst`): rows leave expired and oldest first, and a pass that commits
makes any backlog smaller, whatever its batch. `Remembered` is the
strengthening: an event that was shown is processed in the inbox since that very
day, or has been out of date for longer than the inbox remembers anything; it
needs `FeedDays <= InboxDays`, as the code has it.

## 6. Model-checked only

- `PendingEnds`, `RefreshReachesVault`, `PublicationSettles`, `HealthCatchesUp`,
  `EventsSettle`, `ExpiredGo`: liveness under fairness, outside what the prover
  handles.

The runs still check every property of section 5: they are how the invariants and
the model were found out to be right before they were proved, and the mutants of
`PROJECT.json` show on them that each property can fail.

## 7. Not modelled

- *Native process isolation, error classes, configuration.* Files, processes and
  environment; no state machine. The child itself is external, as its callers
  rely on it.
- *The vault's cryptography, its lock file, its path checks, its size limit.*
  Sequential; the models take from them that a file decrypts to what was written.
  A vault of 16 MB refuses every commit, which in the models is a commit that fails
  each time.
- *Execution grants.* Verification is a pure function of signed bytes. The
  journal model takes verified claims as given.
- *Syntax of the codec*: UTF-8, JSON, sizes, reasoning details, the schema
  language. Parsing is sequential and bounded; its inputs are unbounded text.
- *Access.* Role bindings are single statements that no other state depends on,
  and are off in central mode (docs/adr/0008); `resolve_role` takes whichever row
  the database returns first when a claim has two. Managed users are forwarded to
  another system.
- *Audit* except the event of an approval; *Admin API* listings, token checks and
  OpenAPI; *migrations* except the indexes and defaults that the models use.
- *Frontend.* Views over the API; no state that outlives a page.

## 8. Plan

1. Done: everything in sections 2 to 5.
2. The composition of `NativeLogin` and `Publication`: the connection's generation
   and the checkpoint task taken from the login instead of abstracted.
3. `OpenRouterCall` composed with the journal, so that a verdict is the receipt
   that is recorded; today the journal takes any receipt for a request that was
   sent.
4. An abstract specification of a publication (one atomic switch, or none) and the
   refinement.
5. Proofs: that a publication is one switch or none, once it is stated; the lemmas
   that its passes keep needing are there.
