# Verification of the public chat platform

TLA+ models of the parts of this repository where order matters, TLC configurations that check them on small
instances, and theorems about them checked by TLAPS.

The repository is a multi-tenant chat platform: a Python API (`apps/api`, FastAPI, PostgreSQL, Redis), a widget that
customers embed in their pages (`packages/widget-sdk` on the customer's page, `apps/widget` in an iframe) and a
dashboard (`apps/web`). Everything below was read from the code at this commit; where a document or a comment says
something else, the model follows the code, and section 4 says what differs.

1. [The system](#1-the-system)
2. [The modules](#2-the-modules)
3. [Runs and bounds](#3-runs-and-bounds)
4. [Where the code and its documents differ](#4-where-the-code-and-its-documents-differ)
5. [Fairness and waiting](#5-fairness-and-waiting)
6. [What is proved](#6-what-is-proved)
7. [What is not modelled](#7-what-is-not-modelled)
8. [Plan](#8-plan)

To check a module, `tlc -workers 2 -config PublicMessages_safety.cfg MCPublicMessages`; to check its proofs,
`tlapm PublicMessagesProofs.tla`. `PROJECT.json` lists the runs, the mutants that show each property can fail, the
source lines of every definition, the hazards and the theorems.

## 1. The system

### 1.1 How the parts interact

A visitor's page loads the SDK, which mounts the widget's iframe and exchanges `postMessage` messages with it. The
iframe asks the API for the widget's configuration, opens a session and sends messages over HTTP. Each public request
runs through a gateway: tenant resolution from the public key, the credential's status, the page's origin, the rate
limiter (Redis), and then, for a message, the session, the idempotency record, the conversation, the message's
screening, and the answer of the retrieval-augmented generator, which resolves the deployed prompt, searches the
documents of the assistant and calls a provider. Administrators edit, publish and roll back the widget's
configuration, manage its public keys and origins, upload documents and deploy prompts, through other routes on the
same tables. A payment provider calls a webhook. Scans for failures, evaluation runs, release gates and an alert
dispatcher run beside the API on the same database or on files.

Three facts shape everything concurrent:

- Transactions run at PostgreSQL's default READ COMMITTED; no code raises the isolation level. A SELECT sees what was
  committed when it started, an UPDATE waits for the row's lock and then writes what was computed from an earlier
  SELECT. SQLAlchemy's identity map keeps a row's first values for the rest of the session, an UPDATE names only the
  columns that differ from the loaded values, and autoflush is off where the code says so.
- The API runs in up to 3 replicas (`infrastructure/azure/modules/application-container-apps.bicep:23`, `:111`), so
  nothing kept in a process's memory is shared, and any of them may die between two statements.
- Nothing retries on the server side. A client that gave up retries on its own, with the idempotency key it used.

### 1.2 Components

Each entry names the state a component keeps, its operations, what is hard about it and what makes it correct.

**Public message pipeline** (`access/messages`, `access/gateway.py`, `ai/rag_orchestrator.py`). State: the
idempotency records (received, processing, completed, failed; conversation, request hash, reply). Operations: claim a
key, attach the conversation, consume a slot, screen, store the user message, generate, store the answer with its
citations, complete or fail the record. Hard: one request is two transactions, the first under the session row's
lock, the second without any; retries overlap the request they repeat; a replica may die anywhere; some errors commit
and others roll back. Correct when: a key is executed at most once, its retries get its own answer or a refusal, slots
are charged exactly once, and what is stored is whole. *`PublicMessages`, `MessageContract`.*

**Sessions** (`access/sessions`). State: status, expiry times, message count, conversation. Operations: create,
validate, count a message, lapse, block, revoke. Hard: validated without a lock, charged under one. Correct when:
only an active session is charged, never past its maximum, and it has one conversation. *`PublicMessages`, for
sessions that exist; creation in `WidgetConversation`.*

**Conversation persistence** (`repositories/conversation_repository.py`). State: conversations, messages numbered per
conversation, citations. Hard: the next number is max + 1 read in one statement and inserted in another. Correct
when: the numbers are 1..n without gaps, and no message is in another session's conversation. *With the pipeline.*

**Widget conversation client** (`apps/widget/src/services`, `state`, `api`). State: session, entries, pending send,
retryable sends. Operations: create a session, send, send again, retry, reload. Hard: a call given up may still be
served, keys are unique per session only, the visitor's Retry races the session's end. Correct when: one visible
message is executed once, what is shown is true, every send ends. *`WidgetConversation`.*

**Embedded widget runtime** (`packages/widget-sdk/src/runtime`, `handshake.ts`; `apps/widget/src/bootstrap.ts`,
`handshake.ts`, `lifecycle.ts`, `ui/components/widget-app.tsx`). State: the SDK's controller, readiness promise,
pending command, the container's size, the iframe's lifecycle and shell. Operations: init, mount, handshake, open,
close, toggle, destroy; the visitor's clicks; timers. Hard: two event loops, three copies of "open", promises that
must settle, destroy in the middle of anything. Correct when: the copies agree once the messages are read, ready means
configured, destroy leaves nothing, every call settles. *`WidgetRuntime`.*

**Widget revisions** (`access/widget_admin/service.py`). State: the widget's active and previous revision, its
revisions (draft, published, superseded; number, content, hash, concurrency version). Operations: read or
create the draft, update it, publish, roll back, archive. Hard: optimistic concurrency on a row that publications
replace; numbers assigned by max + 1 behind a unique index; two lock orders. Correct when: the published history is
append-only and immutable, a hash belongs to its content, and a stale edit is refused. *`WidgetRevisions`,
`PublicationHistory`.*

**Public credentials, origins, rotation** (`access/credentials`, the origin and rotation routes of `widget_admin`).
State: credentials with a status, the origins allowed on each, the widget's current credential. Operations: create,
activate, disable, revoke, rotate (on two routes with different meaning), add and remove an origin (on two routes with
different guards). Hard: every guard is a count or a lookup in one statement and a write in a later one. Correct when:
revoked is final, a rotation replaces the key that was expected and keeps its origins, the cap and the final origin are
respected. *`WidgetKeys`.*

**Public gateway's look-ups** (`api/v1/public_widget.py`, `access/gateway.py`, `credentials/registry.py`,
`tenant_resolution`, `origin_validation`, `widget_config`). State: none of its own but the installations it observes;
it reads the switches of its process, the credential, organisation, workspace, origins and configuration, and the
browser keeps what it serves. Operations: read a configuration, start a session, their preflights; the owners' requests
through both admin APIs. Hard: each fact is read in a statement of its own while owners change it, the configuration in
three; two APIs write what is read. Correct when: every answer has a reason that was true during the request, "not
modified" is, and who was served is known. *`PublicWidget`.*

**Rate limiting** (`access/rate_limit`). State: one token bucket per rule and identity in Redis, with an expiry.
Operations: consume atomically in a script, fall back when the store fails. Hard: the time is the caller's stamp, so
requests overtake each other and scripts run after their caller gave up; a store may fail at any rule. Correct when:
no bucket grants more than it refilled, expiry gives nothing away, no rule is skipped, Retry-After is the time it
really takes. *`RateLimit`.*

**Documents** (`api/v1/documents.py`, `services/document_lifecycle.py`, `manual_extraction.py`, `chunking.py`,
`embeddings.py`, `local_storage.py`). State: documents and versions with a status each, chunks and their embeddings,
files, the assistant's knowledge scope. Operations: create, upload, assign, extract, chunk, embed, two lifecycles,
search. Hard: each endpoint reads, works and commits alone; files are outside the transaction; only the extraction
holds a lock. Correct when: the chunks are one split of the text, no row names a missing file, retrieval finds a
document whole. *`Documents`.*

**Prompts** (`repositories/prompt_repository.py`, `prompts`). State: versions with a review status, deployments per
scope, experiments, a cache per process. Operations: create, review, deploy, roll back, seed, resolve, start and kill
experiments. Hard: transitions on a stale status, deployments looked up and then inserted, a cache only its own
process invalidates. Correct when: nothing unreviewed is deployed or cached, nothing older than the cache's time is
served, a killed experiment stays dead. *`Prompts`.*

**Billing** (`billing`, `api/v1/billing.py`, `billing_webhook.py`). State: the organisation's row (plan, status,
customer, subscription, cancel flag). Operations: trial, checkout, cancel, resume, webhook events, the plan's limit.
Hard: events are applied in the order of delivery (`service.py:131`), a failed one is acknowledged
(`billing_webhook.py:64`), limits count and then insert (`service.py:59`). Correct when: the row follows the
provider, and the limit holds but for named reasons. *`Billing`.*

**Failure signals and triage** (`evaluation/feedback`, `repositories/evaluation_candidate_repository.py`). State:
candidates with a count, a severity and a status. Operations: scan, count, escalate, reopen, triage, mark as duplicate.
Hard: scans overlap and are run again; look-up and insert are two statements; verdicts are given on a status read
before. Correct when: nothing is loud without a reason, nothing is counted twice over, one question has one open
candidate. *`Feedback`.*

**Evaluation and the release gate** (`evaluation/engine.py`, `production_gate.py`, the regression report). State: the
dataset and its version, runs, reports, version events. Operations: promote a failure, run, report, ask the gate.
Hard: the gate reads five things in five statements while all of them change. Correct when: nothing unfixed passes, and
a run labelled with a version holds what the version promised. *`Evaluation`.*

**Answering** (`ai/rag_orchestrator.py`, `ai/guardrails`, `ai/executor.py`, `accounting.py`, `services/retrieval_*.py`,
`vector_search.py`, `lexical_search.py`, `query_transformation.py`, `reranking.py`, `observability/ai_trace_recorder.py`).
State: what one request has found, the process's usage records, a rewrite that was given up, the stored reply, its
citations, its trace. Operations: screen the question, transform it, search, fuse or merge, rerank, assemble the
context, judge the evidence, generate with retries, store, attach citations, trace. Hard: the decision whether to answer
is made of windows over sentences, ranks and limits; every stage may fail, loudly or not; cost and trace live in other
places than the reply. Correct when: what is answered is supported by a chunk the model sees, the ranking displaces
nothing without a reason, and reply, citations, cost and trace agree. *`Answers`, `Retrieval`, `Evidence`.*

**Memberships and authentication** (`auth`, `api/v1/memberships.py`), **alert dispatch** (`alerting`): see sections 7
and 8. **Email, observability, operational scripts,
dashboard, infrastructure**: no state the other parts act on; see section 7.

## 2. The modules

| Module | What it is |
|---|---|
| `PublicMessages` | the message pipeline, statement by statement |
| `MessageContract` | what a client may rely on when it sends a message with a key; refined by `PublicMessages` |
| `PublicMessagesProofs` | theorems about the pipeline, its refinement of the contract included |
| `WidgetConversation`, `WidgetConversationProofs` | the visitor's conversation client, the calls under way, and the API as it meets them |
| `WidgetRevisions` | drafts, publication, rollback and archiving of one widget |
| `PublicationHistory` | an append-only history of immutable configurations; refined by `WidgetRevisions` |
| `WidgetRevisionsProofs` | theorems about the revisions, its refinement included |
| `WidgetKeys`, `WidgetKeysProofs` | one widget's keys and allowed origins |
| `PublicWidget` | what the public gateway looks up before any message, statement by statement, and its owners' changes |
| `RateLimit` | the walk through the rules, and the buckets |
| `Gateway`, `GatewayProofs` | `RateLimit` and `PublicWidget` side by side, and the theorems about both |
| `WidgetRuntime`, `WidgetRuntimeProofs` | the SDK, the iframe and the messages between them |
| `Documents`, `Library` | from upload to retrieval, with files, locks and two lifecycles |
| `Prompts` | review, deployment, rollback, seeding, the resolution cache and experiments |
| `ContentProofs` | theorems about `Prompts`, `Documents` and `Answers`: what the assistants answer with |
| `Billing` | the organisation's row against a provider that delivers late, twice and out of order |
| `Feedback`, `Triage` | scans and triage of failure candidates |
| `Evaluation`, `ReleaseGate` | the dataset's versions, runs, reports and the gate |
| `BackOfficeProofs` | theorems about `Billing`, `Evaluation` and `Feedback` |
| `Retrieval`, `Evidence`, `Ordering` | operators: searches, fusion, merge and context; the sanitiser, the verifiers and the answer constraints; sorting and cutting, for both |
| `Answers`, `Answering` | one question's way through the orchestrator, on top of both |
| `MC...` | the values of the constants that a `.cfg` cannot write, and the symmetry of the instances |

In each module an operation of the code is an action named after it, or, where other processes can get in between its
statements, one action per statement that touches shared state. A definition called a variant, or named after the one
that follows it (`LookupSkippingFailed` next to `Lookup`), is what a plausible bug would make of that one; nothing uses
it except to show that the property it names can fail. Variables called history record what the properties talk about;
no action reads them.

Two components cannot be extended by one module, as each has its `Init`, `Next` and `TypeOK`. `Gateway`, `Library`,
`Triage`, `ReleaseGate` and `Answering` therefore instantiate `PublicWidget` (as `Page!`), `Documents` (`Ingestion!`),
`Feedback` (`Queue!`), `Evaluation` (`Gate!`) and `Answers` (`Reply!`) with constants and variables of distinct names, assume what the component needs
of its constants (its `Admissible`), and name its properties. They define no behaviour of their own. Both the instance
that TLC checks (`MCGateway`, `MCAnswers`, `MCKnowledge`, `MCFeedback`, `MCEvaluation`) and the module of the proofs extend them, so
that both speak of the same formula and TLC evaluates the assumption the proofs rely on.

### 2.1 PublicMessages

| State | In the code |
|---|---|
| `session` | `public_sessions`: `status`, `message_count`, `conversation_id` |
| `record` | `public_message_requests` by session and key hash: status, request hash (`body`), the request that owns it, whether it was charged |
| `conversations`, `messages` | `chat_sessions`, `chat_messages` |
| `lock` | the row lock of each session row |
| `pc`, `tx`, `seqno`, `outcome` | where a request is, what its open transaction has written, the number it has read, how the generation ended |
| `ask`, `reply` | the HTTP request and response |

| Action | In the code |
|---|---|
| `Validate`, `Expire`, `Lock` | `validate_session`: a read without a lock, an update that lapses the session, the touch that takes the row lock |
| `BeginRequest` | `begin_request`: replay, conflict, in progress, failed, or a new record |
| `ResolveConversation`, `ConsumeSlot`, `Secure` | create, attach or follow the conversation; `atomically_increment_message_count`; screening |
| `ReadUserSequence`, `AppendUserMessage` | max + 1, then the insert that commits the preparation |
| `Generate` | the provider and everything before it; its result or error |
| `ReadAssistantSequence`, `AppendAssistantMessage`, `AttachCitations` | the second transaction's inserts, each committed |
| `MarkFailed`, `Complete` | the record settles, the client is answered |
| `Crash` | the replica dies: the open transaction is rolled back, what was committed stays |

A refusal (`PublicAccessError`, or a `ValueError` or `TypeError` that the gateway turns into one, `gateway.py:318-341`)
is answered by a handler that commits, so the writes before it stay, the record as failed. Any other error rolls back.
The `IntegrityError` branch of `begin_request` cannot be taken while the session row is locked, and `received` is never
committed by itself, so the model has neither. Time is abstract: an active session may be found lapsed at any
validation. `denied` stands for a refusal of the tenant, the key or the origin.

### 2.2 WidgetConversation

`token`, `shown`, `thread`, `text`, `active` and `failed` are the iframe's stores; `calls` the HTTP calls under way or
answered and not yet heard; `sessions` and `records` the part of the API that decides what a call does. `thread` is the
set of states in which a send is shown, since a Retry under the same key appends a second pair of entries beside the
failed one (`conversation-state.ts:55-67`), whose own Retry stays visible; any Retry is ignored while a send runs.
`Submit` and `Retry` start a send; `HearSession`, `HearHeaders`, `HearBody`, `BodyFails`, `HearRefusal` and `GiveUp` end
a call or a stage of it; `SendAgain` is the one automatic retry, `Reload` leaves the page and comes back. The client's
timer runs until the headers of a reply arrive (`client.ts:88`), so that nothing bounds the time its body takes. `CreateSession`, `Receive` and `Finish` are the API serving a call, awaited or not; `EndSession` and
`Lapse` end a session at the API and for the client. `Receive` is one step where `PublicMessages` has many: what
happens inside is checked there. A refusal reaches the client as its HTTP status only (section 4), so that the client's
codes are derived from it (`SafeCode`, `Retryable`).

### 2.3 WidgetRevisions

`rows` holds the revisions by number, `active` the widget's pointer, `archived` its status, and `tx` what an
administrator's request has read and written. Each request is one transaction, an author's GET included, because it
may create the first draft. The unique index on (widget, number) makes a second publication wait for the first
(`HoldsNumber`, `NumberHeld`). A rollback flushes its update of the draft before it inserts its number, and a
publication inserts first, so the two can deadlock: PostgreSQL ends one of them (`DeadlockVictim`). Nothing is read a
second time (autoflush is off), and the concurrency version restarts at 1 with each draft. Whether a configuration is
publishable is left open (`Invalid`). Content is one value per field, a hash is the content it was computed from.

### 2.4 WidgetKeys

`keys` holds status, activation, parent and cutover of each credential; `allowed` the origin rows; `widget` the current
key, whether it is published, whether it is archived; `tx` what a request has read. The rotation of a widget's key is
Load, ReadKey, LockKey (a flush that waits for the old row), ReadOrigins and CutOver; other operations are a read and a
write. An origin with a default port is stored with a NULL port, which escapes the unique constraint (`DefaultPort`,
`Violates`); copies of a row are told apart by a number. A violation is raised by a flush outside the `try` and becomes
an error, not a refusal. `regime`, chosen once, says how many requests are served at once and through which routes: one
after the other for what the documents promise of each route (`Serial`), overlapping for what survives.

### 2.5 RateLimit

`clock` is Redis's time, `bucket` holds tokens, update time and expiry of each bucket, `req` what each request has
been through; `spent`, `first` and `rewound` are the history the properties talk about. `Pass`, `Refuse` and
`RefuseUnidentified` are one rule's script and its answer; `LoseStore` is a failure or timeout of the store, which ends
the walk with the rule's fail mode and leaves a script that may still run (`RunAdrift`). Tokens are counted in parts of
1/period, so that refilling is exact where the code uses floating point. `PolicyAssumption` is what `policies.py`
gives every rule: a capacity not above the refill of one period, a period (60 s or 3600 s) longer than any lateness
and clock error.

### 2.6 WidgetRuntime

`sdk` holds the controllers (state, handshake, readiness promise, listener), `box` the container, `frame` the mounted
iframe's application, `toHost` the messages of each iframe to the page, `toFrame` those of the page to the mounted
iframe, `command` the calls. Messages of one sender keep their order, those of two iframes interleave. A handler runs
whole; what follows an `await` is another step that precedes the page's next message or timer (`HostIdle`). A timer
runs out at any moment while its handshake state or pending command stands. The iframe of a destroyed controller is
gone at once, but what it had sent may still be delivered. `drifted` and `overlapped` are history: the visitor moved
the shell while the configuration loaded; init() was called before destroy() had emptied the slot.

### 2.7 Documents

`documents`, `versions` and `chunks` are the tables, `files` the storage root, `scope` the draft's knowledge scope,
`locked` the one row lock a request holds across work (the extraction's flush of "processing"), `handlers` the requests
with what they have read. `SaveUpload` writes the file, `CommitUpload` the rows, `ReadDraft` and `AssignDocument` the
assignment; `FlushProcessing`, `SaveText` and `CommitExtraction` or `FailExtraction` are an extraction; chunking and
embedding are a check and a commit; a transition is a read and an unconditional write. A chunk's `by` is the provider,
model and dimension it was embedded with, a value per column (`Columns`): an embedding remembers what it loaded
(`seen`) and its commit writes the columns that differ from that (`Written`), as the session's UPDATE does, whatever
another embedding has committed meanwhile. `SaveText` is one step. `SplitText` computes the windows
of words the default strategy makes; `LexicalMatches` and `DenseMatches` are what the two searches select.

### 2.8 Prompts

`versions`, `deployments` (per scope, a sequence, since nothing keeps a scope to one row) and `experiments` are the
tables, `cache` each process's resolutions with their age, `threads` the requests between two statements. `Deployable`
is checked on the status read first and the commit comes later (`FindDeployment`, `CommitDeployment`); `Written` gives
a column its value after a commit by a session that loaded an older one. A resolution reads the platform's and the
widget's deployments in two statements and stores them with the time the lookup began (`Store`). `Tick` is time;
`Restart` loses a process's cache and requests. An experiment is its status and its end: the control and candidate
versions it puts in a deployment's place (`resolution.py:112`) are not in the model, so that `OnlyReviewedIsDeployed`
speaks of deployments and caches and not of them.

### 2.9 Billing

`row` is the organisation's subscription row, `provider`, `checkouts` and `events` the payment provider, `threads` the
requests and deliveries under way. A request reads the row (or inserts a trial), calls the provider and commits only
the columns it changed. A delivery reads the row (`Receive`) and applies the snapshot its event holds (`ApplyEvent`),
whose answer may be lost so that it comes again, or fails and is answered all the same (`LoseEvent`). A subscription
has a price; the configuration maps prices to plans (`PlanOf`), and an event of a price it does not know leaves the
row's plan (`PlanAfter`, `billing/service.py:129`). `disturbed` and
`excused` say what has happened that the properties exempt: an event lost, overtaken or processed beside another; a
reason for more assistants than the plan allows.

### 2.10 Feedback

`raised` is the production data, `cands` the candidates, `scanners` and `reviewers` the processes. A scan looks a
signal up (`Look`), and either looks back for a resolved twin and inserts (`LookBack`, `Create`) or counts it on the
row its session holds (`Bump`), which it refreshes (`Refresh`). Triage reads, then commits the columns it changed; a
duplicate's link is a commit of its own. `story` records what was really committed on each candidate.

### 2.11 Evaluation

`dataset` is its version and size, `cands` the candidates, `events` the version events in the order of their commits
with the `created_at` of their transaction's beginning, `latest` the last completed run, `reported` the newest report.
Promotion, run, report and gate are the operations, each a sequence of statements of one of `threads`. The gate takes
the version, the latest run, the candidates, the latest event and the latest report, in this order; a reason against
the release ends it (`GiveUp`). `Accept` and `Withdraw` are triage, which moves a candidate from accepted to a status
that is not final and back, as often as it likes; what a gate under way requires of a candidate ends when it is
withdrawn. `slipped` are the failures a release passed with.

### 2.12 Answers, Retrieval, Evidence and Ordering

| State | In the code |
|---|---|
| `case`, `setup` | the question and the texts of the chunks; pipeline, reranker, rewriter, verifier, floor and fail-loud flags |
| `scope`, `live` | the draft's knowledge scope, the documents a search may find; administrators change both |
| `allowed`, `queries`, `found`, `context`, `reason`, `seen`, `attempt` | the request's locals, in the order they are computed |
| `usage`, `orphan` | the process's list of executions; a rewrite whose timeout passed and that still runs |
| `reply`, `citations` | the assistant's message and its citations, a commit each |
| `trace`, `buffer` | the row of `ai_traces`, and what the recorder holds back until it writes the row's end |

The actions are the stages of `RAGOrchestrator.answer` in its order. A text is a sequence of sentences, a sentence a
sequence of tokens with the way it ends, a token a word or a value of a type; what the regular expressions find is the
token's type, so that an anchor is a token and not a substring of one. Truncation cuts whole sentences. A question has
its entities, keywords and the type each verifier's patterns give it. A dense search may give any scores; the fusion's
reciprocals are compared as integers (`Scale`, a multiple of every divisor). A reranker may give any order
(`Rerankings`), among them the one it was
given, which is also what an absorbed failure leaves. `evidence_confidence` decides nothing and has no definition.
Provider health fails fast only where a policy asks for it, and no policy here does. A trace's write is a commit in
another session, and either may be lost; a request that raises in transformation, retrieval or reranking, or because
another request of the conversation took the number of its message first (`MessageNotStored`), leaves its
trace in progress, as the code does, and the chunks of the whole context are recorded, also those the third pipeline then
withholds.

### 2.13 PublicWidget

| State | In the code |
|---|---|
| `credential`, `allowed` | `public_credentials.status`, the active `allowed_origins` of each |
| `tenant` | which of the organisation's and the workspace's rows are active |
| `widget`, `revisions`, `legacy` | the widget's key, active revision and archiving; its publications; the older row of a key |
| `enabled` | the keys that the operational switches of a process let through |
| `observed` | `widget_installation_observations` |
| `cached` | what the browser of a page keeps with its entity tag |
| `request`, `window` | what a request has read; what was true at some moment of it (history) |

| Action | In the code |
|---|---|
| `Arrive`, `Screen` | a route is called; the switches |
| `ResolveCredential`, `ResolveTenant` | the key's status, then organisation and workspace |
| `ReadWidget`, `ReadRevision`, `ReadLegacy` | `get_configuration_for_credential`: the widget, the revision it points to, else the key's row |
| `CheckOrigin`, `Enforce` | `match_origin`; the outcome of `RateLimit` |
| `Respond`, `FindWidget`, `FindOrigin`, `FindObservation`, `Observe` | 304 or the configuration; the installation is looked up and inserted behind a unique constraint |
| `CreateSession` | `create_session` reads tenant and credential once more and commits |
| `Publish`, `Archive`, `Rotate`, `EditOrigins`, `Transition` | the widgets API, each request a step: the interleavings inside are those of `WidgetRevisions` and `WidgetKeys` |
| `PutConfiguration`, `PublishConfiguration` | the credentials API, on the row the look-up finds, be it a live publication |
| `Operate` | a tenant's status or a process's switches, changed by operators |

`Route` is the order of the checks on each of the four routes. A 304 records no observation, as in the code. Refusals
are told apart as the gateway raises them, before some are reported as `invalid_widget`. Which headers are
refused before any look-up (`Refused`) and which hosts a wildcard covers (`Covered`) are given sets. `MaxWork` bounds
owners' changes and requests together, and only two reads of a configuration overlap (`MayOverlap`), since no request of
another kind sees what a request leaves.

## 3. Runs and bounds

| Run | Instance | What it shows |
|---|---|---|
| `messages_safety` | 3 requests, 1 session, 3 keys, 2 bodies, 2 slots | a key is executed once, settles once and has one answer; slots are accounted; the conversation is whole; records are true; refines `MessageContract` |
| `conversation` | 2 sends, 2 sessions of 2 slots, 6 calls | what the visitor sees is true, a message is processed once within a session's life, every send ends unless a body stalls |
| `revisions_safety` | 3 requests, 2 fields, 7 revisions | there is always one newest draft, hashes belong to their content, refines `PublicationHistory`, every wait ends |
| `keys` | 3 requests, 3 origins (one with a default port), cap 2; two at once on every route, or one after the other on the widget's | overlapping: no unactivated key goes live, no explicit origin is doubled; one by one: the documented guarantees (cap, final origin, duplicates, terminal status, rotation) |
| `gateway` | limiter: 3 requests, 2 clients, a shared and a per-client rule, times 0..6; look-ups: 2 requests, 2 keys, 3 pages, 2 changes, 3 in all | the books of every bucket balance, no rule is skipped, Retry-After is exact; every answer has a reason that was true, a 304 tells the truth, served pages are known |
| `widget_runtime` | 2 controllers, 2 commands, 1 click, 1 foreign message | the two sides agree, ready means configured, destroy cleans up, calls settle |
| `prompts` | 2 processes with a thread each, 2 versions, 1 experiment, 2 ticks | only what was reviewed is deployed or cached, and served only for the cache's time; a killed experiment stays dead |
| `billing` | 2 threads, 2 plans, a price of each and one of none, 1 subscription of 3 changes, 2 assistants | the row agrees with the provider when events come in order, as far as prices are configured; every excess has a reason |
| `feedback` | 2 scanners, 2 reviewers, 2 signals of one key, 2 candidates | severity and counts have their sightings; twins have a reason |
| `evaluation` | 2 processes, 2 candidates, 2 cases, 3 ticks | the gate passes nothing unfixed of what stayed accepted; a full run holds what its version promised |
| `knowledge` | ingestion: 1 document, 3 requests, 3 words, 3 settings, 2 models of one provider; answering: 9 questions and libraries of 3 chunks, 6 setups, scores of 3 levels | chunks are one split, rows have their files, documents are found whole but after a failed or overlapping embedding; what is answered is supported, what is refused is refused for a reason that holds, ranks are fair, the reply, its citations, cost and trace agree |
| `immutable_publications` | 1 publication, 2 changes | violated: a publication is rewritten in place (section 4) |

`gateway` and `knowledge` hold two modules each. The variable `half` says which of them a behaviour is about; the other
rests in one initial state. Their states add up and do not multiply, and every behaviour of either module within its
bounds is one of the run's.

Why these bounds are enough to meet the hard cases:

- *Messages.* With three requests, one can hold the row while a second waits and a third, past its commit, executes;
  with three keys all may be different, two may share one, or all retry one. Two slots for three requests puts the last
  slot at stake. One session suffices since no statement reads another session's rows.
- *Conversation.* A send makes at most three calls (session, message, once more). Six calls are two whole sends, or one
  and its Retry; two sessions are what a lapse or an end in between needs.
- *Revisions.* Three requests give an author who loads a draft, a publication and a rollback, or two publications and
  the edit between them. A publication or rollback adds two revisions, so that 7 is never reached by three requests:
  the guard `MaxRevision` cuts nothing off. Two fields distinguish a merged edit from an overwriting one.
- *Keys.* Each rotation adds one key and each other request at most one row, so `MaxKeys = 4` and `MaxCopies = 4` cut
  nothing off with three requests on a widget whose initial state already has what it needs. The cap of 2 (20 in the
  code) is reached by initial rows and one addition.
- *Gateway's look-ups.* A page at a listed origin, one under a wildcard and one without an acceptable origin; a widget
  published or not, with its older row or without, visited or not. Two keys are one rotation, two publications one that
  is replaced. A request that two changes overtake meets any two facts that change places while it reads; two requests
  and a change are what a second first visit needs.
- *Rate limit.* The shared rule may fail open, the second may not, and the second refills faster than a request takes.
  A script runs up to one unit after its request's stamp, times run to 6, where the keys of both rules have
  expired (after 4 and 6). Clock error (`Skew`) is 0 in the run; the theorems cover any.
- *Widget.* Two controllers are needed for anything about destroy and re-initialisation, two commands for superseding,
  one click to move the iframe behind the page's back, one foreign message for a mismatch.
- *Documents.* Documents share no state but the draft's scope, where a lost assignment breaks no property checked, so
  one is enough. Three requests are an extraction, a chunking and an embedding at once, or three of one kind. Three words
  under windows of 2 and 3 give one window or two, with and without an overlap, and a last window that is full or not;
  the theorems cover longer texts. Two models of one provider make an embedding that changes one column of two.
  `Unended` (in `MCKnowledge`) explores no further from a document that failed, was archived or expired, or from a
  superseded version: nothing is added there that the document before it could not do; the theorems have no such bound.
- *Prompts.* One thread per process makes every overlap one between processes, which is the harder case for the cache;
  within a process the same statements interleave. Two rows of a scope are what two first deployments make. `Apart` (in
  `MCPrompts`) explores versions and experiments apart: they share no state but the threads, and no property speaks of
  both. Ages above `TTL` (2 ticks for 30 s) are alike.
- *Billing.* Three changes of one subscription let an event be overtaken and then followed by another. `Cuts` (in
  `MCBilling`) leaves out states the properties cannot tell from others: assistants beside a subscription (they meet in
  the plan, whose change excuses any number), what follows once `disturbed` is true (it stays so), and a checkout with
  no subscription left for it. The limit of the smaller plan is 1, of the larger none.
- *Feedback.* A candidate needs three sightings to be raised: two scans over two signals give four. Two candidates are
  what a twin needs.
- *Answers.* Three chunks of two documents under a context of two blocks give a table, a sentence and a contradiction,
  a fact over two sentences, an anchor and a value too far apart, an injected value, two values beside one shared word (which the first verifier
  finds in conflict and the second does not), and a chunk that the limit leaves
  out. Scores 0..2 lie below, at and above the floor and the off-topic threshold. `MaxQueries = 2` is one merge; the dense
  setups with several queries are asked one of the questions. `Window = 2` stands for 500; `MaxUsage = 3` lets
  two other records follow the request's own and pass it.
  Other requests record only between this request's record and its look-up, and administrators change something once,
  before the searches end: later changes and earlier records are never read.
- *Evaluation.* Two candidates promoted by two processes can take one version; three ticks order two promotions and a
  report.

Symmetry is used in runs without liveness properties, for sets whose members are interchangeable and appear in no
order. Deadlock is checked in the pipeline, the revisions, the keys, the gateway, the conversation and the widget:
where a run ends because all requests are served, or because the page waits for its visitor, `Finished` says so or a
step is still possible, and any other standstill is an error. The other modules have an administrator or a provider who
may always act until a bound is reached, and stop there (`CHECK_DEADLOCK FALSE`).

Every property of a passing run has a mutant, a plausible bug in one mapped definition under which the property fails
on the same instance.

## 4. Where the code and its documents differ

What was met while reading and modelling. The models do what the code does, and the properties are those that hold of
it; each entry names what the repository says and what the code does instead.

*Messages.*

- "Failures after processing ownership mark the idempotency record failed"
  (`docs/04_Engineering/Public_Message_Preparation_and_Idempotency.md:81`): only two kinds of errors do
  (`rag_adapter.py:73`). Any other leaves the record in processing, where every retry of the key meets it, for nothing
  cleans it up (`list_expired_for_cleanup` has no caller). `RecordsAreTrue` says which records may be stranded.
- A completed key returns its stored response (same document, `:32`): `validate_session` refuses first when the
  session's last slot is used, be it by that very request (`sessions/service.py:162`).

*Conversation client.*

- A refusal's body is `{"error": {"code"}}` (`public_widget.py:467`), the client reads `code` at the top
  (`client.ts:118`): it learns the HTTP status only, where `Widget_Composer_Citations_and_Recovery.md:66` promises
  recovery by code. An ended session is kept and used until it lapses locally.
- The visitor's Retry keeps the key but sets `metadata.source` to "retry", which the request hash covers
  (`idempotency.py:38`, `orchestrator.ts:79`): a retry of a call that was served after all is refused as a conflict.
- The timer of a call ends with the headers of its answer (`client.ts:88`): an answer whose body stalls keeps the
  client busy until the page is left. After a Retry the old failed entry and its Retry stay in the thread
  (`conversation-state.ts:55`).
- A refused session creation has no CORS headers (`public_widget.py:722`, `:733`), so that the browser withholds it.
- "Send again" is offered while the composer is disabled (`widget-app.tsx:289`).

*Widget administration.*

- "A stale value returns `409` to avoid silent overwrite"
  (`Widget_Administration_Revisioning_and_Publishing.md:31`): the version restarts at 1 with every draft, so a stale
  author may pass (`widget_admin/service.py:247`). A rollback that read the active revision before a publication
  committed replaces it unseen, and a draft found current before another publication committed is published again.
- "`revoked` and `expired` are terminal" (`Public_Credentials_and_Widget_Configuration.md:35`): an overlapping
  activation writes over the revocation (`credentials/service.py:262`). With overlapping requests the other guarantees
  of `SerialKeeps` fail too: each is a check in one statement and a write in another.
- "There is no unlimited fail-open" (`Public_Widget_Configuration_Endpoint.md:109`): the fallback limiter is built anew
  for each request (`public_widget.py:265`) and limits nobody.
- "Published revisions remain immutable." (`docs/07_Testing/Widget_Admin_Release_Readiness_Checklist.md:34`, and
  "Revision content is immutable after publication." in the architecture of the widget administration): the credentials
  API writes into whatever the look-up returns, which is the live publication of a widget that has one
  (`widget_config/service.py:165`), and sets it to draft. The live content changes without a publication, its hash is
  stale, and the widget falls back to its key's older row or to none. This is the run `immutable_publications`, of
  `PublishedRevisionsStay`. Publishing through that API then fails, as the version of a revision is a property without a
  setter (`db/models/public_access.py:193`). `WidgetRevisions` and its theorems are about the widgets API alone.
- A visit that is answered 304 is not observed (`public_widget.py:547`).
- Iframe acknowledgements are authoritative (`Widget_SDK_Lifecycle_and_Mounting.md:162`): `widget_ready`'s state is
  ignored (`controller.ts:186`), so a click during loading is lost on the runtime (`drifted`).

*Documents.*

- `archived` and `expired` are terminal in the tests (`tests/test_document_lifecycle.py:161`): two overlapping
  transitions both commit (`document_lifecycle.py:97`), and an archived document may be revived.
- Two uploads that assign to one assistant may lose one assignment: the version number compared is of a row that was
  loaded after the number.
- An embedding that fails at a later chunk commits the earlier ones with its audit event (`embeddings.py:245`).
- Two overlapping embeddings may both succeed and leave the chunks of two models: each writes only the columns that
  differ from what it loaded. `FoundWhole` exempts a document after either, until an embedding finds it unchanged.

*Prompts.*

- Two first deployments of a scope make two rows (`prompt_repository.py:442`; no unique constraint,
  `db/models/prompt.py:91`), after which every lookup raises `MultipleResultsFound`.
- Deploying the active version again makes it its own previous one; a rejection that races a deployment leaves a
  rejected version served; a start that races a kill revives an experiment with a duration
  (`experiment_assignment.py:19`); version numbers are max + 1 without a constraint.
- `invalidate_cache` reaches its own process only, contrary to its docstring. No endpoint records a gate's result.
- An experiment may name versions nobody approved: neither `create_experiment` nor `start_experiment` looks at their
  status (`prompt_repository.py:519`, `:573`), and a running one serves them (`resolution.py:112`).
- A crash between the seeded template's commit and its deployment leaves the platform's layer without a deployment.

*Billing.*

- A price the configuration does not know leaves the plan of the subscription before it (`billing/service.py:129`).
- Events are applied in the order of delivery and may leave an older state, even a canceled one; a late event of an
  ended subscription takes the row over; an event whose processing failed is never delivered again (a documented
  choice). Two checkouts make two subscriptions, trials and customers. The cancel flag may differ from the provider's.
- `duplicate_admin_widget` does not look at the limit (`widgets.py:128`), which `billing/service.py:49` promises.

*Failure candidates.*

- A window that overlaps another, or is run again, counts a message again, where the docstring speaks of recurrence;
  two open candidates of one key make every later scan of it raise; two scans at once lose a count.
- Terminal statuses are overwritten by triage that read an earlier one; a recurrence may be counted onto a candidate
  resolved in between; duplicates may form cycles, name themselves, or lose their link to a crash.

*Evaluation.*

- The gate takes the latest completed run, even one of a subset (`production_gate.py:34`, against
  `Regression_Release_Policy.md` points 2 and 4).
- "On Postgres this is reliable", of the order of `created_at`, is not: it is the time a transaction began.
- Cases written or edited by hand do not change the version; promoting a candidate twice orphans its first case;
  overlapping promotions take one version twice; a timed-out case keeps the run's only worker.

*Answering.*

- Public answers are drawn from the draft's knowledge scope, published or not (`_knowledge_scope_for_request` in
  `rag_orchestrator.py`).
- The reranker's timeout waits for the call it has given up (`with ThreadPoolExecutor` in `reranking.py`), which
  `query_transformation.py:312` describes as the bug to avoid.
- A message's cost is looked up among the last 500 executions; pushed out, it is recorded as 0. Failed attempts' tokens
  are not accounted.
- A request that raises before it has stored a reply leaves its trace in progress, but for an unknown workspace,
  assistant or conversation. One whose reply finds its number taken has asked the model and leaves no reply.
- The second verifier drops the values of weak matches of a question without entities
  (`evidence_sufficiency.py:722`) and may answer over two values stated outright; currencies, percentages, dates and
  durations are compared, the other types never. `DecisionIsRight` rules a contradiction out where every value is
  compared (`AllCompared`).
- The scope a caller passes (`rag_adapter.py:66`) is ignored whenever an assistant is named, which is always.

## 5. Fairness and waiting

`WidgetRevisions` states fairness (`FairSpec`): each request whose transaction has started goes on, because a
replica that is alive executes the next statement of its handler and PostgreSQL ends deadlocks. Nothing is assumed of
clients (`Load`, the start of a request), of archiving or of crashes. Under it `Responds` holds: who waits for a
revision number or for a draft's row is answered in the end, which is false if deadlocks go unnoticed (its mutant).

`WidgetConversation` states weak fairness of the client's own steps (`ClientStep`): a call whose headers have not come
is answered or its timer runs out, a reply that is there is read, and a pause ends, as long as the page is open, because
browsers run timers. Nothing is assumed of the API, the visitor or the arrival of headers. Once the headers are there no
timer runs, so `SendsEnd` carries the one assumption on the network that the code needs, that no body stalls for ever
(`Reading`): then every send the visitor starts ends.

The other modules need no temporal property for this: a request takes boundedly many steps, so the only way to wait
for ever is a standstill, and TLC's deadlock check excludes that in `messages_safety` and `keys`. In
`WidgetRuntime` every step of the page's loop uses up a message, a timer or a continuation, and `CallsSettle` says that
a loop with nothing left to do leaves no caller waiting.

## 6. What is proved

TLC checks small instances; the theorems below hold for any number of requests, sessions, keys, bodies, fields,
rules, clients, controllers, commands, sends, versions, widgets, threads, subscriptions, pages, documents, handlers,
signals, candidates, cases, libraries and questions, and any bounds, under the named assumptions of the modules only. For each component a
theorem says that its inductive invariant always holds (`Invariance`, `ConversationInvariance`, `VisitsInvariance`,
`PromptsInvariance`, `LibraryInvariance`, `AInvariance`, `BillingInvariance`, `EvaluationInvariance`,
`FeedbackInvariance`), with one lemma or step per action, from which the others follow. Each invariant was checked with TLC on an instance before it was
proved.

| Module | Assumption | Theorems |
|---|---|---|
| `PublicMessagesProofs` | `MessagesAssumption` | `TypeCorrect`, `AtMostOnce`, `Agreement`, `Contiguity`, `Lifecycle`, `ChargesOnlyActive`, `Conversation`, `Wholeness`, `Advance`, `Accounting`, `Truth`, `Refinement`: the pipeline implements `MessageContract` |
| `WidgetConversationProofs` | `ConversationAssumption` | `ConversationInvariance`, `TrueThread`, `OncePerLife` |
| `WidgetRevisionsProofs` | `InitialAssumption`, `MaxRevisionAssumption` | `TypeCorrect`, `AlwaysADraft`, `Contiguity`, `DraftsInOrder`, `HashesMatch`, `Refinement`: publishing implements `PublicationHistory` |
| `WidgetKeysProofs` | `RegimesAssumption`, `DefaultPortAssumption`, `BoundsAssumption`, `OriginsAssumption`, `FiniteAssumption` | `TypeCorrect`, `Activation`, `ExplicitOrigins`, `Overlap`; with one request at a time `SerialInvariance`, `SerialPromises`, `FaithfulRotation` |
| `GatewayProofs` | `RulesAssumption`, `ClientsAssumption`, `PolicyAssumption` | of the limiter: `TypeCorrect`, `Conservation`, `Expiry`, `Balance`, `Admission`, `Retry` |
| | `GatewayAssumption` | of the look-ups: `VisitsInvariance`, `AnswersJust`, `NotModifiedTrue`, `VisitsObserved` |
| `WidgetRuntimeProofs` | `BoundsAssumption` | `TypeCorrect`, `ReadyAfterConfiguration`, `Cleanup`, `Settlement`, `Agreement` |
| `ContentProofs` | `PromptsAssumption`, `NoneAssumption` | of prompts: `PromptsInvariance`, `PromptsTypes`, `Reviews`, `Freshness`, `Death` |
| | `LibraryAssumption` | of documents: `LibraryInvariance`, `FilesStay`, `TextChunked`, `WholeFound` |
| | `AnsweringAssumption` | of answers: `AInvariance`, `ReplyTrue`, `FairRanking`, `RightDecision` |
| `BackOfficeProofs` | `BillingAssumption`, `NoneAssumption` | of billing: `BillingInvariance`, `BillingTypes`, `InOrder`, `Excess` |
| | `ReleaseGateAssumption` | of the gate: `EvaluationInvariance`, `GateIsRight`, `Coverage` |
| | `TriageAssumption` | of triage: `FeedbackInvariance`, `CountsAreTrue`, `TwinsHaveACause` |

The arguments:

- **PublicMessages.** No safety property is inductive by itself. The strengthening says who holds each row lock
  (`LockHeld`), that what an open transaction carries agrees with the locked row (`TxAgrees`), that a key belongs to
  one request and to nobody while a request with it is in its preparation (`KeyOwned`, `OwnsRecord`), that messages
  are written by owners (`MessagesOwned`), and that a number read for a message can only have been taken since
  (`NumberRead`). The lock carries the first transaction, ownership of the key the second, which has no lock.
  `Accounting`, that the counter is the number of charged keys, is an induction of its own over the finite set of those
  keys. `Truth`, that a record says what became of its message, has a second invariant (`TruthInv`): how far a request
  has got says what it has stored (`Stores`), and a record left in processing was left by a request that is still at
  work, was cut off, or met an error that skips `mark_failed`.
- **WidgetConversation.** At most one call is awaited, and it is made for the send under way (`Awaited`); what it is told
  is what the API's record says (`Told`), so the thread the visitor sees is true: no entry keeps spinning, and no Retry is
left that neither may be sent again nor is being sent. A message is processed once because a
  send that may be sent again has reached no session that could still be used but the client's own (`Confined`), and
  because no key is ever replaced (`Kept`): the client knows a refusal by its HTTP status only, and none of the codes it
  makes of one asks for a fresh key (`CodesHeard`).
- **WidgetRevisions.** The unique number makes publications exclude each other (`OneInserter`), so a number read
  before is still the next one when it is inserted (`HoldsNext`), and a request changes unpublished rows only
  (`WorksOnDrafts`). From that the history is append-only and the refinement's step follows.
- **WidgetKeys.** Requests and the widget name keys that exist, whoever may disable a key found it active, and what a
  rotation copies has no duplicate: that much survives overlap (`OverlapKeeps`). As long as requests are served one
  after the other a second invariant holds (`SerialInv`): what the one request under way has checked is still so when
  it writes (`SerialHolds`). From it follow that no origin is active twice and that the cap on
  origins is kept, which takes that there are finitely many (`FiniteAssumption`), that a published widget is servable, and that a rotation copies exactly the active rows.
- **RateLimit.** Each bucket's grants and tokens together are at most its capacity plus the refill of the time since
  its first use, plus the time it was wound back (`BucketHolds`); stamps in flight are recent (`RequestHolds`), so
  expired keys would have been full for any of them. `Retry` is the arithmetic of the rounded quotient
  (`CeilingIsLeast`) on top of that.
- **WidgetRuntime.** An iframe without its configuration has no `widget_ready` under way and its runtime is not ready
  (`Waits`); a controller that has not mounted has no messages (`Fresh`); controllers are numbered in order of their
  creation (`Numbered`), which keeps a new iframe's messages apart from an old one's. `Cleanup` and `Settlement` follow
  from what `destroy()` leaves of every controller that is out of the slot and from what a caller who waits waits for
  (`LInv`). `Agreement` takes a link between both ends of the channel (`Linked`): the changes still to be read lead from
  the state the runtime has, or will have after the one `widget_ready` under way, to the iframe's.
- **Prompts.** A request works on what it has read, so the invariant (`PInv`) says what of it is still true when it
  commits (`ThreadHolds`): a version that is deployed or rolled back to was approved, and rows are only added. What a
  look-up has found, and what a process keeps of it, stopped being deployed no longer ago than the look-up began
  (`LookupHolds`, `EntryHolds`); the end that a kill
  has set is taken back from no experiment without a duration (`ExperimentHolds`).
- **Billing.** Two requests of one row meet in the columns each of them writes. Between a delivery's read and its commit
  the plan and the status it read are still there unless another delivery was applied meanwhile (`WebhookHolds`), and an
  event tells of nothing newer than what the provider has (`Faithful`). Where the provider's price is configured the
row's plan is that price's. For the limit of assistants: what a creation
  counted was within the plan it read (`AssistantHolds`, `LimitHolds`).
- **PublicWidget.** A request looks its facts up one after the other while owners change them, so the invariant (`PInv`)
  says, by the route and the phase, which facts held at some moment since it began (`PassedHolds`), that the
  configuration it carries was shown meanwhile, and what the pointer it follows or the row it falls back on can be by
  the time it is read (`ReadingHolds`, `FellBack`). An answer is just because a fact once held or lapsed in a request's
  window stays recorded, whatever owners do (`Evolves`). For `VisitsObserved`: an observation that another request
  inserted first was inserted by one that served the same page (`ObservingHolds`).
- **Documents.** A handler checks a status once and writes over it later, so `DInv` keeps what no handler takes back:
  rows and files of an accepted upload stay, an upload that has not committed has its file to itself (`Saving`), and an
  extraction about to commit has saved its text (`HandlerHolds`). The chunks of a document
  that is not exempt agree on their embedder, and an embedding under way has loaded as many as there are, which decides
  what its commit writes. Chunks are all of one split of the text (`IsSplit`, `RowHolds`), whatever has embedded them
  since; that a split covers the text with windows of the right size and overlap is arithmetic about the number of
  windows (`SplitCovers`).
- **Answers.** The invariant (`AInv`) follows one request through its stages: what the searches have returned are rankings,
  one for each search made (`Searched`); the context numbers its blocks from one, and the model is shown blocks of it
  under those numbers (`Blocks`); which reason, reply and citations a stage may have (`Decided`); that the execution is
  recorded once, and where, also when the reply's number was taken (`Recorded`); what the recorder has buffered and
  written (`Traced`). `ReplyTrue` reads it off.
  `FairRanking` rests on the operators: sorting a finite set by a strict total order puts each element behind all that
  precede it (`Sorting`, from the injection of an element to the number of those before it); a better rank has the
  greater reciprocal because `Scale` is a multiple of both (`Quotients`); and the key of the merge favours a chunk that
  all searches of another rank above it, in score, in the number of searches and in its best rank (`MergedFairly`).
  For `RightDecision` two parts are added to the invariant: everything found is in the scope the request read and, in the
  dense pipeline, not below the floor (`Sourced`; a scope is read before anything is found, and candidates, fused, merged
  or reranked, come from what was found), and the decision is right for the blocks it was made of (`Right`, which no
  later step disturbs). What the verifiers find is said without folds. The units of a text are the passages from one
  closing sentence to the next (`UnitsInOrder`), neighbouring units hold what one passage with no stop but theirs holds
  (`UnitsTogether`), and a window of three units holds a passage with at most two stops inside (`WindowsOfText`). So a
  chunk supports a fact directly only if such a passage, with the title where it counts, states it, and it does if a
  single sentence states it (`SupportIsTrue`). From there it is case analysis: which blocks support the fact, which values
  compete, the verdict, what the constraints let the model see. Values that disagree are both among those that compete
if every value is compared (`AllCompared`), and only then.
- **Evaluation.** Versions are read before cases, and a promotion commits its case with the bump, so a run labelled with
  a version covers it, and the bumps still to come do not change what it covers (`Covers`, `WorkHolds`). By the time the
  gate reads events and report, all that it requires has passed in the run it took (`Required`); what it requires is owed to
candidates that have stayed accepted since it read them (`Owed`, each case being one candidate's). This gives
  `PassMeansFixed`, a property of the history alone.
- **Feedback.** A session writes back what it has read, so what a scan knows of a row is its past: it counts no more
  than was sighted (`RowHolds`, `CandidateHolds`). While no two scans have overlapped, a key has one open candidate at
  most, none while a scan is about to file one, and its count is exact (`Alone`, `Orderly`, `KeyHolds`).

The assumptions say what the code has or enforces: chunk settings are those `split_text_into_chunks` accepts
(`services/chunking.py:231-236`), the default key and the pages exist, a severe signal is one of the signals. Of
bounds (`MaxWords`, `MaxTicks` and the like) no more is assumed than that they are numbers. `NoneAssumption` (as the
last clause of `ConversationAssumption` and clauses of the `Admissible` operators) says that the null value is none of
the rows it is compared with, which is how the code's `None` and `null` behave. Of a question and its library
`AnsweringAssumption` says that the question has finitely many terms and keywords, that texts are sequences of
sentences, and that two values of no type do not contradict each other, as no pattern extracts them.

`ReadyMeansConfigured` of the widget and `ChargesAndRecordsAdvance` of the pipeline are proved and no longer part of a
run.

Only model-checked:

- `Responds` and `SendsEnd`, and any liveness: the prover reasons about neither fairness nor ENABLED. What a recursive
  definition computes for every input is out of reach as well, since it takes induction over data, and modules with
  RECURSIVE operators have no theorems; the modules here have no recursion.

## 7. What is not modelled

Of the modelled parts: expiry times of sessions; the texts that screening refuses; usage counters; preview, audit rows
and embed snippets of the widget administration; validation of a configuration and of an origin; names, capabilities
and expiry dates of keys; last-used stamps; the orphan credential of a widget whose creation failed; the rate limiter's
emergency controls, which the API never sets; the in-memory token bucket, used by tests and by the fallback; the
widget's focus, visibility, envelope and replay checks, size on a viewport resize, reload of the iframe and its
`degraded` state, which is never entered; chunking strategies other than the default; parsers; the rendering of prompts,
workspace templates and arm assignment; invoices and periods; the detection of failure signals; how a case is scored;
the patterns that recognise an entity, a keyword or a value in a question or a text; the amounts of costs; the trimming
of the visitor's thread to 100 entries and 60000 characters (`conversation-state.ts`); the controller that the SDK's
`on()` makes before `init()` (`public-api.ts:87`), which is not initialised and on which `open()` waits; the text of the
sanitiser's marker, which is taken as holding no word of a question; the ranking of the PostgreSQL full-text search, for
which `LexicalSearch` has that of the SQLite branch.

Cost control and abuse counters of the message gateway are outcomes of `Secure`. Memberships, authentication, origin
normalisation, graders, metrics, the review queue and alert dispatch are not modelled yet.

The status of a conversation does not change in the model, as `update_conversation_status`
(`repositories/conversation_repository.py:225`) has no caller in the API. The retrieval cache
(`services/retrieval_cache.py`) is used by a benchmark only.

Not modelled and not planned, for lack of state other parts act on: e-mail delivery (one call, no retry), metrics
(write-only), operational scripts (run by hand, one at a time), the dashboard (pages over the API), and
infrastructure (declarative; the number of replicas is taken from it).

## 8. Plan

The core came first: the path of a visitor's message and what an administrator changes under it; then the parts that
feed an answer (documents, prompts), that pay for it (billing) and that learn from it (feedback, evaluation). What is
left, in the order of what it adds:

1. Memberships and authentication: invitations, roles and the last owner; cost control and abuse counters.
2. `AlertDispatch`: delivery, cooldown file, overlapping runs and crashes.

Of the proofs nothing is left that the prover can reach: every safety property of a passing run is the subject of a
theorem, and liveness stays with TLC.
