# Verification of the personal assistant

TLA+ specifications of the reminder service in `src/src/personal_assistant`,
checked with TLC on small instances and, for the safety properties of its
core, proved with TLAPS for every value of the constants.

The service turns chat messages into reminders. A message is registered under
an idempotency identity, read by a parser or an LLM, shown to the user for
approval, and on approval turned into a calendar event, a scheduled reminder
and a row of a transactional outbox. Worker processes claim due outbox rows
and deliver them through Telegram or WhatsApp. PostgreSQL holds all of it; the
schema is installed by a migration runner that deployments execute.

## 1. Inventory

| Component (code) | State | Operations | Talks to |
|---|---|---|---|
| Delivery worker (`application/use_cases/reminder_notifications_*.py`, `infrastructure/worker_runtime.py`, `worker.py`) | nothing durable; between two transactions: the claimed message, its token, the attempt key, the provider's result | sweep, claim, authorize, release, malformed, confirm sending, send, record; operator: resolve uncertain | outbox and scheduler in one transaction, provider outside |
| Outbox (`adapters/persistence/postgres.py`, `in_memory.py`) | per message: status, claim token and lease, attempts, next attempt, sending and published time, last error | `add`, `claim_due`, `sweep_expired_sending`, `mark_*`, `release`, `reschedule`, `resolve_uncertain_*` | workflow (insert), worker, operator |
| Scheduler mirror (same files) | copy of the delivery columns and a legacy `sent` flag per reminder | `schedule_before_event`, `mirror_delivery` | written in the outbox's transactions |
| Reminder workflow (`application/use_cases/reminders.py`) | nothing durable; between transactions: the request and what was read | `run` without and with an approval | state store, unit of work, parser, LLM |
| Workflow state store | per identity: status, step, payload fingerprint, draft | `register_or_replay`, `upsert`, `get_by_idempotency_key` | workflow |
| Approvals (`PostgresApprovalStore`, `application/use_cases/commands.py`, `infrastructure/http_routes_runtime.py`) | per identity: status, stored request | `create`, `approve`, `mark_approved`, `cancel`/`reject` | chat commands, HTTP routes, workflow |
| Migrations (`infrastructure/migrations/runner.py`) and readiness (`infrastructure/http_worker.py`) | advisory lock, history table, the schema | `apply_migrations`, `migration_status` | deployments, readiness probe |
| In-memory stores and unit of work (`in_memory.py`, `in_memory_uow.py`) | dictionaries, one lock per store, snapshots | begin, commit, rollback | tests and local mode |
| Channel tools (`adapters/outbound/notifications/`) | results and fingerprints by key, per process | `send`, classification of HTTP answers | provider, worker, webhooks |
| Webhooks (`infrastructure/http_routes_telegram.py`, `http_routes_whatsapp.py`, `adapters/inbound/channels/`) | nothing durable; a request in progress | check, normalise, transcribe, command, reply, answer | platform, command router, channel tool |
| Command router (`application/use_cases/commands.py`) | nothing durable | `handle`: commands, inferred intent, phrases | LLM, approvals, workflow |
| Parser and temporal rules (`domain/reminders/`) | none | `extract_reminder`, the fallback to the model, the notice | workflow |
| Guardrails (`domain/common/guardrails.py`, `application/use_cases/runtime.py`) | none | scan of texts, titles, bodies and replies, one trace event each | workflow, documents, runtime |
| Traces (`domain/common/privacy.py`, `application/dto/tracing.py`, `infrastructure/trace_sanitizer.py`, `trace_retention.py`) | trace rows | redact, write, list, sanitize, prune | everything that emits an event |
| Permissions (`domain/common/permissions.py`) | none; grants are kept by their holders | tier checks, grant matching, expiry | everything |
| Local authentication and admin sessions (`adapters/inbound/auth_local.py`, `infrastructure/http_routes_admin_auth.py`) | one token; cookies in browsers | authenticate, login, logout | HTTP routes |
| Egress (`infrastructure/config_validation.py`, `bootstrap.py`, the clients) | the allowlist, fixed at start-up | validate, build adapters, open, follow redirects | every client |
| Worker loop and heartbeat (`infrastructure/http_worker.py`, `operational.py`) | one heartbeat row | tick, record, assess | readiness probe |
| Memory store, admin dashboard, evaluations and governance tooling | see `PROJECT.json` | | |

### What is hard here

* **Delivery.** Provider I/O cannot be part of a transaction. A worker may
  stall, crash or outlive its lease between any two transactions, an answer
  may be lost, an operator may decide about a row while the worker that sent
  it still waits. Correct means: no key is used twice, no automatic second
  send after a possible delivery, a final status is true, nothing stays in
  flight for ever, and a row never becomes unreadable.
* **Workflow.** Messages are redelivered and edited, approvals are repeated
  and race with cancellations, the LLM does not read the same text twice in
  the same way, and a request may die between its transactions. Correct means:
  the reminder is the draft the user saw, built at most once, never before the
  decision and never after a reported cancellation.
* **In-memory transactions.** Five locks are taken one after the other and
  stores are written in place. Correct means: threads cannot block each other
  for good, and nobody sees or keeps part of a transaction.
* **Migrations.** Deployments of different releases overlap, SQL fails half
  way, and the probe reads while a deployment writes. Correct means: history
  and schema agree, releases do not mix, "ready" is true.
* **Webhooks.** A platform repeats what it sees no 2xx for, overlaps requests,
  and a restart forgets what was sent. A voice note may be transcribed
  differently each time. Correct means: a reply tells the truth about the
  stored request, copies are only those the code cannot avoid, nothing is
  acknowledged in silence, and a question that was asked can be answered.
* **Two implementations of one thing.** The provider rules exist per channel,
  the outbox and the stores per backend, the allowlist checks per stage.
  Correct means: they agree.
* **Boundaries in time.** Cookies, grants and allowlists are checked against
  what is configured now, not when they were made; traces are rewritten and
  deleted while they are written. Correct means: an old right opens nothing
  and an operator's command does what it reports.
* **Calendars.** Hours that do not exist or exist twice, "today" at the edge
  of a day, twelve o'clock. Correct means: a text has one reading or a
  question.

`PROJECT.json` lists the hazards one by one at the line where they bite,
with the properties that would catch them.

## 2. Modules

| Module | Models | Size of the idea |
|---|---|---|
| `OutboxRow` | one outbox row, the transitions of `PostgresOutbox` as functions on it, its validator, the mirror | pure operators |
| `DispatchDueReminders` (extends `OutboxRow`) | workers, operator, provider and clock over the outbox | one action per transaction or provider call |
| `DeliveryLifecycle` | what a delivery promises: abstract status and attempts only | abstract specification |
| `DispatchProofs` | theorems about `DispatchDueReminders` | |
| `ReminderWorkflow` | create, approve and cancel requests over state and approval rows | one action per transaction |
| `WorkflowProofs` | theorems about `ReminderWorkflow` | |
| `ReminderDelivery` | `ReminderWorkflow` and `DispatchDueReminders` over one database | composition: the workflow's execution is the queue's insertion |
| `Migrations` | deployments and probes over lock, history and schema | one action per statement or transaction |
| `MigrationsProofs` | theorems about `Migrations` | |
| `InMemoryUnitOfWork` | threads, locks, snapshots and rollback over the in-memory stores | one action per lock, per store operation and per exit |
| `AtomicStores` | what the transaction's docstring promises: reads before or after, commit at once or nothing | abstract specification |
| `UnitOfWorkProofs` | theorems about `InMemoryUnitOfWork` | |
| `ProviderAnswers` | an HTTP answer and its classification by the two clients | pure operators |
| `AnswerClassification` (extends `ProviderAnswers`) | one answer read by both clients | one action per client |
| `ChatWebhook` (extends `ProviderAnswers`) | events, request threads, the channel tool, the stores behind the router | one action per step between which another request may run |
| `WorkerHealth` | worker loops, heartbeat row, probe, clocks and outages | one action per step of the loop |
| `CommandRouter` | what a message makes the assistant do | one action per branch of `handle` |
| `ReminderParser` | from a text and a zone to an instant, compared with a calendar | pure operators, four steps |
| `GuardedReplies` | scans, trace events and what is stored around them | one action per stage of a request |
| `LocalAuth` | token, cookies, browsers, restarts | one action per request |
| `Permissions`, `Authorization` | tiers and grants; their use over time | pure operators; one action per use |
| `RuntimeEgress` | settings, allowlist, adapters, media downloads | one action per stage and per hop |
| `TracePrivacy` | redaction of metadata, the life of one event | one action per turn of a redaction's loops, per nested call and return, and per use of the event |
| `TraceStore` | recorder, pruning and sanitizing commands over the rows | one action per statement |
| `OutboxParity` (extends `OutboxRow`) | the in-memory outbox beside the PostgreSQL one | one action per call, made on both |
| `StoreParity` | the idempotent inserts, statement by statement, beside the dictionaries | one action per statement |
| `DeliveryService` (extends `ReminderDelivery`) | the composition, or a longer queue without the workflow | side by side, see below |
| `MessageFlow` | `CommandRouter`, `ReminderParser`, `GuardedReplies` | side by side |
| `Channels` | `AnswerClassification`, `ChatWebhook` | side by side |
| `Boundaries` | `LocalAuth`, `Authorization`, `RuntimeEgress`, `TracePrivacy`, `TraceStore` | side by side |
| `Stores` | `OutboxParity`, `StoreParity` | side by side |
| `DeliveryProofs` (extends `DeliveryService`, `WorkerHealth`) | theorems about `ReminderDelivery`, from those of its parts, and about `WorkerHealth` | |
| `MessageProofs` (extends `MessageFlow`, `Channels`) | theorems about their five components | |
| `BoundaryProofs` (extends `Boundaries`) | theorems about its five components | |
| `StoreProofs` (extends `Stores`) | theorems about its two components | |
| `MCDispatch`, `MCDelivery`, `MCWorkflow`, `MCMigrations`, `MCUnitOfWork`, `MCMessages`, `MCStores`, `MCBoundaries`, `MCWorkerHealth`, `MCChat` | values for TLC | |

`DeliveryService`, `MessageFlow`, `Channels`, `Boundaries` and `Stores` hold
components that are checked together because they answer one question, and
that share no state: a variable (`part`, in `Channels` `side`) is chosen
initially, a behaviour takes the steps of that part only, and the variables of
the others keep a value that says so (`Off`, `Unused`). Each component is an
`INSTANCE`; a property of the module says of its part what the component's
property of the same name says. Those properties are conjunctions of named
parts (`RepliesAreTrue` is `RepliesMatchRegistered`, `OneTextPerKey` and
`SentIsHonest`, and so on), each with its own statement in the component's
module. The MC module extends the composition and gives it values, the proof
module extends it and proves its properties, so both speak of one
specification. In `DeliveryService`, `DeliversAsApproved` is
`ReminderDelivery.DeliveredAsApproved`, and `DeliveriesSettle` is
`ReminderDelivery.ApprovedIsSettled` for the composition and
`DispatchDueReminders.EventuallySettled` for the queue of three rows.

Definitions keep the code's names where TLA+ allows it. Definitions introduced
as "Mutant of X", or "Fault: ...", are deliberately wrong variants of X; no specification uses
them. They are the defects that the properties are tested against: with X
replaced by its mutant TLC must find the property violated.

### DispatchDueReminders

`dispatch` is a sequence of transactions with one provider call between them;
`worker[w].pc` says which comes next, and the other fields of `worker[w]` are
the Python locals that survive from one to the next (`ran_at`, the message,
its token and attempts, the dispatch key, the result).

| Action | Code |
|---|---|
| `Enqueue` | the workflow's transaction: `schedule_before_event` and `outbox.add` |
| `StartTick` | `ReminderWorker.run_once` reads the clock once |
| `SweepExpiredSending`, `Claim` | `_sweep_expired_sending`, `_claim`; `FOR UPDATE SKIP LOCKED` may pass over rows another worker is writing; an orphan is failed inside the claim's transaction |
| `Authorize` | `require_approval`, then `_notification_request` |
| `ReleaseBeforeIO`, `RecordMalformed`, `ConfirmSending` | the methods of those names |
| `Send` | `notifications.send`: the tool checks the approval again, then the provider answers |
| `RecordResult` | `_record_result`, `_record_unknown` |
| `Fenced` | the transition's `UPDATE ... WHERE status AND claim_token` finds no row and raises |
| `Abort` | crash, serialization failure, lost connection, ambiguous commit |
| `ResolveDelivered`, `ResolveRetry` | `resolve_uncertain` |

Assumptions and abstractions:

* A transaction is atomic: the unit of work runs at SERIALIZABLE and contains
  the mirror's update. An ambiguous commit is the committed step followed by
  `Abort`.
* `ProviderAnswer` (external): a success answer is never false, and a
  rejection (4xx, 429, 5xx) means not delivered; a lost, garbled or mismatched
  answer can mean either. The code makes the same assumption when it retries a
  5xx automatically.
* Claim tokens are compared for equality only, so a token that neither the row
  nor a worker holds stands for a fresh UUID. `claim_limit` is 1, its default.
* Time is `0..MaxTime` and deadlines saturate, as `_retry_at` saturates at
  `datetime.max`.
* `called`, `accepted`, `reopened` and `attested` are histories: no action's
  guard reads them.

### ReminderWorkflow

The module follows one idempotency identity: every table is keyed by it, so
identities share no rows. A payload stands for text, recipient and timezone, a
reading for what the parser or the LLM makes of it. `handler[h]` is a request
thread between two transactions.

| Action | Code |
|---|---|
| `Register` | `run` without approval up to `register_or_replay`; a conflict or a replay is answered |
| `Extract` | `_resolve_extraction` and the `upsert` of what is waited for |
| `AskApproval` | `approvals.create` |
| `FindApproval` | `approvals.get` in `_approve` and the approve route |
| `CheckApproval`, `RecheckApproval`, `MarkApproved` | `approve`, the second read of `mark_approved`, the blind `_update_status`: three statements, each its own transaction |
| `ReadState` | `existing_before_transaction` and the draft taken from it |
| `Execute` | the unit of work: register or resume, all inserts, completed state |
| `FindForCancel`, `Cancel` | `cancel`/`reject`: a read, then the blind update |
| `Abort` | crash, rollback, or an exception of a guardrail, a trace writer or a reply |

The grant that `approve` issues has no expiry and is for the request it was
made from, so `require_approval` always accepts it. `crashed` and
`cancel_told` are histories.

### ReminderDelivery

The two modules above share the database: `Commits` is `Execute` of the
workflow and, when it creates the reminder, `Enqueue` of the queue with the due
time of the approved draft (`_notice_minutes_before`, abstracted to one instant
per reading). All other steps belong to one side and leave the other alone. The
time at which the approval comes is not tied to the due time, so a reminder can
be approved before or after it is due.

### Migrations

A migration is a model value for a name and a checksum; `Files[p][v]` is what
the release of process `p` ships as version `v`. `schema` is the history of
SQL that took effect, which the code does not store. `Crash` ends the session,
and PostgreSQL then releases the advisory lock (external). The probe's two
statements are two actions without the lock.

### InMemoryUnitOfWork

| Action | Code |
|---|---|
| `Get`, `Put` | one operation of one store outside a transaction, under the store's lock |
| `Begin`, `Acquire`, `Snapshot` | `__enter__`: locks one by one in the order of the participant tuple, then all snapshots |
| `EnterFails` | an exception inside `__enter__`: the locks taken so far are given back |
| `Write`, `Commit` | the body: writes in place, `commit` sets a flag |
| `ExitCommitted`, `ExitRollback` | `__exit__`; an exception rolls back also after `commit` |
| `Release`, `Leave` | `_release_locks` in reverse order, one lock per step |

A store's contents are one value, and its lock's re-entrant acquisitions by the
owner are not steps. The snapshots are taken and restored in one step each:
all locks are held there. A transaction object is entered once and nobody but
`__exit__` calls `rollback`, so the guards against misuse are left out.
`Visible`, the refinement mapping, is the snapshot while a transaction is in
its body and the stores themselves otherwise; `outcome` and `seen` record what
callers learn.

### ProviderAnswers, AnswerClassification and ChatWebhook

An answer is its HTTP status (or that the connection was lost), whether the
body is JSON, its `ok` flag, message id, error code and the two places a wait
may come from. Statuses are at most 599 and waits are whole seconds.

`ChatWebhook` has both channels; each event comes from one of them. A request
thread goes through `Deliver` (the platform calls), the checks of the route,
transcription, the router, the lookup in the tool's dictionaries, the provider
call and the answer. `Workers` are the threads of the pool in which Telegram's
plain `def` runs; WhatsApp's route is an `async def` that blocks its event loop,
so its requests run one after the other on `EventLoop` (`Pool`).

| Action | Code |
|---|---|
| `Admit`, `Transcribe`, `TranscriptionFails` | the routes up to the router |
| `Understand`, `HandleQuery` | `handle`: a command is parsed, other texts are inferred, and voice notes transcribed, anew at every delivery |
| `RegisterFirst`, `RegisterReplays`, `RegisterConflicts` | `register_or_replay` (`reminders.py:556`), which commits `running`; `_registration_result` |
| `Extract` | `_resolve_extraction` and the `upsert` of `waiting_approval` or of a clarification (`reminders.py:571-650`) |
| `CreateApproval` | `approvals.create` (`commands.py:270`) |
| `HandleRaises` | an exception at any of these places |
| `SendConflict`, `SendReused`, `SendFresh`, `Call`, `Record` | `send` of the channel's tool, between two of its accesses to the dictionaries |
| `Speak` | the audio reply under its own key |
| `Answer200`, `AnswerLostOrRefused` | the response |
| `Approved`, `WorldChanges`, `Restart` | other requests; the process |

`registered`, `phase` and `approvalRow` are what the stores know of the event's
request (their transactions, one by one, are `ReminderWorkflow`); `calls` records
what the provider was given, per key and run of the process. `Restart` drops
threads and dictionaries between any two commits. Payload decoding is reduced to
the kind of event (command, text, voice, query, unsupported media, a stranger's,
unsigned, a status).

Two behaviours of the code are in the model and limit what can be promised. A
request that stops between `reminders.py:556` and `:631`, at a restart or an
exception, leaves the workflow `running`: every redelivery is then answered as a
duplicate and acknowledged, and the question is never asked. And of two
overlapping Telegram deliveries the second may meet `running`, send "duplicate"
and store its fingerprint under the reply's key, so that the first one's question
is refused there as a conflict (`telegram.py:361`). `SettledOnceAcked` therefore
promises a question on WhatsApp only, and only where the workflow was not left
running.

### WorkerHealth

Time is kept as ages, so it needs no end: how old the heartbeat is, how long a
worker has waited or worked. `Skews` are the clocks of workers and probe. A
tick lasts at most `TickMax`, because every client has a timeout. `trouble`
and `since` are histories.

### CommandRouter, ReminderParser and GuardedReplies

`CommandRouter` takes one message after the other through `handle`; what the
matching finds in the text (a command word with or without an argument, a
phrase) is chosen when the message arrives, and the model's answer is any
intent with any confidence, or a failure. A decision goes on after that in
`deciding`: `Decide` has read and checked the approval, `mark_approved` reads it
again, `_update_status` writes it blindly, each a transaction of its own, and
the requests of any number of messages interleave there. So a decided approval
may be overturned, as the run `workflow_race` shows at work; `DecisionsKept` says
by whom: by a request that had found it pending before it was decided.

`ReminderParser` counts hours. A zone changes its offset once, so that every
gap and repetition occurs; a text is the set of expressions that the parser's
patterns find. The properties compare the result with `Meanings` and a search
through every instant of the calendar, which the code does not do. Minutes are
not seen, and a start that the model names may lie in the past, as in the code.

`GuardedReplies` follows one reminder, with the replay that meets `running` and
the question that asks for clarification. Which findings the prompt rules have in
the text is chosen at the start, and whether an output rule matches the title
depends on the template around it. What was extracted is saved
(`reminders.py:631`) before the reply is scanned (`:635`), so a question that is
blocked leaves a workflow that waits for an answer nobody was asked for, though
no reminder; and a title may pass inside the question and be blocked inside the
notification's body, so that a reminder is approved and never created.
`BlockedLeavesNothing` is about what exists and allows both.

### LocalAuth, Permissions, Authorization and RuntimeEgress

In `LocalAuth` a browser knows the tokens it was told, holds one cookie and
is a loopback peer or not; a restart changes token and remote access.
`Permissions` has `evaluate_permission`, `issue` and `require_approval` as
operators; `Authorization` has every place of the code that issues a grant. The
approval store issues one for the calendar after a user's decision, which it reads
and writes in separate steps (`reads`, `requests`). The worker's policy issues one
for an attempt, if it approves at all, good for its TTL or, without one, for ever
(`approval_for`). The replies of both channels and the resolution of an uncertain
delivery are given grants without expiry that nobody was asked for. Grants are
kept and presented later, by anybody, also copied without the marker that only
`issue` sets. In `RuntimeEgress` a URL is a scheme and a host. The redirects of
`download_media` are followed by the code, hop by hop. Everything else goes
through `urlopen`, which follows redirects by itself, to any host and unchecked:
`get_media_url`, `get_file`, `download_file` and `transcribe`. `opened` says of
each connection whether the code asked for it or urllib added it (`ByCode`,
`ByUrllib`, external), and `OpenedIsAllowed` promises the allowlist for the
former only; the latter start at a listed target. The clients' own `send` goes
through `urlopen` as well and is not part of this module.

### TracePrivacy and TraceStore

A mapping is a sequence of entries in the order of insertion. A key is its
class in the policy and a name; redaction adds keys of its own by appending a
suffix (`Suffixed`: `x_length`, `x_count` and `x_sha256` are metrics and hashes
whatever `x` is). `MaxItems` and `MaxDepth` stand for 100 and 8, `TooLong` for
the names above `_MAX_KEY_LENGTH`, which a suffix may reach. A text is a kind of
text, and every value carries the kinds of leaves it holds at any depth
(`holds`). The recursion of `_sanitize_mapping`, `_sanitize_container` and
`_sanitize_category_value` is a stack of frames (`work`): one turn of a loop is
a step, a nested mapping or list is a call, and its redacted value returns to
the frame below. An event is built, which redacts it, may be changed in place by
its holder, is checked for completeness, redacted twice when written (`passes`:
dumping redacts and validating redacts), and twice again when read. The model
leaves out values that contain themselves (`seen`). `TraceStore` has the rows
only as raw,
safe or refused; every statement of the two commands is an action under READ
COMMITTED with row locks (external: PostgreSQL), and the recorder's insert and
comparison are two.

### OutboxParity and StoreParity

`OutboxParity` makes every call of the outbox's interface on both
implementations and compares answers and rows; callers' clocks may go back.
Empty claim tokens, which no caller passes, are left out, and so is an approval
id that belongs to two keys: both callers of `create` derive it from the key
(`commands.py:50`, `http_converters.py:39`), which `StoreAssumption` says. In `StoreParity`
three callers write concurrently to PostgreSQL, one of them inside the
SERIALIZABLE unit of work; the answer of each is compared with that of the
dictionaries on the rows that were committed when it was given.

## 3. Runs

| Run | Checks | Bounds | States |
|---|---|---|---|
| `dispatch_safety` | readable rows, mirror, attempt limit, fresh keys, no silent duplicate, honest final status, refinement of `DeliveryLifecycle` | 2 workers, 2 rows (malformed, good), 3 attempts, 4 instants, 1 abort, symmetry | 967,139 |
| `delivery` | what is sent is what was approved, at its time; an approved reminder and every queued row is settled (`DeliveriesSettle`) | 1 request, 2 readings with different times, 1 crash, 1 worker, 2 rows (malformed, its own), 2 attempts, 3 instants, 1 abort; or 1 worker, 3 rows (malformed, orphaned, good), 4 instants; fairness | 373,900 |
| `dispatch_sent` | expected violation, see findings | 1 worker | |
| `workflow` | built as approved, one executor, nothing taken back, registration is answered, a grant is honoured | 2 requests, 2 payloads, 2 readings, fairness | 107,301 |
| `workflow_race` | expected violation, see findings | 2 requests | |
| `migrations` | history is schema, one lineage, true reports, every waiting deployment ends | 3 releases, 2 probes, 3 versions, fairness | 70,112 |
| `unit_of_work` | no deadlock, refinement of `AtomicStores` | 2 threads, 3 stores, 2 values, symmetry | 1,048,880 |
| `chat` | sound classification; true replies, bounded copies, settled events | 10 statuses, 6 error codes, 3 waits; 1 event, on WhatsApp of any of 9 kinds, on Telegram a command, text or voice note with 2 overlapping requests whose sends are answered by success or by a 502 for a message that was taken (on WhatsApp also lost answers, 400 and 429); 2 readings, 3 deliveries (2 of a voice note), 1 restart, symmetry | 1,026,778 |
| `messages` | cautious routing, only commands decide, texts read as meant, scans accounted for, blocked leaves nothing | 3 messages, confidences around the threshold; 420 hours, 6 zones, 20 moments; every set of findings | 461,427 |
| `boundaries` | sessions, approvals, egress; redaction, sanitizer, commands | 2 browsers, 2 restarts; 2 tenants, 2 attempts, 2 grants, TTL 2, 3 instants; every combination of the settings listed, 1 redirect that urllib follows per call; 3,235 mappings of up to 3 entries and up to 3 levels, limits 3 and 2; 2 rows, 2 of 4 commands, 2 days, symmetry | 1,636,697 |
| `stores` | outboxes agree, inserts agree | 2 messages, 2 tenants, 3 claims, 3 instants; 3 callers, 2 keys, 2 ids | 732,664 |
| `worker_health` | the probe is honest, the loop survives outages | 2 workers, 2 clocks, interval 1, timeout 2, 1 outage, fairness | 300,108 |

Why the bounds are enough to be interesting: two workers suffice for a stale
worker against its successor, and the operator is a third actor; three
attempts reach both the retry and the limit; with a lease of one unit and four
instants a row can be claimed, lost, swept, reopened and sent again. Two
requests allow an approval and a cancellation, or two approvals, at the same
time, and a request that has ended starts again. Three versions allow a
deployment to fail in the middle, and the edited release disagrees at the
second. Two transactions over three stores could wait for each other if the
order were not fixed. Three deliveries allow an event to be refused, taken and
repeated, and a restart between two of them. Statuses, confidences, days and
hours lie on both sides of every limit the code compares with, and at it. A
mapping has up to three entries, one more than fits once redaction has added
its own. Three callers are two that collide and one whose snapshot is older
than both. Where a bound cuts a case off, the mutants show that the case
still happens: each property has one that TLC finds. Symmetry is used only
without liveness properties. The theorems of section 4 remove the bounds for
the safety properties they name.

Bounds in guards: `MaxAborts`, `MaxCrashes` and `MaxRestarts` (crashes per
behaviour),
`MaxDeliveries`, `MaxGrants`, `MaxFollowed`, `MaxTokens`, `MaxWrites`,
`MaxCommands`, `Outages` and `MaxTime`. Nothing else is capped.

### Fairness

* `DispatchDueReminders.FairSpec`: time passes and each worker keeps taking
  steps. The loops in `worker_runtime.py` and `http_worker.py` catch every
  exception of a tick and start the next. No fairness is assumed of the
  operator, of crashes, or of any answer of the provider other than that the
  call ends (the clients have timeouts). The run has a single worker: the
  time axis ends, and two workers at its last instant could contend for ever
  over leases that can no longer expire, which real time does not allow.
* `ReminderWorkflow.FairSpec`: a request thread that has started runs until
  it answers or dies. Nobody has to send, approve or cancel anything.
* `ReminderDelivery.FairSpec`: the two together, nothing more. In
  `DeliveryService` it is stated for the part a behaviour follows.
* `Migrations.FairSpec`: weak fairness for the run that holds the lock,
  strong fairness for `Lock`, because PostgreSQL grants a contended advisory
  lock in the order of the queue.

* `WorkerHealth.FairHealthSpec`: each loop keeps taking steps, and a tick that could
  end well again and again does: the property is about loops, not about a
  database that fails in every tick. Time passes however often processes are
  restarted, hence strong fairness for `Passes`. Nothing is assumed of the
  database or of restarts.

Deadlock is checked in the runs of the core and of the worker loop: no state
without a successor is reachable. In `chat`, `messages`, `boundaries` and
`stores` it is not (`CHECK_DEADLOCK FALSE`): an event that is settled, a text
that is answered and a call that has returned are over.

### Findings

1. `dispatch_sent`: `mirror_delivery` sets `sent` for every status other than
   pending, so a reminder counts as sent when it is claimed, before the
   provider is called. `docs/runbook/persistence.md:308` promises the flag
   only after an accepted result. (The same list says that claiming increments
   `attempts`; the code counts in `mark_sending`, which
   theorem `CountedBeforeCalled` relies on.)
2. `workflow_race`: an approval that has passed the first check goes on
   although a cancellation was stored and reported in the meantime, and
   `_update_status` then overwrites `cancelled` with `approved` or leaves it;
   either way the reminder is created. With one request at a time, the order
   tested by `tests/test_command_router.py:182`, it is not.

Differences between documents and code that were met while modelling; the
models follow the code, and no run is kept for them:

* `docs/runbook/persistence.md:285-286` promises that the same notification
  request returns the existing delivery; the tool stores a result after the
  call (`adapters/outbound/notifications/telegram.py:367`), so an overlapping
  redelivery is sent again. `CopiesBounded` states what holds.
* `docs/runbook/whatsapp.md:52` promises that duplicates are not executed
  again; every delivery reaches `commands.handle`
  (`infrastructure/http_routes_whatsapp.py:193`) and the stores make it
  idempotent. Line 53 says unknown senders are skipped with 200; the route
  answers 403. Line 69 lists stickers among the media that are answered; the
  normaliser (`adapters/inbound/channels/whatsapp.py:9`) does not know them.
* `docs/runbook/minimax.md:4-7` says the model is asked only when no rule
  matches; `commands.py:160` asks it before the phrase rules, and extraction
  asks it only for texts that are not taken for reminders.
* `tests/test_trace_privacy.py:113` calls serialisation idempotent; redaction
  adds entries and then cuts (`domain/common/privacy.py:527`), so one pass is
  not. Building makes one and writing two, and `StoredIsSettled` shows that
  reading then finds the same keys. It says so of metadata without a mapping
  under a key for binary content other than what bytes are reduced to
  (`PlainBinary`): a mapping that has the three fields of reduced bytes and more
  is looked into on every pass, may stop passing for reduced bytes once its own
  entries have been expanded and cut, and then adds an entry after the write.
  With `MaxItems = 4` TLC finds such an event; the safety and the completeness of
  what is stored do not depend on the hypothesis.
* `application/dto/tracing.py:146-148` says completeness is validated as
  emitted, before redaction; the validators redact at construction (:108).
* `infrastructure/trace_retention.py:54-56` and `persistence.md:251-252` say
  count and delete always agree; they are two statements under READ COMMITTED
  (:76), and another prune between them makes them differ. The number of
  deleted rows that is reported is right.
* `docs/policy/content-policy.md:57-58` says replies are scanned before they
  are returned; `/agenda` and `/pendientes` (`commands.py:197`, `:214`) return
  stored titles unscanned, which is the exception `WorkflowRepliesPassed`
  names.
* `docs/development/hardening/phase-25-whatsapp-inbound-media.md:63-66` forbids
  following redirects blindly and `:204` says that `get_media_url` and
  `download_media` intercept them and check every hop; `download_media` does,
  `get_media_url` calls plain `urlopen` (`whatsapp_client.py:100`), which follows
  a redirect to any host. Telegram's `get_file` and `download_file` and the
  transcription client do the same (`telegram.py:167`, `:182`,
  `openai_compatible.py:99`). The model has these redirects, and
  `OpenedIsAllowed` says what is left of the promise.
* `docs/runbook/whatsapp-demo.md:68-69` says start-up fails unless an explicit
  list covers both WhatsApp hosts; `config_validation.py:124` requires the
  API's only.

## 4. Proofs

All theorems are of the form `Spec => []P`, `Spec => [][A]_vars` or
`Spec => Abstract!Spec`, for any sets of workers, messages, requests, payloads,
releases and any limits that satisfy the modules' named assumptions
(`TimeAssumption`, `DispatchAssumption`, `WorkflowAssumption`,
`MigrationsAssumption`, `UnitOfWorkAssumption`, and those at the end of this
section), which TLC evaluates on every run.

A theorem about a composition of components side by side takes one line of
argument beyond its component: the part a behaviour follows never changes, and
a step of the composition is a step of that part or leaves it alone
(`FlowApart`, `ChannelsApart` and the like). The component's own result is the
lemma named `...Part`, or cited there.

**`DispatchProofs`.** `TypeCorrect`, `RowsAlwaysReadable`, `AttemptsBounded`,
`KeysNeverReused`, `CountedBeforeCalled`, `NeverSilentlyDuplicated`,
`FinalStatusTrue`, `MirrorAlwaysAgrees`, `DispatchImplementsLifecycle`.
None of the properties is inductive. The argument has two layers. *Fencing*
(`ClaimInv`) says what a token is worth: at most one worker holds the token of
a row, and a worker whose token is the row's knows the row's attempts and that
nobody else is between its sending commit and its result. *Delivery*
(`KeyInv`, `HistoryInv`) builds on it: the key a worker carries is the next
one if it holds a claim, and it is the current attempt and unused while its
row is in sending; what the provider accepted is an attempt that is in flight,
uncertain, published, or was reopened. A stale worker fails the first layer's
premise, so every transition it tries is `Fenced`.

**`WorkflowProofs`.** `WorkflowTypeCorrect`, `ReminderBuiltAsApproved`,
`NothingBeforeDecision`, `ElectsOneExecutor`, `NothingTakenBack`. The
strengthening orders the tables: the approval row is written only after the
draft it asks for is committed, so a thread past `FindApproval` always meets a
state that awaits approval or is completed; and whatever a thread read before
the transaction is the stored draft, because drafts never change.

**`MigrationsProofs`.** `MigrationsTypeCorrect`, `HistoryNeverDiverges`,
`ReleasesNeverMix`, `ReadinessTrue`. While a run holds the lock, the history
is still compatible with its files and its pending versions are exactly those
the history lacks; files are contiguous, so the lowest pending version is the
successor of the schema. Reports stay true because tables only grow.

**`UnitOfWorkProofs`.** `UnitOfWorkTypeCorrect`, `LocksAlwaysAccounted`,
`NoDeadlock`, `TransactionsAreAtomic`. The stores a thread owns are the first
ones in the order, as many as its transaction has taken. A thread in its body
owns all, so it is alone there, and a reader that finds a store free knows that
no transaction is in its body. For deadlock freedom take the transaction under
way with the most locks (the natural numbers are well-founded): the owner of
the lock it waits for would have more. Rolling back also needs that a
transaction has no outcome before it ends.

The type invariants of these modules, `LocksAccounted`,
`SendingCommittedBeforeCall` and `NoEffectUndecided` are proved for every value
of the constants, so the runs no longer check them.

**`DeliveryProofs`.** `RequestsAreWorkflow` and `DeliveryIsDispatch` are the
composition's two projections: a step of `ReminderDelivery` is a step of each
part or leaves that part alone, so its behaviours are behaviours of
`ReminderWorkflow` and of `DispatchDueReminders`, and every theorem about
those holds in the whole. `AlwaysDeliveredAsApproved` adds what crosses the
border. It needs the parts' invariants and two of its own: the row exists
exactly when the workflow is completed (they are written in one transaction),
and the row's due time, which workers only ever move forward, is not before
the time in the stored draft, which never changes. `ProbeAlwaysHonest` is
about `WorkerHealth`. One direction needs `TickedInv`: a heartbeat is stored
right after a good tick, so the last good tick of some worker is no longer ago
than the heartbeat is old. The other needs `SteadyInv`: as long as nothing has gone wrong since
the heartbeat was stored, some loop has been waiting or working since then,
and `InTimeInv` bounds each of the two. The clocks of worker and probe may
differ by any amount within `ClockAssumption`.

**`MessageProofs`.** `ScansAlwaysAccounted` and `BlockedAlwaysLeavesNothing`
rest on one invariant that says, for each place a request can stand at, which
scans it has passed (`PassedAt`), together with what that implies for what is
stored (`KeptInv`); a title is fixed when it is registered, so what passed a
scan stays presentable. `RoutingAlwaysCautious` and `OnlyCommandsEverDecide`
need that nothing is stored for a message before it is answered
(`UntouchedInv`), that the model is asked only about a text without a slash
(`AskedInv`), and that every decision under way in the approval store was asked
for by a command that names it (`DecidingInv`). It holds for any number of
decisions at the same time, each between two of its transactions. `ClassificationAlwaysSound` is about pure functions: both
clients' results are one relation to the answer (`Read`), and that relation
implies agreement.

`TextsAlwaysReadAsMeant` is about `ReminderParser` and has four layers. *Zones*:
the conversions that come back as they were are exactly the instants that show
the local time (`CandidatesShow`), at most one on each side of the change, so
there are none in a gap, two in a repeated hour and one otherwise. *Clocks*: an
expression is read as the one hour it can mean, asked about when it can mean
two, and refused when it means none (`ClocksRead`). *Dates*: where a date word
puts the clock lies between the first hour of today and the last one a week
later (`DatesReach`), inside the calendar (`ReachAssumption`), so the calendar
and the conversions agree (`Placement`). *Order*: a local time ahead of the
wall that only one instant shows is ahead of now, though local time is not
monotonic (`AheadIsAhead`); local times of one weekday and hour are whole weeks
apart, so an earlier instant that shows them can only be the second passage of
a repeated hour (`NearestAhead`, `WeeksApart`). The invariant then only carries
what is owed for a text (`Owed`) from the moment it is read. It is proved for
any offsets, any instant of change, any texts and any instants of handling;
`CalendarAssumption` and `TextAssumption` say that numbers are numbers and which
expressions the patterns find.

For `ChatWebhook` the theorems hold for any number of threads and events, of both
channels, with a restart or an overtaking request between any two commits. The
first layer says for each place of a request what it has done and what the stores
then hold (`Fits`), that an event's question is saved by the one request that
registered it (`ExtractorInv`), what was put to the provider (`CallsInv`) and how
registration, approval and acknowledgement depend on each other (`EventsInv`).
`EventsAlwaysSettled` adds that requests stay on the threads of their channel
(`PlacedInv`) and, for the event loop, that what is said of a command is its
question unless the workflow was left running or approved (`QuestionsInv`).
`CopiesAlwaysBounded` counts: every call has a delivery of its own
(`DeliveredInv`), and the copies of a reply together with the requests that are
past the check of the tool's dictionaries and have not called yet are no more than
the threads of the channel; until a result is remembered, whoever made a copy has
still to record it (`CopiesInv`). The part of `RepliesAlwaysTrue` about texts and
the `sent` flag is about WhatsApp, which is all that holds: in the pool a
fingerprint may be overwritten between another request's check and its call. On
the event loop the tool's dictionaries tell what it sent in this run of the
process (`SingleInv`). `ProviderAssumption`, which only this theorem needs, says
that a success is only reported for a message the provider took.

**`BoundaryProofs`.** `ApprovalsAlwaysHonoured`: what `issue` made is never
changed or withdrawn, so what `require_approval` compared stays true, and a
forged copy is not trusted. Each grant bears the marks of the place that issued it
(`GrantInv`): one for a resource of an attempt can only be the policy's, so the
unexpiring grants for replies, whose resources are others (`BoundsAssumption`),
never stand in for it; one for the calendar needs a status that was read, and what
was read of a request is there still (`AsksInv`); policy and tiers never change
(`PolicyInv`). With that the last action let through is covered (`DoneInv`). `SessionsAlwaysHonoured`: the server keeps nothing
about a session; the invariant ties a browser's cookie to its last login
(`JarInv`). `EgressAlwaysHeld`: the allowlist of a running process is the one
its settings give (`AllowlistInv`), a note in progress has passed the early
returns (`NoteInv`), and the connections the code opens for a download are no more
than the turns of its loop (`HopsInv`). What urllib adds is any set of targets; it
is told apart from what the code asked for, and comes with it in one step. `SanitizerAlwaysSound` and
`CommandsAlwaysHonest`, about `TraceStore`: locks and held rows are two views
of one relation (`LockInv`), a pruner's cutoff is a whole day ago and it holds
nothing younger (`PruneInv`), and a row that is not safe is in the hands of
every sanitizer at work or still ahead of it (`SanitizeInv`), because what is
written meanwhile is safe.

`StoredAlwaysAsPromised` is about `TracePrivacy`, for metadata of any size and
depth. A recursion would need an induction over data; with the stack of frames
the induction is over steps, and the invariant (`PrivacyInv`) has one part per
claim. *Safe*: what a frame has put out holds no free text, URL or bytes, whatever its
items hold, so what it returns holds none either (`FramesInv`, `SafeInv`); this
part does not ask where the items come from, hence a caller's change in place
does no harm. *Complete*: a redaction never takes an entry out of its output and
the first entry it puts out has a key that every later redaction keeps (the
suffixed keys, which may become too long, only follow it), so an event with an
entry keeps one (`HeadInv`). *Settled*: after one redaction every top-level entry
is mild (no text or bytes are left under a key that would expand them, only
reduced bytes, which still expand under a metric or sensitive key), after a
second one stable (redacted to an entry with the same key and nothing else);
the third cuts to the limit what the expansions added, and from then on a
redaction puts out the same keys in the same places (`GradeInv`). Under a key for binary content that takes one more fact: the frame
that looks into reduced bytes can only be in four states and returns what it was
given (`BinaryInv`). `LimitAssumption` says that a mapping may have at least three
entries, a nested one is looked into, and the four fixed names of the code are not too
long; `RawAssumption` that metadata are sequences.

**`StoreProofs`.** `OutboxesAlwaysAgree`:
equal rows give equal answers and the answers keep the rows equal; the two
implementations clear different columns and compare different times, and the
columns a status may carry, with a lease that never ends before the message is
due (`RowSound`), make the differences disappear. `InsertsAlwaysAgree`: no two
rows, committed or not, clash under the unique indexes, so at most one can be
under a key, and a row that stopped an `INSERT` is one that the caller's later
`SELECT`s see (`CallSound`).

The components that are instantiated declare their assumptions as
definitions (`BoundsAssumption`, `TokenAssumption`, `SettingsAssumption`,
`IdsAssumption`, `DaysAssumption`, `CommandsAssumption`, `LimitAssumption`,
`RawAssumption`, `CalendarAssumption`,
`ReachAssumption`, `TextAssumption`, `ParityAssumption`,
`StoreAssumption`, `ConfidenceAssumption`, `StatusAssumption`,
`KindAssumption`, `WebhookAssumption`,
`ProviderAssumption`, `ClockAssumption`, `DeliveryAssumption`,
`PartsAssumption`). A theorem names the ones it needs, and the MC module of the
component assumes each of them of the values it gives, so TLC evaluates them.
They say that sets are finite, numbers are numbers and in order, and for
`RuntimeEgress` which settings the parser produces.

Only model-checked: `DeliveriesSettle`, `RegistrationAnswered`, `GrantHonoured`,
`RunsEnd` and `LoopSurvivesOutage`, because the prover does not handle liveness
under fairness. (`GrantHonoured` is in part an action property: a grant that is
executed leaves the reminder, also after requests that were killed.)

## 5. Not modelled, and why

The wording of patterns, prompts and replies, HTML, the decoding of payloads
and of the model's JSON, parsing of configuration variables, HTTP clients
beyond their targets and outcomes, verification of JWT signatures, connection
handling, the memory store (which nothing writes), and the evaluation and
governance tooling, which is not part of the running system. `PROJECT.json`
gives the reason component by component. Of modelled components: the legacy
`PostgresOutbox.claim` by id and `mark_sent`, which the runtime does not call;
the scan of migration files for transaction control; the in-memory workflow
state store.

## 6. Plan

In the order of importance:

1. The step invariants behind the liveness properties, where they say something
   on their own: what a waiting deployment waits for, which row a worker's next
   claim takes.
2. The in-memory workflow state store beside the PostgreSQL one.
