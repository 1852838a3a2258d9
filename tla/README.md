# Verification of Gurusthalam

Gurusthalam is a TypeScript monorepo: an HTTP API (`apps/api`), a background
worker (`apps/worker`) and domain libraries (`libs/`).  The API writes rows and
transactional outbox events to PostgreSQL; the worker's outbox dispatcher turns
the events into BullMQ jobs in Redis; the worker's notification processor
executes the jobs and calls the providers (e-mail, push, in-app).  The domain
libraries keep courses, learning records and the question bank.

This directory holds TLA+ models of that code, the TLC configurations that
check them and proofs for TLAPS.  All source paths below are relative to the
repository; `worker/` stands for `apps/worker/src/`, `api/` for `apps/api/src/`.

## The system

| Component | State it keeps | Operations | What makes it hard |
|---|---|---|---|
| Notification processor (`worker/processors/notification.processor.ts`) | none of its own; two random tokens per call | `process(job)`: read delivery, claim, mark, call provider, settle | a job is executed by several workers at once; every await is an interleaving point |
| Delivery and parent persistence (`worker/notifications/*-persistence.service.ts`) | `Notification` and `NotificationDelivery` rows: status, attempt token, lease, submission marker | conditional updates, one per transition | claims by lease, late writes of a lost owner, two writes for one outcome |
| Fallback executor (`worker/notifications/notification-fallback.executor.ts`) | position in the channel chain | `execute`, `tryChannel` | a second channel must not be used while the first may have succeeded |
| Retry policy, queue policy (`notification-retry.policy.ts`, `queue.policy.ts`) | attempts of the job | retry or give up | policy and queue must agree on the last attempt |
| Outbox dispatcher (`worker/outbox/outbox.dispatcher.ts`) | `OutboxEvent` rows, the claimed batch | `poll`, `publish`, `handlePublishFailure`, `start`, `stop` | several dispatchers, crash between queue and database, lock timeouts |
| Dispatch handlers (`worker/outbox/*-dispatch.handler.ts`) | BullMQ job ids | `dispatch` | a retained job id swallows an add |
| Outbox administration (`api/queues/outbox/outbox-admin.service.ts`) | the same rows | `requeueDeadLetter`, `recoverStuckEvents` | races with the dispatchers |
| Dead-letter synchronisation (`worker/outbox/outbox-dead-letter-sync.service.ts`) | reads outbox rows, writes parents | periodic pass over 100 rows | fails parents under running attempts |
| Reconciliation (`api/queues/notifications/notification-reconciliation.service.ts`) | rows of every status | recover stale deliveries, mark failed | selects first, updates later |
| Operational retry and replay (`notification-operational.service.ts`) | parent status, new outbox events | `retry`, `replay` | reuses the idempotency key |
| Redis claims (`worker/providers/notification/`) | a key with a value and an expiry | claim, accept | expires under its owner |
| Intake (`api/queues/notifications/notification.queue.ts`, `notification.application.service.ts`) | `Notification` and `OutboxEvent` rows | `create`, `fanOut`, `enqueue` | requests with one key race; a transaction whose answer is lost; one channel of several fails |
| Templates (`api/queues/templates/notification-template.*`) | template, versions, the current version | create, createVersion, publish, archive, updateStatus, resolve | publications overlap statement by statement |
| Aggregation (`api/queues/notifications/notification-aggregation.*`) | groups with their items and counts | `addEvent`, poll, claim, flush | additions race the end of the window; every API instance polls |
| Courses (`libs/courses`) | course, ownership, versions, rollback lineage; catalog and search projections | lifecycle, ownership, versions, rollback; event handlers | saves overwrite the row; events arrive in any order and more than once |
| Learning (`libs/learning`) | enrolments, entitlements, progress, a read model | enrol, cancel, complete, grant …, start, update, finish, refresh | calls read several rows and save one |
| Question bank (`libs/question-bank`) | questions, versions with content and answer keys | create, revise, restore, add | optimistic appends; twenty tables must fit back into one snapshot |
| Assessments (`libs/assessments`) | nothing stored | a lifecycle policy and an entity | no repository or service yet |

They interact through rows and messages only.  The API's transaction writes a
`Notification` and an `OutboxEvent`; a dispatcher claims the event, adds a job
under a deterministic id and marks the event PUBLISHED; a worker executes the job
against the notification's rows; dead-letter synchronisation, reconciliation and
operators write the same rows from outside.  Aggregation enqueues its digests
through the same intake.  Courses, learning and questions write their own tables
and an outbox event per transition; learning reads a course's status.
`PROJECT.json` lists every component with its sources, modelled or not, and every
hazard at its line.

## What correct means

* *Delivery*: no message is submitted to a provider twice when the first
  submission may have been accepted; at most one channel of a notification takes
  the message; settled outcomes stay settled; a SENT parent stands on a SENT
  delivery; every job leaves the queue and every notification is decided.
* *Outbox*: no event is published that the queue never had; publishing again
  creates no second job; a live claim belongs to one dispatcher; retries are
  bounded; every event is settled, the healthy ones by publication.
* *Claims*: a duplicate is reported only for an accepted message; an acceptance
  is not undone and not recorded twice while it is kept; no claim stays for good.
* *Intake*: a notification and its event are stored together, once per
  idempotency key, whatever the caller is told when a call is lost; what is
  rendered was the template's version on offer at some moment of the request.
* *Aggregation*: counts agree with items, items with their window; one instance
  flushes a group; there is one digest, and the text of what was stored in time is
  in it, unless it is literal and gives way to the rendering of another item.
* *Courses*: what is published was submitted with these contents; one owner;
  numbers are given once; a rollback restores; read models follow the events
  forwards only and the search index follows the catalog.
* *Learning*: one open enrolment and one live entitlement; the events of an
  enrolment are a chain; completion is earned; the read model is what the lessons
  were when it was calculated; progress is written only with access.
* *Questions*: versions form a chain that only grows; what is stored can be read
  back as it was written; events match versions.

## Modules

| Module | Contents |
|---|---|
| `NotificationDelivery` | one notification, its deliveries, its queue jobs and the executions of `process()` |
| `NotificationDeliveryProofs` | type correctness, pairing of tokens, the submission boundary, backing and settling of outcomes, one accepting channel, undisturbed agreement |
| `Outbox` | what the outbox promises: an abstract specification |
| `OutboxDispatcher` | rows, dispatchers, queue and administration; the refinement mapping |
| `OutboxDispatcherProofs` | type correctness, the inductive invariant, the refinement |
| `NotificationOperations` | extends `NotificationDelivery` with the outbox, retry and replay, dead-letter synchronisation and recovery |
| `NotificationOperationsProofs` | type correctness under all writers, one retry per failure, the attempts' invariant beside outside writes, dead letters, why a parent fails |
| `DeliveryClaims` | the Redis key of one delivery |
| `DeliveryClaimsProofs` | type correctness and its safety properties |
| `NotificationTemplates` | a template, its versions and the calls of its authors |
| `NotificationIntake` | extends the templates with requests, fan-out and enqueues |
| `NotificationDigest` | what aggregation promises: an abstract specification |
| `NotificationAggregation` | extends the intake with groups, additions and flushes; the refinement mapping |
| `NotificationAggregationProofs` | the inductive invariant of templates, intake and aggregation, their safety properties, the refinement |
| `Courses` | a course, its ownership, its versions and their calls |
| `CourseProjection` | extends `Courses` with the two read models and the handlers |
| `CourseProjectionProofs` | the inductive invariants of courses and read models and the safety properties they give |
| `LearningRecords` | rows, lifecycles and the progress calculations of learning, as operators |
| `Learning` | the calls of the learning services over those rows |
| `LearningProofs` | the inductive invariant and the safety properties it gives |
| `QuestionSnapshots` | validation, rows, keys, triggers and reading back of a snapshot, as operators |
| `QuestionHistory` | what versioning promises: an abstract specification |
| `QuestionVersions` | the calls of the question bank; the refinement mapping |
| `QuestionVersionsProofs` | snapshots read back as written, tables that accept what is valid, the inductive invariant, the refinement |
| `MC…` | the instance of each module that TLC checks |

### NotificationDelivery

State: `parent` (status, activeAttemptToken, whether its lease has lapsed),
`delivery` (per delivery key: status, token, lease, `started` for
providerSubmissionStartedAt), `job` (BullMQ's state, attemptsMade, stalled
counter, lock holder), `exec` (per call of `process()`: the await it is at, its
job, attempt number and position in the channel chain) and `ledger`, a history
of what became of each call of `provider.send`.

One action stands for one await: a database statement and the code up to the
next one.  A statement may throw, with or without having committed.  The
provider accepts, rejects (retryably or for good), or takes the message and the
answer is lost.  An execution can crash, and the queue can declare a job stalled
whose worker is still running, so that two executions of one job overlap.
Fallback channels are later positions of the same execution, as
`NotificationFallbackExecutor` is called from inside `process()`.

Because the tokens are drawn at random on entry, an execution stands for its
tokens.  Time appears only as the lapse of a lease, which may happen whenever the
row is PROCESSING; how long a retry waits is not modelled.

### OutboxDispatcher

State: `row` (status, lockedBy, attempts, whether availableAt has passed, whether
lockedAt is older than the timeout), `disp` (per dispatcher: the await it is at,
`running`, the rest of the batch, the event in hand, the attempts returned by the
claim), `queue` (no job, a live job or a retained finished job under the event's
job id), and histories: jobs `created`, times `requeued`, interruptions and
failed calls so far.

An event in `Poison` has no route or a payload the handler's parser rejects.  The
rows of `RETURNING` come in no particular order, so the loop takes any of them
next.  A restarted worker draws a new instanceId and is another member of
`Dispatchers`.

### NotificationOperations

Extends `NotificationDelivery` with everything else that writes its rows.  The
outbox is an instance of `Outbox`, which the dispatcher is proved to implement,
so that a run need not carry the dispatchers; events are named after the requests
that create them, and `JobOf` gives the queue job an event's payload names: the
notification's idempotencyKey for the first event and for retries, a key of its
own for a replay.  `queued` holds the job ids the queue remembers: adding a job
under one of them does nothing, and the worker takes only jobs in it.

`request` is where each call of `retry()` or `replay()` has come to, `sync` the
dead letters the current synchronisation pass has still to look at, `recovery`
what each call of `recoverStaleProcessing()` selected.
The synchronisation goes through its batch one update at a time and an error ends
the pass.  A requeue makes the event active again and takes it off `dead`, the
events whose status the pass selects by.  `audit()` is a query.
The dispatch handler's parser drops the fallback plan, so the jobs here have
chains of one channel.

### DeliveryClaims

State: `key` (its value, a claim token or `accepted`, and the ticks it has left),
`sender` (where each worker's attempt is, with its random token) and `since`, a
history of the time since the last acceptance.  `Claim` is `SET … NX EX`, `Look`
the reading of a key that could not be claimed, once more if it has gone
meanwhile, and `MarkAccepted` the script that compares the token before it sets.
The call of the provider lies between the two and takes as long as it likes:
`Tick` may expire the claim anywhere.  Attempts die and Redis calls throw
(`Fail`).  This layer lies under the delivery's own marker, which is why the
delivery models do not rely on it.

### NotificationTemplates

State: `template` (status, current version), `versions` (a status each), `edit`
(the call of each author: what it read, and what its transaction has changed so
far) and `offers`, a history of the version on offer.  A publication is the
service's check on the template it read and then a transaction of three
statements at READ COMMITTED: `FindPublished`/`ArchivePublished` archive what
that statement sees as published, `MarkPublished` marks the new version, and
`CommitPublication` sets the current version and makes everything visible.  Row
locks make one publication wait for the other; two that would deadlock are one
that goes first and one that is refused (`EditFails`).  Prisma's `include` reads
the template and its versions with two SELECTs; so does rendering here.  A
behaviour may begin with a template that has been published, whose version on
offer is where `offers` begins.

### NotificationIntake

State: `notifications`, `events`, and `lane`, the enqueue in progress for each
channel of each call (and, in the aggregation, of each instance's digest).
`create` is `Submit`; a fan-out starts one lane per channel, with the channel
appended to identifier and key, and they succeed or fail independently.  A lane
goes through the template, the lookup of the key, the transaction and, when that
throws, the lookup again.  A request whose `templateData` is `None` has a literal
text and no template; any other is rendered first, with the version on offer, and
the notification is stored with that version and the data.  The transaction fails by a unique index (identifier or
key), by the database, with or without having committed, or because the process
dies.  The raced lookup takes a notification of that key for its answer.

### NotificationAggregation

State: `groups` (status, window start, count), `items`, `add` (the calls of
`addEvent`), `flush` (per API instance: the poll's rest, the cutoff, the group
in hand, its items) and `now`.  An addition upserts the group, applies the policy
to the copy it got, and stores the item and the count in one transaction.  A
flush claims a group with a conditional update, reads its items, builds one
notification out of their source notifications, enqueues it through the intake
and marks the group; each database call may throw, before or after it took
effect, and instances die and start again.

`Build` has the builder's conditions.  Every source must resolve, and what the
sources have of template, template data, subject and title must agree; otherwise
the group fails.  `AgreesOnData` compares the data of those sources that were
rendered; a literal source has none and does not count.  Rendered subjects and
titles are their version's, so sources of different versions may agree or not
(`TitlesMayDiffer`).  Other disagreements make a source one of the workload's
`misfits`; another template is one of them, for there is one template here.  A
digest with template data is rendered once more by its enqueue, with the version on
offer by then, and the rendering replaces the joined text: so a digest
`Shows` an item if it has the item's data (no data for a literal one), and a
literal item `IsDisplaced` if another item of the digest is shown rendered.
`Shows` compares data and not versions: an item that was rendered with an older
version is shown in the words of the newer one.  If the rendering is refused the
group fails.

`NotificationDigest` is the promise: events are collected, and at some moment one
notification is sent for some of them, once.  `KeepsPromise` maps items to
`collected` and the items a group's notification is made of to `sent`; it is the
intake's key that makes a second flush of a group harmless.  What becomes of those
items in its text is said by `TimelyItemsAreSent`.

### Courses and CourseProjection

State: `course` (status, title for all its metadata, role assignments),
`versions`, `lineage` and `audits` of the rollbacks, `outbox`, `request` (per
call: the await it is at and the copy it holds) and `submitted`, a history of the
contents sent to review.  A call reads, changes its copy and saves; the
repository's save overwrites whatever the row has become, and writes the event in
the same transaction.  Ownership calls, new versions and rollbacks have the steps
of their services; the rollback's transaction stores version, lineage and audit
together, and a unique key refuses a number that is taken.

`CourseProjection` adds `catalog`, `search` and `delivery`: the handlers take
committed events in any order, again and again, two at a time, read the catalog's
row, write it if it is not newer than the event, and then derive the search row.
Nothing in the repository consumes the queue of course events yet; the handlers
are modelled under what a queue may do to them.

### LearningRecords and Learning

`LearningRecords` holds the rows, the lifecycles and the policies that compute a
course's progress from its lessons, as operators.  `Learning` has the tables
(`enrollments`, `entitlements`, `progress`, `readModel`), the `outbox` with the
events of each aggregate, `request` (the call in each slot and what it has read
so far), the `clock`, and `touched`, a history of when access and lessons were
last written.  A call is a series of reads and at most one save; the save of an
enrolment is conditional on the status the copy was read with, the partial unique
indexes (`…Accepted`) refuse a second open enrolment and a second live
entitlement, and all other saves overwrite.  A refresh of the read model is
written only if it was calculated later.  `percentage` is 0 to 100 in the
code; the calls use the values at which the policies decide differently.

### QuestionSnapshots, QuestionVersions

`QuestionSnapshots` is data: a snapshot (kind, items, answer key, matching mode),
`IsValid` (the domain's validation), `Rows` (what the repository writes),
`RowsAccepted` (primary, unique and foreign keys and the deferred trigger of the
migration) and `ReadSnapshot` (what the repository builds of the rows, validated
again).  `IsSnapshot` is the shape the TypeScript types give a snapshot before it
is validated; `BlankPlaces` are the positions of the blanks among the segments.
Texts are left out; a segment is a blank or it is text.

`QuestionVersions` has `questions` with their tenants, `versions`, `events`, the
`lock` on a question's row, `members` (whose membership can end) and `request`.  The tables are partial functions:
`versions` and the history `written` (the call and the snapshot a version comes
from) have the stored identifiers as their domain, and `Inserted` is an insert.
`create`, `revise` and `restore` read outside the transaction; the transaction
checks the membership, locks the question, compares the latest version with the
one that was read, and writes rows and event.  `add` is the version repository's
own operation, which takes number and references as given.  `QuestionHistory` is
the promise: a sequence that grows by one, an announcement in the step that adds
the version, and a restored version with the content of the version it names.

## Runs

| Run | Question | Bounds |
|---|---|---|
| `delivery` | two queue jobs for one notification, each with the fallback plan: is anything submitted twice, can two channels take the message, do SENT's backing, settled outcomes and the pairing of tokens survive a crash or a lost queue lock? | 3 executions, 2 attempts, 1 disruption, 2 jobs, e-mail with fallback to push |
| `delivery_live` | does every job leave the queue, although a database call throws; without a fault, is the notification decided and do parent and deliveries agree (`QuietAgrees`, of one job: see below)? | 3 executions, 2 attempts, 1 fault, 1 disruption, 1 job |
| `delivery_resubmit` | a statement of the code's comments that the code does not keep (below) | as small as shows it |
| `outbox` | exclusive claims, bounded attempts, no duplicated jobs, refinement of `Outbox`; does every event settle, and is a healthy event published behind a poisoned one? | 2 dispatchers, 2 events (one poisoned), batch 2, 3 attempts, 1 interruption, 1 fault, 1 requeue, 1 trim |
| `ops_retries` | do two operators ever revive one failure twice, beside dead letters, requeues, failing calls and the worker? | 2 executions, 1 attempt, 2 retries, batch 2, 1 fault, 1 requeue |
| `ops_recovery` | what do recoveries of stale deliveries undo, with a retry, a crash or lost lock and a job the queue forgets? | 2 executions, 1 attempt, 1 retry, 1 recovery at a time, 1 disruption, 1 trim |
| `ops_sync` | is every dead letter of the notification's own synchronised, and nothing else failed for it? | 1 execution, 1 retry, 1 replay, batch 3 |
| `claims` | what becomes of an acceptance when claims expire under their owners; does a claim ever stay? | 3 senders, 4 tokens, a claim of 2 ticks, an acceptance of 3 |
| `aggregation` | seven mixes: requests that share keys and fail, additions that overlap, more of them than a group may have, flushes whose source is requested meanwhile, publications that overlap, a template from its creation on, rendered and literal sources in one group whose template is published anew or archived before the flush | 2 calls, 2 channels, 2 additions at a time, 2 instances, 2 authors, 2 template versions, maximum 1, a window of 1 tick |
| `courses` | four mixes: editing and review, ownership, versions and rollbacks, read models | 2 calls at a time, at most 5; 4 version ids, 2 handlers, 2 ticks |
| `learning` | five mixes: enrolling, access that is granted, ends and expires, studying with refreshes, completion of the units and the course beside a cancellation, section and course-level progress | 2 calls at a time, at most 5; 2 enrolments, 2 entitlements, 2 units, 1 section, 2 ticks |
| `questions` | every small snapshot written, restored or added; authors of two tenants at one question; additions with made-up numbers among them | 2 calls at a time, at most 4; 2 questions, 4 versions, 1 failure; snapshots of at most 2 items or 3 segments and 2 answers |

Several properties are conjunctions of named parts, each stated where it is
defined: `OutsideWritesAreSafe`, `RequestsAreStored`, `TemplatesAreSound`,
`GroupsAreSound`, `RowsAreSound`, `VersionsAreSound`, `ReadModelsFollow`,
`OneOfEach`, `TablesFitDomain`, `TransactionsAreWhole`, `AnswersAreTrue`, and the
inductive `OutboxInv`.

Why these bounds are enough.  Every hazard of the delivery needs at most three
executions: one that leaves something behind, one that meets it, and one that
acts on what the second made of it; the third exists in both delivery runs.  Two
attempts make one retry and one last attempt.  `MaxStalls` is 1, where
`queue.policy.ts:67-68` configures 3: a stall takes a disruption and a run has at
most one, so no job meets either limit in a run; the theorems hold for every limit,
and for jobs that fail by it.  Faults and disruptions are counted, not placed: one may fall on any statement.
For the outbox, one dispatcher holds a row and one takes it; a batch of two has an
event in hand and one left behind; an interruption and a fault together make the
row change hands twice, and the third attempt is the one a healthy event then
needs.  What does not depend on the bounds is proved.

With the operations, one attempt is the last one, which is what leaves a failed
parent and a retained job to the operator; two retries race, and a third would
meet what the second meets.  The synchronisation's guarantee needs a batch that
is larger than the number of dead letters kept in front of an event: `ops_sync`
has three events and a batch of three, and its mutant shows that a pass must go
on behind a replay's.

The services of the domains have no more than one read between a decision and a
save that another call can invalidate, so two calls at a time meet; up to five in
sequence lead a row through its lifecycle around them.  A workload names the calls
that touch the same rows; calls on different rows do not meet.  Workloads are
chosen at the start and never change, so one run checks each.  The aggregation's
window of one tick has a moment inside, its end, and a moment after it; with a
maximum of one item every second addition is an overrun.  Snapshots of two items
have permutations, repetitions and dangling references; the fields of different
kinds do not interact.

The deadlock check is on for `outbox` and `claims`, where something can always go
on.  The other runs switch it off: the calls, executions or jobs of an instance
are used up.

Each property is paired in `PROJECT.json` with a mutant of the code under which
TLC finds it violated; the mutants stand above the definitions they change, with
a comment `Mutant`.

## Fairness

*Delivery*: weak fairness of every execution's own step (an awaited call
returns), of picking up a waiting job (a worker polls), of the stalled-job check
for crashed executions (it runs every `stalledInterval`) and of the lapse of
leases (time passes).  *Outbox*: weak fairness of each dispatcher's code (the
interval timer and awaited calls), of the timeout of a lock nobody is going to
release, and of availableAt passing.  *Operations*: the worker's fairness, an
outbox that delivers what is active and publishes it or gives it up, and the
synchronisation's interval.  *Aggregation*: weak fairness of each scheduler (its
interval timer and its awaited calls, the enqueue of its digest included); time
and the API's clients may stop.  *Claims*: time passes.  Nothing is assumed of
crashes, lost locks, failing calls, operators or clients, and dispatchers need not
be running: that some remain follows from the bound on interruptions.  The other
modules state no liveness: what a client does not call does not happen.

## Disagreements with the code's own words

`delivery_resubmit` shows one: comments in the processor and in `markProcessing`
say that a delivery whose submission was started is never reclaimed by its lease
alone.  `claimPrimaryAttempt` does reclaim it; only the marker's own guard then
stops a second submission, and a database error at that point reaches
`markFailed`, which clears the earlier submission's marker: a later attempt submits
again.

Others were met while modelling.  The models have these behaviours, and the
properties are stated so that they are true of the code:

* The lease is documented as the longest time an attempt holds a notification
  without progress (`notification-attempt-lease.ts:2-3`); a crash before the marker
  leaves it held for good, because redeliveries come in seconds, the lease lasts 15
  minutes, and the attempts are used up in between.
* A retry's event names the job id of the failed notification's job, and the queue
  keeps failed jobs: the add does nothing, the event is PUBLISHED and the parent
  stays RETRYING, where no retry is accepted
  (`notification-operational.service.ts:206-209`).
* The synchronisation fails a parent under a running attempt and leaves the
  attempt's token on it.  When the message was sent all the same,
  `reconcileSentFromDelivery` takes the token for a live owner and does nothing
  (`notification-persistence.service.ts:85-89`).
* A retry that loses the race looks for the winner's event with a second query,
  and can find it published already or find a replay's; the audit calls a
  notification whose event is published and whose job still waits an anomaly; the
  recovery's update repeats the condition on the status only.  That this last one
  does no harm is what `ops_recovery` shows: token and marker stay on the row.
* "The processor should retry this transient conflict"
  (`email-notification.provider.ts:63-64`): the provider throws when another worker
  has the delivery's claim, and the processor takes an exception of the provider
  for an acceptance it does not know of, as it does not know what was thrown.
* A retry sets the parent RETRYING, and the next pass of the synchronisation, or
  one that is under way, sets it FAILED again for a dead letter of the earlier
  failure, which is still there.
* A digest takes the template and the data of its sources
  (`notification-aggregation.builder.ts:124-142`) but not the version, locale or
  snapshot they were rendered with: the resolver drops those
  (`notification-aggregation.source-event.resolver.ts:295-316`), and the enqueue renders again
  with what is on offer at the flush (`notification.queue.ts:508-566`).  If that is
  refused the group is FAILED and never tried again; and as the rendering replaces
  the joined text, the literal items of the group are lost although it is FLUSHED.
* An item that is inserted after the flush has read the group's items is counted in
  the group and in no digest (`notification-aggregation.repository.ts:387`).
* A group whose instance died, or whose two status updates failed, stays FLUSHING:
  no query selects it again (`notification-aggregation.queue.integration.service.ts:247`).
* Two publications that overlap at READ COMMITTED can leave two template versions
  PUBLISHED, and one that began earlier publishes a version archived meanwhile.
* Two jobs of one notification (a retry under a key the queue no longer remembers)
  can end with a SENT fallback under a parent that stays PROCESSING, although
  nothing crashed and no call failed: the second job's execution takes over the
  parent whose lease has lapsed while the first is at its fallback channel, and the
  first one's final write has lost its token.  `QuietAgrees` is therefore stated of
  one job.
* A course saved from an old copy leaves ARCHIVED, which has no transition.
* A lesson update that read the lesson before its completion overwrites the
  completion (`prisma-lesson-progress.repository.ts:127`), although completed
  progress is called terminal (`lesson-progress.ts:235`).  `CompletionWasEarned`
  therefore asks that each unit was completed, not that it still is.
* A restoration or suspension that read an entitlement before its revocation
  makes it live again (`prisma-entitlement.repository.ts:157`).
* Questions and learning write outbox events for which the worker's router has no
  route (`outbox-event.router.ts`): they end as dead letters.

## Proofs

All theorems hold for every value of the constants that satisfies the named
assumptions.  The assumptions are these:

* *Delivery*: chains of delivery keys, attempt limits of at least one, and
  `KeysAreDistinct`: a chain names a channel once, ordinary jobs start with the
  notification's own delivery, and a replay's key is no other job's
  (`notification-replay:<id>:<replayId>`,
  `notification-operational.service.ts:460-466`).
* *Operations*: requests differ from the first event and from each other
  (`RequestsAreDistinct`), and exactly the replays' events name replay jobs
  (`EventsNameJobs`).
* *Outbox*: finite sets of dispatchers and events, attempt limits of at least one.
* *Claims*: more tokens than senders (`TokensSuffice`), positive lives
  (`TicksArePositive`), a token is not the word `accepted` (`ValuesDiffer`).
* *Courses*: workloads of calls with arguments of the right kind
  (`WorkloadsAreTyped`); "no row", "no event" and "no projection" differ from
  rows, events and projections.
* *Intake and aggregation*: arguments of the right kind (`TemplatesAreTyped`,
  `RequestsAreTyped`, `CallsHaveLanes`, `PolicyIsValid`), and
  `DigestKeysAreTheirOwn`: clients do not choose idempotency keys of the form of a
  digest's.  Nothing in the code enforces this last one; a client that did
  would make a digest look like a repeated request.
* *Learning*: calls that name identifiers of the right kind (`CallsAreTyped`),
  identifiers that name one aggregate (`AggregatesDiffer`), values for "no row",
  "no event" and "never" that differ from rows, events and times.
* *Questions*: drafts of the shape the types give them (`DraftsAreTyped`), and the
  values for "nobody", "legacy", "absent" and a piece of text are no calls, tenants
  or identifiers (`NamesAreApart`).

*Submission boundary.*  `SubmissionInv` is inductive (`SubmissionInvariant`) and
gives `NoResubmission` (`SubmissionSafe`).  `NoResubmission` alone is not
inductive: it says nothing of the execution that is about to call the provider.
`MarkerInv` adds who is engaged on a delivery (at the call, or with a call that
may have been accepted): such an execution left the marker on the row or settled
it, is alone, and any other owner of the row is blocked, because it took a lapsed
primary over and will be refused at the marker.  `LedgerFollows` ties the history
to the position in the chain, so that an execution that arrives at a channel has
not called it yet.  `MarkerHolds` exempts the primary when database calls may
throw; `delivery_resubmit` shows why it must.  The row an engaged execution left
is `Kept`: PROCESSING, or FAILED by the recovery with the token still on it, so
that the same invariant is inductive beside the recovery (below).

*Tokens.*  `TokensStayPaired` rests on the claim being one transaction and on the
settling writes being conditional on the token.

*Outcomes.*  `OutcomeInv` (`OutcomeInvariant`) gives `SentIsBacked`
(`SentStaysBacked`) and `SettledStays` (`SettledRowsStay`).  Neither is inductive:
the delivery an execution works on when it is about to write SENT into the parent,
or to reconcile it, must be known to be SENT (`SentWasSeen`), and a settled row
must not look lapsed, or a claim would take it over.

*One channel.*  `ChannelInv` (`ChannelInvariant`) gives `OneChannelAccepts`
(`OneChannel`) when no database call throws.  An execution is `Committed` once it
is past the marker of the notification's own channel and may hand the message to
a channel, or has.  There is only one: the primary's row keeps its marker or is
SENT, and any other owner of that row is blocked.  `ChainFollows` says that the
channels this one has gone past rejected the message.

*Undisturbed runs.*  `QuietInv` (`QuietInvariant`) gives `QuietAgrees`
(`QuietStaysAgreed`) for one job, no crash or lost lock and no fault: an
execution that runs holds the job (`HoldsJob`), from its claim on it owns the
parent (`Holding`), so that every write it decides on takes effect, and a SENT
delivery has a SENT parent or an execution about to make it so.

*Operations.*  `OpsInv` (`OpsInvariant`) is the delivery's `OutcomeInv`, and
`SubmissionInv` with it, as an invariant of `OpsSpec`, with the operators, the
synchronisation and the recovery writing the same rows; it needs `HeldHasToken`,
that a delivery which is PROCESSING has a token, so that what the recovery fails
under an attempt is not mistaken for a row that is free.  The outside writes are
proved to be an `OutsideWrite`, which leaves executions and history alone, settles
nothing as SENT and moves a delivery only from PROCESSING to FAILED with token
and marker in place; and such a write keeps the invariant.  Since every step of a
worker moves its execution (`StepMovesOn`) and no outside write does, this gives `OutsideWritesAreSafe` (`OutsideWritesStaySafe`).  `DeadInv`
(`DeadLettersInvariant`) says that the dead list and the pass over it hold events
the outbox gave up, from which `FailedForAReason` (`FailuresHaveReasons`) follows:
from outside, a parent is taken up by a retry or failed for a dead letter of its
own, and nothing else happens to its status.

*Outbox.*  `OutboxInv` is inductive (`OutboxInvariant`).  Its core is
`AttemptsAccounted`: attempts are spent by claiming and judged only when a
publication fails, so the bound `AttemptsAreBounded` needs an account of claims
that will still be made.  A row that may be claimed again (`Dangling`) must be
strictly below the limit plus its allowance; a stopped dispatcher that is still
going to claim (`Leaving`) reserves one attempt of every row; each interruption,
failed call and requeue adds one to the allowance.  `DeadIsExhausted` makes the
attempts a dispatcher decides with those of the row it owns.  The steps are
proved through a small set of shapes (`Keeping`, `Beginning`, `Wasting`,
`GoingOn`, `Abandoning`) that every await of the dispatcher has, and what such a
step makes of one row (`RowChange`).  From the invariant follow the bound on
attempts, one job per event, exclusive claims and the refinement
(`OutboxImplemented`): each step is a `Deliver`, `Publish`, `GiveUp` or `Requeue`
of the abstract outbox, or leaves it unchanged.

*Retries.*  `OneRetryPerFailure` compares a count of events with a count of
failures, and is not inductive: a FAILED parent could be one whose failure was
used before.  `RetryAccount`, which is inductive, adds that a FAILED parent holds a
failure in hand: the scheduled retries and this one are together no more than the
failures.  A retry moves one from one side to the other, because its transition
looks at the status in the statement that changes it.

*Learning.*  `LearningInv` is inductive (`LearningInvariant`): the tables' types
(`Tables`), what each call in progress holds (`ReqOK`), that an identifier about
to be created is nobody's row (`FreshOK`), and the properties of the rows
(`RowsOK`).  The properties alone are not inductive because the decision is taken
from a copy: `ReqOK` says what the copy still proves about the rows when it is
saved.  An enrolment's copy is one event away from the status it was read with,
and the save compares that status, which gives the chain of events
(`EnrollmentHistory`); a completion holds that every unit has its completion
event, which stays true because events are never removed (`CompletionEarned`); a
calculated read model equals the lessons unless one was written at or after the
time it is stamped with (`ReadModelCurrent`); a progress save has seen access that
holds or was touched since (`WritesAllowed`).  The two uniqueness properties
(`OneOfEachKept`) rest on the indexes and on identifiers being fresh.

*Claims.*  `ClaimsInv` adds to the types that every token is its attempt's own
(`TokensAreOwn`), that a value lives no longer than its expiry (`KeyLives`), and
that an acceptance in the key is as old as the last acceptance (`Ages`).  Only the
owner's token turns a claim into an acceptance, and a claim can only be made when
the key has gone: so between two acceptances the first one's whole life has passed
(`AnswersTrue`).  The expiry of a claim under its owner does not break this: the
late owner finds another value.

*Aggregation.*  The invariant (`AggregationInvariant`) has three parts, one per
module.  `TemplateInv`: a transaction about to commit has published its own
version, and the history of offers ends with the version on offer.  `IntakeInv`:
a notification, its event and its key are stored together, and the version a lane
has found was on offer since the lane started.  `AggregationInv`: a group's count
is the number of its items, and with the items about to be inserted it stays below
the maximum plus the additions there can be at a time; one flush works on a group;
what a flush has read, what its lane carries and what a digest was made of are
`Whole`, items of the one group and all of those that were in time.  This stays
true while others go on because a closed group is never open again (`GroupsKept`)
and an item that is new in a closed group came too late for it (`ItemsKept`).  What
the text of a digest tells of its items is `Told`: each is shown, or is literal and
displaced by one that is.  `Build` gives it, because the rendered sources agree on
their data, and it stays true because a source's row is never changed or removed
(`ToldKept`).  The invariant gives `RequestsAreStored`, `RepliesAreBacked`, `TemplatesAreSound`,
`GroupsAreSound`, `TimelyItemsAreSent`, and the refinement of `NotificationDigest`
(`AggregationKeepsPromise`): an addition is `Collect`, the first notification under
a group's key is `Send`, everything else stutters.

*Courses.*  `CourseInv` (`CourseInvariant`) has the tables' types, what each call
in progress holds, that an identifier about to be created is nobody's, and the
properties of the rows.  A save overwrites the row, so what is to be true of the
rows must be true of every copy still held (`CourseCopy`, `VersionCopy`): a copy in
review has a title that was submitted, or is the submission; a copy's
owners are a valid assignment.  Versions are numbered without gaps because
the latest number is their count (`LatestIsCount`) and the unique key refuses the
second call that read it.  `ProjectionInv` adds that a handler holds a committed
event, and that a projection shows a committed event (`FromOutbox`).  They give
`RowsAreSound`, `PublishedWasReviewed`, `VersionsAreSound` and `ReadModelsFollow`.

*Questions.*  Three theorems are about snapshots of any size, valid or not: what is
written reads back as the same snapshot, and is readable exactly if it was valid
(`RowsReadBack`); the tables' keys, references and triggers accept exactly the
valid ones (`TablesAcceptTheValid`); and a copy under fresh identifiers has the
content of its source (`CopiesKeepShape`).  `HasRows` excludes what has no rows at
all, an answer for a blank that is not there.  The inductive invariant
(`QuestionInvariant`) is about the tables (`TablesInv`: each version's rows are
those of a valid snapshot, each question's numbers a chain, the events those of the
versions with an author) and the calls (`CallsInv`: what was read, prepared and locked; a question's row is
locked exactly between a call's locking statement and its commit).  The latest number a
call compared under the lock is still the latest when it inserts.  It gives
`VersionsFormChain`, `TablesFitDomain`, `TransactionsAreWhole` and the refinement
of `QuestionHistory` (`QuestionsKeepPromise`).

Only model-checked is liveness, which is out of the prover's reach:
`EventuallyDecided`, `JobsLeave`, `ImplementsLiveOutbox`, `HealthyIsPublished`,
`DeadIsSynchronised`, `ExpiredGroupsAreClaimed` and `ClaimsEnd`.
`NoResubmissionEver` is the statement `delivery_resubmit` refutes.  Every other
property of every run, the three safety refinements included, is a theorem.

## Plan

The order follows the weight of the behaviour; each module is written to be
checked and proved about.  Delivery, outbox, outside writers, claims, intake,
templates, aggregation, courses, learning and questions are modelled as above, and
what the runs check of them, liveness aside, is proved.  Left to prove:

1. *Operations*: the dead list is exactly the dead events in the order of their
   death, from which a pass is known to look at the oldest ones; `ChannelInv` and
   `OneChannelAccepts` of `OpsSpec` for a notification that is not replayed.
2. *Composition*: the instance of `Outbox` in `NotificationOperations` takes the
   steps of `Outbox!Spec`, so that with `OutboxImplemented` the dispatcher may stand
   in its place.
3. *Courses*: convergence of the read models as a safety property: when every
   event has been handled once after the last write, catalogue and search agree
   with the row.

Left to model: learning sessions and course structure once a service saves them,
and the consumers of course, question and learning events once there are any.

## Not modelled

Logging, metrics, message texts, provider protocols and credentials; the length
of delays; the clocks of worker and database are one clock (lockedAt is the
worker's, the comparison the database's).  The events of an outbox instance all
exist from the start: an event that arrives later behaves as one whose availableAt
has not passed.  `notification-lifecycle.service.ts` and its table of transitions
are dead code.

* *Delivery and operations*: the parsed payload drops templateVersion,
  templateLocale, templateSnapshot and the fallback metadata; the same for every
  job.
* *Intake*: no service passes a fallback map to `fanOut`; rendering errors and
  locale checks end a call like a failing one.  The template is resolved before the
  idempotency key is looked up, so that a repeated request can be refused after
  its template was archived.
* *Aggregation*: nothing under `src/` calls `addEvent` yet; its arguments are those
  its tests use.  A group key is never opened again, a FAILED group never tried
  again, and an empty flush ends FAILED.  Collisions of the 32-bit identifiers of
  groups are left out.
* *Courses*: `CourseVersion.archive` and the version's review have no service
  (rows in those states are seeds); no service saves the structure; searches are
  queries.
* *Learning*: PENDING enrolments are never activated; sessions have no service;
  activity events, streaks and histories are appended facts and queries; the
  retries of a serialisation failure are another call.
* *Questions*: `add` has no service caller; legacy questions belong to no tenant;
  the membership is checked without a lock; a repeated `revise` appends twice.
* *Claims*: `releaseClaim` and `isAccepted` have no caller; two slow owners can both
  hand the message over, as the code says ("This is not a renewable lease"): what
  keeps them from it is the delivery's marker.

Assessments have types, a policy and an entity but no repository or service.  Web
applications, scripts, migrations, generated code and framework wiring keep no
state of their own that these properties concern.  The generated database client
is about three fifths of the repository's lines; it is used as what it does, a
statement or a transaction of the database.
