# Formal model of the Lotty A/B platform

TLA+ modules, TLC runs and TLAPS proofs about the Go services in `src/`: `panel`
(configuration), `runtime` (decisions) and `analytics` (events). Paths below are
relative to `src/`. `PROJECT.json` lists components, runs, theorems, hazards,
findings and, for every definition, the lines it models.

## 1. Inventory

| Component | State it keeps | Operations | What makes it correct |
| --- | --- | --- | --- |
| Experiments (`services/panel/domain/experiments`) | rows `experiments`, `experiment_versions`, `variants`, guarded by an optimistic lock `version`; audit records and outbox rows written in the same transactions | Create, UpdateDraft, CreateVersion, SetVariants, Submit, Start, Pause, Resume, Complete, Rollout, Archive, guardrail pause and rollback, outcome of a review | lifecycle graph; one active experiment per flag; outdated reads never commit; what runs was reviewed and does not change; decision, guardrail mark and audit agree with the status |
| Reviews (`.../reviews`) | `reviews`, `approvals`, `approver_groups` and members, comments | CreateReview, Act, group and member CRUD | quorum of distinct approvers, a closed review is final, its outcome reaches the experiment |
| Flags (`.../flags`) | `flags` with `default_value`, `deleted_at` | Create, Update, Delete | no active experiment on a deleted flag; the default moves only by hand or with a completion or rollback |
| Snapshot refresher and writer (`services/panel/snapshot`, `pkg/snapshot/writer.go`) | a channel of requests, one worker, two Redis keys, a Kafka topic | Refresh, doRefresh, SetWithContext | the last committed change is in Redis once the refresher is done; the revision key runs ahead only after a half-failed write |
| Snapshot reader (`pkg/snapshot/reader.go`) | three atomics (flags, experiments, revision) written by the poll, the subscription and requests | bootstrap, revalidateOnce, applyRecord, Refresh | every runtime ends with the revision of Redis, whole |
| Decide (`services/runtime/domain/decide`, `pkg/targeting`) | the reader; a bounded channel of decision records | Decide, Publish | deterministic bucket, weights respected, missing attributes exclude, one snapshot per answer |
| Outbox (`pkg/outbox`) | rows pending, published, dead | claim, publish, mark, retry | every stored message is published at least once or ends up dead, whatever the rows before it do |
| Kafka consumer (`pkg/consumer`) | offsets (committed when a message is read) | fetch and commit, handle with retry, forward, dead-letter | a message whose offset is committed is handled, forwarded or dead-lettered, unless that commit itself failed |
| Event intake (`services/analytics/domain/events`) | `event_idempotency_keys` | IngestEvents, IngestExposures | an acknowledged event is published; two bodies of one id never are |
| Ingest (`.../ingest`, `pkg/clickhouse/writer.go`) | dedup keys, a buffer of rows shared by several consumers | validate, deduplicate, append, flush | an offset is committed only when its rows are stored; at most one copy of an event |
| Attribution (`.../attribution`) | pending exposures and conversions in Redis, a sorted set | exposure, conversion, sweep | each conversion with an exposure in the window is attributed once, in either order of arrival |
| Users and sessions (`.../users`, `.../auth`) | `users`, sessions in Redis | role change, delete, login, revoke | one admin remains; sessions of an old role end |
| Idempotency (`pkg/middleware/idempotency.go`) | stored answers in Redis | look up, run, store | one key, one effect |
| Metrics, reports, `pkg/metrics` | metric definitions | CRUD, compile, query | text to SQL text and reads; no interleavings |
| Plumbing and tools | - | configuration, logging, connections | - |

Interactions: handlers of panel share PostgreSQL and nothing else, so their
transactions interleave. `Act` of reviews calls `ApplyReviewOutcome` of
experiments through a callback (`router.go:93`), in a transaction of its own.
`CreateVersion` and `Submit` call `CreateReview`. Every committed change of a flag
or of an experiment ends in a call of `Refresh`, which sends to the channel of the
refresher; the refresher reads PostgreSQL and writes Redis and Kafka; the runtimes
read both. Runtimes publish decisions and clients post events to analytics, which
pass through Kafka topics, deduplication and attribution into ClickHouse.

The behaviour that is hard to test is listed under `hazards` in `PROJECT.json`, each
at its line, with the properties that watch it or the reason why none does.

## 2. Modules

| Module | Role |
| --- | --- |
| `ExperimentLifecycle` | experiments, versions, variants, reviews, audit tail and flags of panel |
| `FlagLease` | abstract specification: a flag is leased to one experiment at a time |
| `ExperimentLifecycleRefinement` | the refinement mapping from the lifecycle to the lease |
| `MCExperimentLifecycle` | constants of its TLC runs, a start from approved experiments |
| `ExperimentLifecycleProofs` | theorems: types, the optimistic lock, one active experiment of a flag, the refinement of `FlagLease` |
| `ExperimentReviewProofs` | theorems: reviews, audit, decisions, guardrails, variants, status graph, what runs |
| `SnapshotDistribution`, `MCSnapshotDistribution` | refresher, Redis, Kafka and readers |
| `SnapshotDistributionProofs` | theorems about it |
| `FaultBudget` | how many operations may fail in a behaviour; extended by everything below |
| `KafkaTopics` | the topics as logs, the offset of each consumer group |
| `EventIntake` | batches of events and exposures over HTTP, idempotency keys |
| `RetryConsumer` | the generic consumer: attempts, forward, dead-letter topic |
| `EventDedup`, `EventDedupProofs` | validator and deduplication as handlers of it; theorems |
| `ClickHouseIngest` | the three ClickHouse consumers and the writer they share |
| `Attribution` | exposure registry, attributor, sweeper; composes consumer and writer |
| `Targeting` | the targeting language: evaluation, formatter, parser (operators only) |
| `TargetingRoundTrip` | an expression shown by the panel and sent back |
| `Decide` | a decision over a snapshot that is being replaced; the decision publisher |
| `AnalyticsPipeline`, `MCAnalyticsPipeline` | composition of the above, its scenarios |
| `AnalyticsProofs` | theorems about `EventIntake`, `ClickHouseIngest` and `Decide` |
| `AttributionProofs` | theorems about `Attribution` |
| `EventDelivery` | abstract specification: what is accepted stays under way until it is stored or released |
| `PipelineProofs` | theorems about `AnalyticsPipeline`: it implements the specification of each component, and `EventDelivery` twice |
| `Accounts` | users, logins, sessions |
| `ApproverGroups` | members and thresholds |
| `Idempotency` | the `Idempotency-Key` middleware |
| `OutboxDelivery` | the transactional outbox and its publishers |
| `PanelAdministration`, `MCPanelAdministration` | composition of these four, its scenarios |
| `AdministrationProofs` | theorems about these four, and that the composition implements each of them |

### ExperimentLifecycle

A request is a process (`req`). Its handler reads rows without a lock, decides, and
commits one or more transactions; every unlocked read (`...Read` actions) and every
transaction is a step. A transaction is one step because it locks the experiments row
(`SELECT ... FOR UPDATE`) or updates it under `WHERE status = ... AND version = ...`.

* `TransitionRead`, `ResumeRead`, `TransitionRequest`, `InternalPauseRead`: the reads
  and guards of `Service.transition` and of its callers, including the guardrail
  check and `CountActiveByFlag` (`FlagFree`). `Transition` is the transaction, with
  the unique index (`UniqueActive`).
* `CompleteRead`/`Complete`, `RollbackToControl`: completion with a winner, a rollback
  or no effect, and the automatic rollback; they move the flag's default.
* `CreateVersionRead`, `CreateVersion`, `OpenReview`, `SetVariantsRead`, `SetVariants`: a
  version, then a review of it if the experiment was in review, then its variants.
* `SubmitRead`, `SubmitReview`, then a transition.
* `ActRead`, `ActOnReview`, `ApplyReviewOutcome`, then `Transition`: a vote and the
  second transaction that carries its outcome.
* `Fail`: the request ends at any point between two of its transactions - a
  refused lock, a lost connection, a crash of the panel.

Abstractions. A complete set of variants is one value, valid by `ValidateVariants`; a
draft without variants has `NoVariants`. Salt, targeting and hypothesis play no part.
The audit trail is reduced to its last record, the outbox to the set of announced creations.

The row version a client sends (`lock`). `CreateVersion` and `SetVariants` compare it with the row
they read. `transition`, `Complete`, `Submit`, `Act` and the guardrail pause do not
(`experiments/service.go:363-402`, `:579-604`): only the transaction does, under the row lock, so
a value ahead of the row is accepted and may match by the time of the commit. `Sent` offers every
value from the row's version to `MaxAhead` above it. A value already stale at the first read
commits nothing but the review of a `Submit` or an `Act`, and those also arise when the row moves
a step later. `seen` is the row's version at the handler's last read; the code does not keep it,
and only properties look at it. `Start` accepts a paused experiment as well, without the look at
the review that `Resume` takes (`service.go:488-495`), and so does `TransitionRequest`.

### SnapshotDistribution

`db` counts the changes of the two tables, so a snapshot says which state of each it
carries. `Commit` then `Notify` is a handler; `TakeRequest`, `ListFlags`,
`ListExperiments`, `StorePayload`, `StoreRevision`, `Publish` the worker, in the order
given by `After`. The two Redis `SET` are pipelined before either is answered
(`pkg/snapshot/writer.go:53-63`), so when `SetWithContext` fails either may have been carried
out without the other (`Remains`, the effect of `RefreshFails`): the snapshot under the old
revision, or the revision of a snapshot that is not there. A reader is three goroutines
(`poll`, `kafka`, `miss`), each `Fetch` or `ReadMessage`, then `Check`, then the three
stores of `Reader.store`.

`topic` is the set of published snapshots and `ReadMessage` picks any of them: the
group starts at the log end once it is assigned and replays what was not committed,
so any record may come once more or never. Kafka, rueidis and PostgreSQL are external.
There is one panel process, whose clock does not go backwards; two replicas, or a
clock set back, are outside the model. `Abandon` is the handler that returns an error
after its commit because its last read failed (`experiments/service.go:402-414`): it
never calls `Refresh`. `SettledRedis` is about refreshes that were requested and
succeeded, so it excludes those until the next refresh.

### Composition

`AnalyticsPipeline` and `PanelAdministration` put components side by side. Each keeps
its own variables; they meet in the topics (`log`, `offset`), in the shared writer and
in the budget of failures. The variable `cast` names the components that act in a
behaviour, the others stand still as idle processes would; a scenario of the MC module
chooses the cast, the input and the budget. So the state spaces of the components add
up instead of multiplying, while the scenarios in which components interact (`EndToEnd`,
`Arriving`, `Joining`, both `Attributing`) run them together. `AnalyticsCrash`
takes down intake, consumers, attribution and writer at once, as they are one process.

Each component also has a specification of its own (`IntakeSpec`, `DedupSpec`, `IngestSpec`,
`AttributionSpec`, `DecideSpec`; `AccountsSpec`, `GroupsSpec`, `IdempotencySpec`, `OutboxSpec`),
about which the theorems of section 5 are stated. Where it reads or writes a topic that others
write too, an action stands for them: `Downstream` (intake), `Elsewhere` (deduplication),
`Arrivals` (writer), `Surroundings` (attribution), `OthersWrite` (runtime). What these actions
allow is what the component assumes of the others; that the others keep to it is the theorem
`PipelineImplements`. `PipelineSpec` and `PanelSpec` start in any scenario of
`PipelineScenarios` and `PanelScenarios`; TLC checks that those of the runs are among them.

`FaultBudget` counts what goes wrong: a failed call of PostgreSQL, Redis, Kafka or
ClickHouse, a restart, a key that lapses. A failed write may have been carried out: every
`...Fails` action offers both outcomes where the driver cannot tell.

### Ghosts: where the code lets go

Several properties are of the form "nothing is lost, or it went through a known hole".
The holes are variables that actions set and nothing reads, so a reader sees from the
property which promises the code does not make. Without the ghost TLC finds each of
these properties violated.

| Ghost | Set when | Code |
| --- | --- | --- |
| `lapsed`, `abandoned` (intake) | a key expires or a half-stored batch is released; a failed request leaves or gives up a claim | `events/service.go:75`, `:88` |
| `lost` (consumers) | the commit that follows the fetch fails, the dead-letter write fails, or the worker stops | `pkg/consumer/consumer.go:103`, `:184` |
| `silenced` (deduplication) | a step fails after the id was marked as seen | `ingest/dedup.go:66` |
| `taken`, `passed` (writer) | a flush of one consumer takes the rows of another; the commit of a poison message covers rows before it | `clickhouse/writer.go:185`, `ingest/consumer.go:122` |
| `chances`, `forgotten`, `unsure` (attribution) | an exposure is registered again or its `DEL` fails; a pending key expires or is deleted unread; a registration is carried out and reported as failed | `attribution/redis_store.go:29`, `:76`, `sweeper.go:77` |
| `dropped`, `overlapped` (runtime) | a decision is not written; two goroutines store snapshots at once | `decide/publisher.go:63`, `reader.go:129` |
| `miscounted`, `excused`, and `stale`, `outrun` in a call (accounts) | an admin is removed on reads another write has outdated; a revocation fails or misses a session | `users/service.go:155`, `auth/service.go:259` |
| `overtaken` (groups) | another change of the group is committed between a transaction's reads and its commit | `reviews/repository.go:284` |
| `epoch` (idempotency) | the record of a key lapses | `middleware/idempotency.go:160` |

### EventIntake

A batch claims its keys item by item, and a claim is up to four statements, none in a transaction:
`InsertKey` (unique index), `FindKey` after a violation, `ReplaceKey` when the row has expired,
`InsertKey` again when it has gone. `Publish` writes all claimed items in one call; `PublishFails`
may have stored a part; `Release` deletes the keys. Every statement has a failure (`StorageFails`,
`ReleaseFails`; a failed INSERT or UPDATE may have been carried out), keys expire (`ExpireKey`) and
the process dies (`IntakeDies`). Validation of an item is the field `ok` of the input.

### RetryConsumer, EventDedup

A worker is one consumer loop. `ReadMessage` commits the offset with the read, as
`kafka.Reader.ReadMessage` does with a group: it fetches a message, then commits it. When that
commit fails it returns an error in place of the message, `Run` logs it and goes on, and the next
commit covers the offset (`ReadMessageFails`): the message is handled by nobody. The handler is a
chain of steps supplied by the module that extends it; each ends in `Done`, `Drop` or `Failed`, and
`Failed` is a repetition or, after `MaxAttempts`, the dead-letter topic (`SendDLQ`, `SendDLQFails`).
The validator never repeats. `SeenOrMark`, `Exists`, `Insert` are the steps of `DedupStore.Handle`:
the memory `seen` is of one replica and bounded, the table `dedupKeys` is shared. `ReplicaDies`
stops one replica.

### ClickHouseIngest

`TakeMessage` appends a row and flushes when the writer is full; `Tick` flushes on the
ticker. A flush sends all four buffers in order: `TakeBuffer` swaps one out under the mutex,
`SendRows` sends it without the mutex, `SendRowsFails` puts it back in front and starts again.
`CommitRows` then commits the last position this consumer has appended. `TakePoison` is the
message that cannot be decoded: it is committed by itself, and with it everything before it.
`Shutdown` cancels the flushes and flushes once more.

### Attribution

`GetExposure` finds the exposure (row with experiment, then `DeleteExposure`), or writes a
bare row, or goes on to `RegisterConversion` (`SET NX`) and `IndexConversion` (`ZADD`). The
sweeper is `ListExpired`, `GetConversion`, `DeleteConversion`, `UnindexConversion`. Every
Redis command is a step and can fail with or without effect. Time is three events:
`ExposureExpires`, `ConversionDue`, `ConversionExpires`.

### Targeting, TargetingRoundTrip and Decide

A comparison is one token; literals are classes of values that tell apart what
`CompareValues` tells apart. `EvalNode` returns yes, no or error; `FormatNode` prints with
parentheses by precedence; `ParseOr`, `ParseAnd`, `ParseUnary`, `ParsePrimary` are the parser.
The lexer and escapes are reduced to one fact: strings that `strconv.Quote` escapes in a way
the lexer does not know come back as other strings (`printable`). `TargetingRoundTrip` is the
panel around them: `FormatTargeting` shows the stored tree, `ParseTargeting` stores what a client
sends back.
`Decide` splits a request at its three reads of the reader (`GetSnapshot`, `FindFlag`,
`FindExperiment`), each with its own refresh on a miss, against the three stores of
`Reader.store`. `SelectVariant` is the walk over the cumulated weights; the hash that gives the
position is a constant. `Evaluate` offers the decision to the bounded channel; `ShutdownServer`,
`StopReturns` are the end of the process. Whether a targeting expression matches is the constant
operator `Matches` of `Decide`, which the configurations give the value `TargetingMatch` of
`Targeting`: so the theorems about `Decide` hold for any evaluation.

### Accounts, ApproverGroups

Every read, write and Redis command of a user handler is a step: `Authorize` (the session in
Redis and the role in its claims), `GetTarget`, `CountAdmins`, `WriteAccount`, `ScanSessions`,
`DeleteSessions`; `GetCredentials`, `StoreSession` for a login; `CountUsers`, `CreateUser` for the
first start. Two of the four roles are kept, admin and one that is not.
The group handlers run in transactions at READ COMMITTED: `UpdateRow`, `CountForUpdate`,
`CommitUpdate`, and `DeleteMember`, `ReadThreshold`, `CountForRemoval`, `CommitRemoval`. A statement
sees what is committed when it starts; only row locks block.

### Idempotency, OutboxDelivery

A post with a key looks it up (`LookupMisses`, `LookupConflicts`, `LookupReplays`,
`LookupFails`), runs (`RunSucceeds`, `RunRefuses`) and stores its answer with `SET NX` (`Store`).
There is no reservation before the run.
A publisher claims the oldest due row nobody has locked (`Claim`), writes it, creates the
topic when it is unknown, and marks it. `AfterFailure` counts an attempt; a row is dead after
`MaxTries`. `RelayRollsBack` loses the mark of a row that may be in Kafka already. `GivenUpLast` says
that no row is given up before it is in Kafka or has failed as often as the code allows
(proved, `OutboxKeepsRows`).
`PanelScenarios` are an admin or an empty database, and sessions with the roles of their users.

## 3. Runs

| Run | Bounds | Shows |
| --- | --- | --- |
| `lifecycle_launched` | 1 experiment, a draft with variants (lock 7), approved or paused by hand (lock 6), 2 requests in flight, 2 versions, 2 sets of variants, lock up to 9, client versions up to 2 ahead; about 710,000 states | `LockMeansFresh`, `VersionCountsMutations`, `GuardrailHeld`, `DecisionMatchesStatus`, `AuditCurrent`, `DefaultMovedByActive`, `FilledVersionStable`, `StatusFollowsGraph`, `RunningVersionHeld` |
| `lifecycle_flag` | 2 approved experiments of one flag, 2 requests, lock up to 8 | `OneActivePerFlag`, `ImplementsLease` |
| `lifecycle_review` | from an empty table, 1 experiment of an admin, 2 requests, 2 versions, 2 approvers and the admin, threshold 2, lock up to 5; about 940,000 states | `ApprovalQuorum`, `ClosedReviewFinal`, `ApprovedHasReview` |
| `lifecycle_guardrail_override` | as launched, 1 version | `GuardrailNeedsAdmin` is violated |
| `lifecycle_version_race` | 1 approved experiment, 2 requests, 2 versions, lock up to 7 | `RunningVersionFixed` is violated |
| `lifecycle_unreviewed_launch` | 1 experiment, 1 request at a time, 2 versions | `LaunchedVersionReviewed` is violated |
| `lifecycle_lost_approval` | the same | `ApprovalReachesExperiment` is violated |
| `snapshot_convergence` | 1 runtime, channel of 1, 1 change of each table, 2 revisions, 1 fault | `SettledRedis`, `RevisionIsStored`, `MemoryIsStored`, `RevisionConverges` |
| `snapshot_torn` | 1 runtime, 3 revisions, no fault | `WholeSnapshot` is violated |
| `analytics_pipeline` | 10 scenarios: 3 ids (one invalid, poison), 2 bodies, 2 batches, 5 workers (2 deduplicating replicas), 2 attempts, a memory of 1 id, batches of 2 rows, 2 revisions, a channel of 1, at most 2 failures; about 90,000 states | `OneBodyPerKey`, `AcknowledgedIsPublished`, `DedupedOnce`, `ImplementsDelivery`, `RowsKept`, `ExposureUsedOnce`, `OneVerdict`, `ConversionAccounted`, `RevisionIsLowerBound`, `DecisionsWritten`, `EventsArrive` |
| `attribution_expiry` | as `analytics_pipeline` | `ExpiredAreWritten` is violated |
| `panel_administration` | 141 scenarios: every pair of 8 calls on accounts with a login, two first starts, groups with 3 changes, a demotion against an addition, 4 posts with 2 keys, 2 publishers with 2 rows of which the broker refuses one, 2 tries, at most 2 failures; beside them 786 targeting expressions, two operators deep, and 36 subjects; about 140,000 states | `AdminRemains`, `SessionRoleFresh`, `GroupHasQuorum`, `ReplaySameAnswer`, `RoundTripKeepsMatch`, `OutboxDelivered` |

Why the bounds suffice. Two requests are enough for one stale read, and every hazard of the
lifecycle is one read against one commit. The launched run starts where Create, SetVariants and
updates of the draft end, and leaves two commits more: the submission and the variants that race it;
or where an admin's approval, or a start and a pause after it, end, and leaves three: start,
rollback or pause, and completion or a new version; a version, its variants and a completion; a
resume, a guardrail pause and a resume. The launched and the review run look at nothing after the
deletion of the flag (`CONSTRAINT FlagStays`): it changes no experiment and only refuses requests,
and `lifecycle_flag` goes on after it. Two versions are an old and a current one. A client version
two ahead of the row is matched after a resume and a guardrail pause, which is what it takes to
outwit the guardrail mark. Client versions ahead of the row are left to the launched run (`MaxAhead`
is 0 in the others): a transition that commits from the same status commits the same edge. The
review run needs five commits for a second version after a submission and for its variants
(creation, variants, submission, version, variants), and for an approval that meets a rejection or a
reset. Three properties name the interleaving that breaks the rule they are about and hold in every
other: `GuardrailHeld` (`CommitsAhead`: the request that commits sent a version ahead of the row it
read), `StatusFollowsGraph` and `RunningVersionHeld` (`Overtaken`: a version is created of a row
that has moved since it was read; a stale `resetToDraft`, at `experiments/repository.go:425`, may
meet a row in any status). The guardrail rule and the version rule without their exceptions are
`lifecycle_guardrail_override` and `lifecycle_version_race`. Two revisions are the bootstrap refresh
and one that overlaps a change; a channel of one is full as soon as two changes meet.

In the pipeline, two requests with two keys in opposite order are the smallest competition
for claims; two copies of one event with another between them overflow a memory of one id,
so the table decides; two replicas race for one row of it. Two consumers with one poison
message between two rows show every overlap of flush and commit; two conversions and one
exposure, and one conversion and two exposures, are the orders of one decision. Two failures
allow the failure of a repetition (two attempts). The expressions are all combinations, two
operators deep, of six leaves that differ in type rule, which contains every pair of parent
and child the formatter distinguishes. In the panel, a hazard of accounts is two calls, and
the third is the login whose session must not survive; a group change is endangered by one or
two others; a record of a key is endangered by three posts and its expiry; a row of the outbox
by an older row that is refused for ever, and by the rollback of another publisher.

Symmetry (requests, experiments, approvers) is used in safety runs.

Deadlock is not checked: with bounded counters and requests, an archived experiment of
a deleted flag, or a runtime whose snapshot is current, has nothing left to do.

Fairness of `snapshot_convergence`: weak fairness of the worker, of a handler that
has committed, of the ticker of the poll and of a running goroutine - each is a
goroutine the Go scheduler runs. No fairness of Kafka deliveries, requests, restarts or
failures; failures are bounded by `MaxFaults`, as no code path retries for ever.
Fairness of `analytics_pipeline` (`PipelineFairness`): the loop of every consumer and of every
ClickHouse consumer, goroutines of a process that is restarted when it dies; none of requests,
expiry or failures. Fairness of `panel_administration` (`PanelFairness`): a publisher polls on a
ticker (`outbox.Publisher.Run`), and the time of a back-off passes. Since the budget of failures
is finite, both describe a system in which faults cease for long enough; `EventsArrive` and
`OutboxDelivered` say what has then arrived, and which events a fault has already cost.

## 4. Findings

Each is a `violation` run whose counterexample the code follows line by line.

1. `CreateVersion` decides on an unlocked read and resets or replaces the version of
   an experiment that a concurrent `Start` has put in running.
2. A version created while its experiment is in review is approved and launched by the
   review of the version before it.
3. A review closes as approved in one transaction; when the one that moves the
   experiment fails, the experiment stays in review and the review takes no more votes.
4. Two goroutines that store a snapshot at once leave the newest revision with the
   flags or experiments of an older one, and no poll repairs it.
5. An owner resumes an experiment that a guardrail has paused, with a version ahead of the row:
   the handler saw an unmarked pause, an admin resumed, a guardrail paused, and the transaction
   finds the status and the version it was told to expect.
6. An expired conversion is not written: the key of a pending conversion lives until the time it is
   listed under, and the sweep that follows finds the entry and no key.

Observed while modelling, visible in the modules, and not a run of their own:

* An experiment approved before its flag was deleted can be started on the deleted flag: `Delete`
  looks for active experiments (`flags/repository.go:380-412`), `transition` never reads `deleted_at`
  (`experiments/service.go:385`).
* The snapshot and its revision can disagree in both directions after a failed write; a revision
  without its snapshot lasts until the next refresh that succeeds, and meanwhile every poll of every
  runtime loads a snapshot it already has (`RevisionIsStored`, `RevisionConverges`).
* A conversion that comes before its exposure is never joined with it: the registry does
  not look at pending conversions (`attribution/attributor.go:100`); if the sweeper still finds
  its key it writes it without an experiment (`sweeper.go:77`). `README.md:150` reads as if an exposure
  within the window were enough.
* A missing attribute excludes a subject (`README.md:72`), except below `NOT` and in `NOT IN`, where
  the evaluation of the missing attribute is `no` and its negation matches (`Absent`, `EvalIn`).
* Two posts with the same `Idempotency-Key` that overlap both run their handler; what is
  guaranteed, and checked, is that later replays agree (`ReplaySameAnswer`).
* Two admins who demote or delete each other at the same time leave none (`miscounted`), and
  the first start cannot repair it: it only acts on an empty table (`CountUsers`).
* A member of an approver group stays in it when the user's role changes (`InsertMember` checks
  the role, nothing removes the row afterwards).
* Messages of events are keyed by their decision (`EventPartitionKey`, `events/model.go:187`) and
  those of exposures by their experiment (`events/service.go:387`; `docs/openapi/analytics.yaml:87`
  says "for partitioning"), but every writer uses `kafka.LeastBytes` (`pkg/database/kafka.go:85`,
  `:113`), which spreads messages without regard to the key. With two replicas two conversions of
  one decision can then be attributed to one exposure (`attribution/attributor.go:100`): with two
  attributors `ExposureUsedOnce` is violated. The run has one, as one process has; the theorem
  `ExposureOnce` states the condition that a partitioning by decision would give.
* With an exposure already registered, `SET NX` answers nil, which the store returns as an error:
  a second exposure of a decision is repeated and dead-lettered (`RegisterExposure`).

## 5. Proofs

TLAPS checks each theorem for every value of the constants that satisfies the named
assumptions of the modules: any number of experiments, requests, replicas, consumers, users,
messages and failures. Each safety theorem follows from an inductive invariant, of which the
property is a part or a consequence; one lemma per action or group of actions shows that
the invariant survives it. The invariants were run through TLC before they were proved.

### Experiments, versions, reviews

`LifecycleAssumption`: `FlagOf` and `OwnerOf` are functions, the sets of users are sets of
users, the bounds are positive.

* `TypeCorrect`. `TypeOK` alone is not inductive: a step of a request copies what it read into
  the row and into its next step. `TypeInv` adds `RowExists` (a row that exists has a current
  version, one that does not has no review) and `RequestsBehind` (a request names an experiment
  whose row exists, and has seen no version above the row's; what its client sent may be).
* `FlagExclusive`, `LockCounts`. Every commit is a `RowCommit`: it touches one row, moves its lock
  by one, and makes it active only if it was, or if `FlagFree` holds in that state (the unique
  index). The unlocked count contributes nothing to the argument.
* `LockFresh`, from `FreshInv`: a request about to commit holds the row's status, and clears the mark
  the row has if it resumes, whenever the row version it has seen is still the row's. A read
  establishes it; a commit of another request preserves it because the row's lock has moved past
  the value seen. A client version that matches at the commit and is not ahead of the one seen is
  that one; of a client version that is ahead nothing can be said, and `LockMeansFresh` does not.
* `LeaseImplemented`: the lifecycle implements `FlagLease` under the mapping of
  `ExperimentLifecycleRefinement`. A commit that makes an experiment active takes the lease of a
  free flag, one that ends its activity gives it back, every other step stutters; `HolderKnown`
  says that the holder the mapping computes is the one active experiment, by `OneActivePerFlag`.
* `AuditTells`, `DecisionMatches`, `ReviewedBeforeRun`, `QuorumHolds`, `ReviewFinal`,
  `GuardrailHolds`, `VariantsStable`, `DefaultFollowsActive`, from `ReviewInv`. Its core is `Sound`,
  what a request in flight still knows: the edge it is about to take (`CommitSound`), that an
  approval behind it stands (`TargetSound`), that a resume saw the guardrail mark of the row, and an
  admin asked for it, if the row version it has seen is still the row's (`MarkSound`), that a
  version about to be created follows a status read at the version the client sent (`NewSound`),
  that variants about to be stored belong to a draft or to a version without any (`FillSound`).
  Steps are summed up by the relations they all satisfy: `Moved` with `MayMove`, `RowsKept` (where
  the lock stands still, so do the status, the mark and the variants), `ClosedKept`.
* `GuardrailHolds`, `GraphFollowed`, `RunningStays` have no hypothesis. The rules they are about are
  false of the code when requests overlap (findings 1 and 5), and each of the properties names the
  one step that breaks its rule: `CommitsAhead`, a resume whose client version is ahead of the row
  that was read, and `Overtaken`, a version created of a row that has moved since it was read. That
  there is no other is what is proved: by `MarkSound` for the first, by `NewSound`
  (`CreateVersionFresh`) for the second, and by `FillSound` for variants that were accepted in draft
  and arrive late. Where handlers compared the version with the row they read, as `CreateVersion`
  does, and `Repository.CreateVersion` compared it again, both exceptions would be empty.

### Snapshots

`DistributionAssumption`: the channel has room for one request.

* `DistributionTypes`; `RevisionStored`, `MemoryStored` from `StoredInv`. The revision key may be ahead
  of the stored snapshot, but only while no refresh has succeeded since one failed between its
  two writes: a refresh in order stores the snapshot of its own revision first. The stored snapshot only
  gets newer (`WorkerInOrder`: the one about to be stored carries the latest stamp), and every
  copy - published, fetched, in a memory - was the stored one before (`CopiesStored`).
* `RedisSettled`, from `ReadsCurrent`: once every change is requested and every request taken, what
  the worker has read, and what it has stored, is what the database holds. It survives a
  dropped request because the channel that dropped it is not empty, and a change after a read
  because the handler of that change has yet to ask for a refresh.

### Panel: accounts, groups, idempotency, outbox

* `AdminAlwaysRemains`, `RolesFresh` (`UsersFinite`). `LocalInv` says of every call what its reads
  still entitle it to: the target is what was read unless `stale`; before the write that
  removes an admin there is another admin unless `stale` or `outrun` (that is where the count
  of two enters, by cardinality). `SessionsKnown`: a session belongs to a user who exists. A
  role change then either still has its scan ahead, or holds the sessions it found, or the
  user is excused.
* `QuorumStays` (`UsersFinite`), from `Sound`: what a transaction nobody has overtaken has read is
  still so - the threshold is the row's and the members it counted are still enough;
  additions only help. `MembersOfGroups` makes a removal find its group.
* `ReplaysAreOne` (`NothingAssumption`): a record names a post that ran with its body and will not
  change (`RecordsRan`); a replay of the present epoch names the record's post
  (`ReplaysCurrent`). `SET NX` keeps the record within an epoch, epochs only grow.
* `OutboxKeepsRows`, from `RelayInv`: a row marked published is with the broker, a dead one has
  failed as often as the code allows, whatever several publishers claim, lose and roll back.
* `PanelImplements`: every step of `PanelSpec` is a step of each component or leaves its
  variables alone. `PanelSafe` carries the theorems above over to the composition; `PanelTypes`.

### Event pipeline

* `OneBody` (`IntakeAssumption`), from `BodyOK`: while a key is protected, at most one request
  holds its claim, nothing is published under it before that request does, and whatever is
  claimed or published has the hash of the row. `ReplaceLapsed`: `ReplaceKey` is only reached
  with a row that has expired, which is what makes the `UPDATE` harmless.
* `AcknowledgedArrives`, from `AckInv`: a row speaks for an event that is published, claimed or
  given up (`SettledKey`), and every answer but a rejection rests on such a row, or on the
  request's own former claim.
* `DeduplicatedTopic` (`ConsumerAssumption`): the table is the arbiter. `RowsCoverTopic`: every id
  in the topic has its row. `ForwardersOwn`: an id about to be forwarded has its row, is not in
  the topic, and is in one replica's hands. The bounded memory contributes nothing to the
  argument, and neither does its size.
* `NothingVanishes`: an id in the memory or in the table is in the topic, in the hands of a
  replica, dead-lettered, or on record as `lost` or `silenced`.
* `NothingUnread`, from `ValidatedInv`: an event whose offset the validator has committed is passed on,
  dead-lettered, with a worker or `lost`. The offset is committed before the event is handled, and
  even when it is not handed over at all (`ReadMessageFails`), so it is the record of the losses that
  makes this true, not the offset: the theorem says that the recorded ways are the only ones.
* `RowsStay` (`Ids \subseteq Rows`), from `ConsumerOK`. The rows a consumer has not committed are a
  suffix of what it has appended (`UncommittedOK`), each is in the buffer of its kind, in
  somebody's flush or stored (`RowsHeld`); a flush that has passed the consumer's own buffer has
  stored them (`FlushDone`), and what it holds of other kinds counts as `taken` (`SendingOK`). A
  commit then commits only what is stored or taken (`CommittedSafe`).
* `DecidedOnReported`, `EveryDecisionWritten` (`DecideAssumption`): goroutines that did not overlap
  have stored the parts of a snapshot in the order of `Reader.store` (`PartsInOrder`: flags,
  experiments, revision), and a request reads them in the opposite order (`ReadInOrder`). A
  decision is in the channel, in Kafka or on record as dropped (`AnswersInv`). `Matches` is any
  operator, so neither theorem depends on the targeting language.
* `VerdictIsOne`, `NoConversionVanishes` (`AttributionAssumption`), from `AttributionInv`.
  `HandsInv`: an event is in the hands of one attributor, after it was read. `VerdictInv`: once it
  has a row or a pending key it is in nobody's hands, or past the step that wrote it. `TraceInv`:
  between two steps it has left a trace. "Written" is handed to the shared writer, whose buffer
  `RowsKept` is about; an expired key is on record as `forgotten`, which is finding 6 and not a
  promise kept. The event is in the topic once, which is what deduplication promises.
* `ExposureOnce`, from `ChanceInv`: attributions to a decision never exceed the registrations of
  its exposure, and while the key is there one registration is to spare - as long as the
  conversions of a decision are in one attributor's hands at a time. `ExposureOnceAlone`: with
  one attributor they always are.
* `PipelineImplements`: `PipelineSpec` implements the specification of each component, under
  no assumption but those on the constants. Every component is seen through a view (`IntakeView`,
  `DedupView`, `IngestView`, `DecideView`, `AttributionView`): it makes a step of its own, or its
  surroundings make one its specification allows. One lemma per group of actions gives its
  `Effect` on topics, offsets and the writer, another the five views of it; a crash is a step of
  all four parts of the process at once. What attribution assumes of the topics it reads
  (`TopicsFed`: an event once, exposures that name a decision) is not in its view but follows
  from the others: from `DeduplicatedTopic`, and from `NamedInv`, which follows an item from the
  request through its claim to the topic.
* `EventsAccounted`: `NoEventVanishes`, the safety half of `EventsArrive`, across three consumers
  that commit by different rules. `NothingUnread`, `NothingVanishes` and `RowsStay` each account for
  what one stage has read, failed commits included; `ReadOrAhead` says that a topic holds nothing
  but what its reader has read or has yet to read; `StagesMeet` lays the accounts end to end. What
  closes the gap between two stages is the assumption in `Elsewhere` that others only append to a
  topic, which `PipelineImplements` discharges.
* `EventsDelivered`: the pipeline implements `EventDelivery`, once for events (`EventWay`) and once
  for exposures (`ExposureWay`), which skip the first two consumers. The mapping computes from
  topics, offsets, workers, buffers and flushes what is under way, and from the ghost variables
  of the losses what was released. The one hypothesis is that the consumers of both topics run,
  as `StartPipeline` starts them. In every state what is under way has come from a topic, and what
  a topic holds is under way, stored or released (`EventsPlaced`, `ExposuresPlaced`): the second half is
  `StagesMeet`, the first needs `HandsHoldTopics` (a worker holds what it has read from its own topic)
  and `RowsHoldTopics` (a buffer or a flush holds rows of its own topic, though one writer serves
  all). A step of the intake is an `Accept` (`AcceptStep`: what it appends is ahead of a reader, as no
  offset is beyond the end). Every other step is a `Progress`: it writes neither of the two
  topics (`OthersForward`), it passes on only what is in hand, so that the three topics together
  hold what they held (`NothingNew`), and the record grows (`RecordsGrow`). A crash that takes a
  consumer back to its committed offset is no exception: what comes under way again was stored
  or released. `DeliveryLosesNothing`: what the abstract specification allows loses nothing.
* `PipelineSafe`: the nine properties above hold of the pipeline. `PipelineUsesExposureOnce`:
  so does `ExposureUsedOnce` with one attributor. `PipelineTypes`: types of the whole, where the
  bound of the memory of a replica needs the shape of the jobs.

### What the proofs found

Attempts that failed for a reason changed the model: the `CASE` of `Outcome` (`ExperimentLifecycle`)
had two arms that overlapped; `TakeBuffer` is now one expression per variable, for a flush of any
kind; the components' specifications started with an empty log where their surroundings may have
written before; and `ExposureUsedOnce` turned out to need one attributor, which led to the
observation about `LeastBytes` above.

### Only model-checked, and assumed

Liveness (`RevisionConverges`, `EventsArrive`, `OutboxDelivered`): TLAPS reasons neither about
fairness nor about `ENABLED`. `RoundTripKeepsMatch`: the operators of `Targeting` recurse over data,
for which the provers have no induction. The six properties of section 4 are false of the code.

Assumed, not proved: that a PostgreSQL statement, or a transaction with a row lock, is atomic
at the isolation level used; that the unique indices hold (`migrations/00004_experiments.sql` for
the active experiment of a flag); that Redis commands are atomic; that a Kafka partition is a log.

## 6. Not modelled

* Metrics catalogue and query language, reports: CRUD of single rows, a compiler from text to
  SQL text and read-only queries. No state to interleave; the compiler's meaning would be the
  semantics of ClickHouse.
* Process plumbing (configuration, connections, logging, response envelopes, wiring) and tools.
* Avatars and e-mail changes of users: the code accepts the loss of a picture; an e-mail
  takes no part in a decision.
* Of reviews: comments, the group of an experimenter, archived groups, `GetRule` - single
  statements. The approvers and the threshold are constants of `ExperimentLifecycle`.
* Of flags: creation and the validation of typed values. Lists and reads of single rows
  everywhere.
* Of the snapshot reader: the age of a snapshot (`degraded`), which is a comparison of clocks.
* The audit table beyond its last record; it is append-only by a trigger outside `src/` code.
* Configurations in which two of the groups for pipeline, ingest and attribution are the same
  (an empty group id falls back on another one, `ingest/pipeline.go:50-63`): two consumers of
  one topic would then share its messages. The defaults are three groups.
* Partitions of a topic, except that messages that meet in one partition meet in the log.

## 7. Plan

Done: the experiment aggregate with reviews and flags; the distribution of snapshots; the
event pipeline with intake, consumers, deduplication, writer and attribution; decisions and
targeting; accounts, groups, idempotency and outbox.

Proved: every safety property the passing runs check, but for `RoundTripKeepsMatch`; both
compositions; and the refinement of `EventDelivery`, twice, by the pipeline. `NoEventVanishes`,
`ReadIsValidated` and `PassedIsForwarded` are in no run: the run checks `ImplementsDelivery`, which
says of every step what `NoEventVanishes` says of every state.

Next, in this order:

1. The rule of a review taken from `ApproverGroups` instead of constants, so that a group that
   changes while a review is open meets the votes already given.
2. Two panels: two refreshers with clocks of their own writing one Redis key.
3. The decisions as a third instance of `EventDelivery`, from the answer of the runtime to the
   attribution that needs them: the outbox of an exposure is where that way joins the other two.
