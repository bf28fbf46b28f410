# Content-Factory in TLA+

Specifications of the parts of `src/apps/api` that decide something while other
things happen: the job queue of the execution plane, the outbox relay that carries
its results, the writeback that moves workflow stages with them, the workflow
runs those stages belong to, and the services around this core that decide on rows
somebody else may be changing. TLC checks every module on small instances; TLAPS
proves the safety properties of the passing runs for every value of the constants.

`PROJECT.json` lists the runs, the theorems, the hazards each property is for, and,
under `map`, the source lines each definition was translated from.

## 1. The system

Content-Factory is a content production service: a TypeScript API over PostgreSQL,
a web and a desktop front end. A **workflow definition** is a graph of stages. A
**workflow run** instantiates it for a content task: each activated stage becomes a
row of `stage_runs`. Stages carried out by an agent cause an **execution job**; a
worker claims it, calls a runtime adapter (an LLM, a publisher) and records the
result together with an event in the outbox. A **relay** delivers the event to a
handler, and the handler moves the stage to review. A reviewer approves the stage,
which activates its successors, or asks for a revision.

```
 user ──start/approve/revise──► WorkflowRunService, ReviewService ──► stage_runs, workflow_runs
                                      │ orchestrator, bridge                   ▲
                                      ▼                                        │ writeback
                               execution_jobs ──► ExecutionWorker ──► outbox_events ──► OutboxRelay
                                      ▲                │  ▲
                     operators, stale recovery         ▼  └─ runtime adapters, quota
                                             execution_results, publish_records
```

Everything shared is a database row; nothing is kept in memory between two requests
except timers. Transactions are READ COMMITTED and, with few exceptions, read a row
without a lock, decide, and write it by id. Hence the questions: what may have
changed between the read and the write, what a crash leaves between two commits, what
a second delivery does, who waits for whom.

### Components

| Component | State | Operations | What is hard | What makes it correct |
|---|---|---|---|---|
| Execution worker and job queue | `execution_jobs`, `execution_results`, `outbox_events`, calls in flight | create, claim, process (success, final failure, retry, exhausted), recoverStale, manual retry | cycles overlap; a lock may lapse under a live call; crashes between claim and outcome | one call per job, bounded attempts, no result refused, success final, every job settles |
| Publish records | `publish_records` | create, resend, withdraw, markPublishing / Published / Failed | driven by several jobs, left behind by crashes and retries | one publisher call per record, published means a result exists |
| Outbox relay | `processed_at`, `claim_expires_at` | claim, dispatch, manual processing, markProcessed, markFailed | redelivery by lapsed leases, operators and crashes; late failures | no event lost, none consumed twice, all processed at last |
| Workflow stage writeback | `execution_writebacks`, `stage_runs.status` | plan and skip, read and commit | unlocked read, two-commit skip, rival deliveries, users on the same stage | a settled ledger row is never revised; applied means moved once |
| Workflow runs, stages, orchestrator | `workflow_runs`, `stage_runs` | start, transition, retry, advance | orchestrator on another connection inside an open transaction; partial advance; row and pool queues | run and stages agree; agent stages reach execution; requests end |
| Reviews | `review_records`, asset status | approve, request revision | double approval, rollback after jobs were created | each approval makes exactly its successors |
| Workflow definitions | `workflow_definitions`, stages, dependencies | check a graph, create, activate | two UPDATEs of an activation against a partial unique index and other activations; a search for cycles written by hand | one active version; the check is exact |
| Content assets and versions | `content_assets`, `asset_versions` | create version, publish version | max + 1 and the search for a duplicate on an unlocked read; the pointer is moved by both operations | numbers without gaps, no content twice, pointer not behind |
| Provider quota | one ledger row per provider, key and day | check and consume | concurrent workers at the limit, calls that die after consuming, midnight | what is sent on a day's account stays within both limits |
| Audit log | `audit_events`, one chain per project | record, in the caller's transaction | the trigger's advisory lock is held to the commit and taken between row locks | the committed trail is one chain; who can deadlock |
| Knowledge base and context packs | sources, entries, packs with versions | archive and restore, search, materialise, refresh, resolve for a stage | every change refreshes the packs it touches in its own transaction, beside packs being made | a pack is what its search returns now, unless it was raced or edited |
| Runtime adapters | none but the quota | choose a runtime, pass its gates, invoke, classify the failure | three layers of gates (factory, policy, runtime); error types drive the retry | nothing leaves without every permission; refusals are not retried, but for those the ledger gives or a message disguises as timeouts |
| Result evaluation, cost settlement | evaluations, their jobs, settlements | evaluate by people, rules, a judge, models; regression timer; settle | batches without a transaction, jobs run in line or by a worker | one evaluation of a type, one call per job, one settlement per rate-card version |
| Registries: tasks, agent profiles, MCP servers, channels, installations, members | single rows with a status | create, patch, transition, revoke | read without lock, write by id; partial unique indexes | one live row per key, the trail ends at the row, a revocation happens once |
| Operations service | none of its own | manual retry, recovery, outbox batch; aggregates | a batch writes an event of its own | see queue and relay |
| Writeback prototypes, HTTP routes, dashboard and editor queries, WebSocket rooms, front ends, shared enums | – | reports, checks, mapping, reading, broadcasting | – | – |

## 2. Modules and the code they model

| Module | Models | Composition |
|---|---|---|
| `JobLifecycle` | what a job row promises: the matrix of `domain/execution/job-status.ts`, the attempt counter, the operators' override | abstract; implemented by `ExecutionJobs` |
| `ExecutionJobs` | `execution-worker.ts`, `execution-job.repository.ts`, `retry-policy.ts`, publish records, the mutating part of `execution-ops.service.ts` | `Lifecycle == INSTANCE JobLifecycle` |
| `EventConsumption` | what the outbox promises: each event consumed at most once, for good | abstract; implemented by `StageWriteback` |
| `OutboxRelay` | `outbox-relay.ts`, `outbox.repository.ts` | actions extended by `StageWriteback` |
| `StageWriteback` | `execution-writeback-executor.ts`, its repository, user transitions of the same stages | `EXTENDS OutboxRelay`, `Consumption == INSTANCE EventConsumption WITH settled <- …` |
| `WorkflowRuns` | `workflow-run.service.ts`, `review.service.ts`, `workflow-orchestrator.ts`, the execution bridge, `stage-run.repository.ts` | one run, its rows and every request on it |
| `ExecutionPipeline` | worker and relay side by side (`app.ts`): from a stage's job to the stage's next status | `Queue == INSTANCE ExecutionJobs`, `Delivery == INSTANCE StageWriteback`, joined by the outbox |
| `KnowledgePacks` | `knowledge.service.ts`, `context-pack.service.ts` | alone |
| `AssetVersions` | `asset.service.ts`, its domain and repository | alone |
| `AuditLog` | the triggers of migration 0003 and the transactions that audit | alone |
| `WorkflowDefinitions` | `domain/workflow/dag.ts`, `workflow-definition.service.ts` | alone |
| `ProviderQuota` | `provider-quota-enforcer.ts`, its ledger repository | alone |
| `RuntimeCalls` | the adapter factory, ten runtimes, `retry-policy.ts` | alone |
| `Registries` | seven services of administered rows | alone |
| `Evaluations` | `execution-result-evaluation.service.ts`, its repositories, cost settlement | alone |
| `MC…` | constants of the instances | `MCServices` joins the eight modules that stand alone |
| `…Proofs` | theorems | one for each of the first four components; `ContentProofs` (`AssetVersions`, `KnowledgePacks`), `LedgerProofs` (`AuditLog`, `Evaluations`, `ProviderQuota`), `AdministrationProofs` (`WorkflowDefinitions`, `Registries`, `RuntimeCalls`); `ServicesProofs` joins those three over `MCServices` |

An operator with a comment that begins with "Mutant:" is a plausible mistake in the
definition that follows it. No action uses it; put in that definition's place it breaks
the property `PROJECT.json` names with it.

### ExecutionJobs

A step is one committed transaction, or the death of the process that should have
committed one. `executing` holds the `process()` calls in flight, each with the
snapshot of the row that `claim` returned (`job`, `attempt`) and how far it is:
`preparing` (claimed, publish record not yet taken), `calling` (inside the adapter),
`blocked` (markPublishing matched no row).

- `Claim` is `claimNext` / `claimById`: due pending row, `attempt_count + 1`, event.
- `PreparePublisherRecord` is the worker's own short transaction before the call.
- `Succeed`, `FailForGood`, `FailAndRetry`, `FailExhausted` are the branches of
  `process()` after the call; each includes the result row, the outbox event and
  `markPublished` / `markFailed`. `Settle` writes the job **by id only**, as the code.
- `RecoverStale(S)` is one batch of `recoverStale`; `Stale(j)` says when the lock may
  be older than the timeout.
- `ManualRetry` is the operators' route; it keeps `attempt_count`.

Payloads, redaction, error texts and exact backoff times are abstracted: `backoff` says
only whether `next_run_at` lies ahead.

### OutboxRelay and StageWriteback

A slot is one dispatch in flight anywhere. `phase` runs from `handling` through `read`
(inside the handler's transaction) or `planned` (between the two commits of a skip) to
`handled` or `thrown`, after which the relay writes the row. Leases lapse at any time
(`LeaseExpires`), an operator's `ProcessEvent` ignores them, and `MarkFailed` writes
whatever the row holds by then. The handler's transaction is split at its read because
that read takes no lock; the rest of it is one step, since the ledger row's UNIQUE key
makes a rival wait. Users move the same stages in two steps (`BeginTransition`,
`CommitTransition`) for the same reason. `SubjectOf` gives each event its kind: about a
stage, of an unsupported subject, without subject, or of a type with a no-op handler.

### WorkflowRuns

One run. Runs of different tasks share no row, and runs of one task meet only in the
partial unique index that allows one active run per task, which is the guard of
`StartWorkflow`. A stage run is `<<stage, k>>`: the k-th row inserted for that stage.

A request `u` goes through `read` (decided on what it saw), `locked` (wrote the stage,
holds its row), `writing` (wrote the run, holds its row) and ends by committing. What it
inserted stays in `req[u].created` until then and nobody else sees it. `approvals` is a
history: what each approval was of and which rows it made; `again` keeps a second
approval of the same row apart from the first.

- `StartWorkflow` commits run and roots, then advances outside any transaction.
- `BeginApprove`, `LockStage`, `WriteSuccessors`, `SetRunning`, `RequestExecution`,
  `CommitApprove` are `approveReview` in its order. `SetRunning` and `RequestExecution`
  are two commits on **another connection**, as in the orchestrator: they need a free
  connection, they do not see `created`, and they survive a rollback.
- `RequestRevision` is a step, taken at the moment it gets the run's row; it reads
  nothing that decides anything.
- `BeginMove` … `CommitMove` are `transitionStageStatus` and `retryStage`;
  `BeginWriteback` … `CommitMove` is the handler of `StageWriteback` as this module sees
  it (the ledger and the relay are that module's business).
- `Abort` is a rollback, an error in the advance, or a crash.

Rows of revisions are never handed to the orchestrator, `dependency_type` and other
branches of the graph are not looked at by an approval: so the code, so the model.
Which of several new rows becomes `current_stage_run_id` depends on row order, hence
`current' \in …`. `retryWorkflow` and `transitionWorkflowStatus` are not modelled: the
first needs a failed run, only the second makes one, and nothing calls it. The status
of the reviewed asset, set in the same transactions, is left out: nothing decides on it.

### ExecutionPipeline

One stage and the one job its idempotency key allows. `Queue` and `Delivery` are whole
instances of the two modules over shared variables: a step is a step of one of them, and
the rows the relay may see (`inserted`) are those the queue's events have become, in the
same transaction. Three kinds of event matter to the relay and are numbered attempt by
attempt: `failed`, `success` and `lock_timeout`; the first two have the handler of stages,
the third, like the rest, one that does nothing. `outcome` is a history: `answered` when
a result settled the job, `recovered` when `recoverStale` failed it without one,
`overtaken` when a user put the stage running after the job was settled.

### The services beside the core

Each module splits a request where the code lets others in: at a read that takes no
lock, at a statement that waits for a row, at a commit. A transaction
nobody can see the middle of is one step.

- `KnowledgePacks`. Rows of sources and entries, packs as snapshots of a search: `ids`
  gives each entry found its place, and the search is cut at a limit. A change of the
  knowledge base commits together with the packs it refreshed. `raced` marks a pack whose
  own transaction, or the last change of the knowledge base since, ran beside another
  one; a change that runs alone clears it from all. `edited` marks a task whose packs a user has
  written by hand. Packs of one task share a sequence of version numbers, so a refresh may
  be refused by the unique key.
- `AssetVersions`. `adding` is what a request has decided to insert; the unique key on
  asset and number admits one of two rivals. Publishing is one step.
- `AuditLog`. Each kind of transaction is the list of what it writes, in the code's
  order: rows it locks and events. The first event takes the project's advisory lock,
  which lasts to the end. A set of transactions is deadlocked when each waits for
  another of them.
- `WorkflowDefinitions`. `validateDAG` as operators on a graph, and its recursive search as
  steps: `check` holds the colours, the stack of open calls and what the loop of each has
  still to follow. `StartFrom` is the outermost loop, `Follow` an iteration of a call's own
  (entering the next stage, closing a cycle or passing by), `Leave` its return. Stages and
  dependencies come in any order; the code takes the order of the request. Then the
  answer, or the creation of a draft; an activation as its two statements
  (`DeprecateActive`, then the target), each seeing what is committed when it starts.
- `ProviderQuota`. A call locks the row of its day, decides, writes, commits, sends. It
  may die anywhere, and midnight may come anywhere.
- `RuntimeCalls`. One job through its attempts: the worker's checks of the timeout and the
  credential, the runtime the factory picks, that runtime's own checks in order, the effect
  outside, the error type and the decision to retry. A check is a pair: what is asked for, and
  the answer when it is lacking; `Refusals` picks the first one a request fails. A
  request is its type, its credential, the set of what it `lacks`, and whether text of
  its own that a refusal quotes speaks of a timeout or a permission (`quoted`): error
  types are guessed from messages. `ledger` is what the budget's
  ledger does when it is asked: it may also throw or keep the call waiting past its timeout.
  `effects` and `verdicts` are histories. A publisher's job that names a record is
  blocked at its second attempt (`PreparePublisherRecord` in `ExecutionJobs`); this
  module lets it try again, which is more than the code does.
- `Registries`. Rows of seven tables under one shape (read, assert, write by id, audit)
  with the matrix, the checks and the unique index of each; `rtx` is a request's
  transaction with the lock it holds. Two operations insert a row of another service's
  table and do not audit it: `CreateOrganization` its owner, `InstallEntry` the server
  its endpoint lacks (`silent`); `unlogged` remembers those rows.
- `Evaluations`. Four kinds of evaluation, their jobs (claimed by the background worker
  or run in line) and the settlement of cost, statement by statement.

They share no row with each other that decides anything, so `MCServices` lets a behaviour
pick one of them (`focus`): the states of the run are the sum of the components' states.

## 3. Runs

| Run | Instance | Question |
|---|---|---|
| `jobs_lease` | 2 jobs (publisher with its own record, and another), 2 attempts, locks cover the runtime | Does the queue implement the job state machine, one call per job, within its attempts, and does every job settle? |
| `jobs_late` | 2 publisher jobs on one record, 2 and 1 attempts, locks may lapse | What is left when a worker commits after its job was recovered and run again? Unique result keys, one publisher call, a published record has a result. |
| `relay_writeback` | 3 events (no-op, unsupported, a stage's result), 2 dispatches, a user, 1 fault | Is each event consumed once, is none lost, and are all processed at last, whatever is redelivered? |
| `workflow_revision` | chain of 2 stages, the second with 2 rows, 2 requests, 1 fault | Do rows, approvals, run status and pointer agree through overlapping approvals, revisions, moves and rollbacks? |
| `workflow_progress` | the same chain, both stages agents, 1 row each, 2 requests, 1 fault | Do agent stages reach execution and do requests end? |
| `pipeline` | 1 attempt and 1 manual retry, locks may lapse, 2 calls, 1 dispatch, a user, 1 fault | Does a running stage get its answer, and if not, why not? |
| `services` | one of eight services at a time, 2 or 3 requests each | Does each service keep what it promises of its rows? |

Five more runs refute a statement the repository makes:

| Run | Statement | What happens |
|---|---|---|
| `jobs_success_final` | success and failed are final (`job-status.ts:8`) | a worker whose lock lapsed commits its failure over the success of the attempt that replaced it |
| `publisher_retry` | a retryable publisher failure leaves its record publishing, awaiting its end (runbook) | the retry finds the record not pending, is blocked by it, and the job fails for good with attempts left |
| `relay_unprocess` | on failure `processed_at` stays null (`outbox.ts:56`) | a dispatch that fails late sets it to null on a row another dispatch has processed |
| `writeback_overwrite` | the stage must be running or the writeback is skipped (runbook) | a transition committed after the unlocked read is overwritten, and the ledger says applied |
| `workflow_unseen` | an agent stage is advanced pending → running and executed (`workflow-orchestrator.ts:11`) | called inside the approval's open transaction, the orchestrator does not find the row: the job is created, the stage is committed pending, its result will be skipped |

### Bounds

- `Concurrency = 2`, `Slots = 2`, `Users = 1` or `2`: every race here is between two actors
  over one row; a third repeats the role of one of them.
- `MaxAttempts` 1 and 2, `ManualRetryBound = 1`: the last attempt, one before it, and the
  first attempt beyond the maximum.
- `Faults = 1` (`StageWriteback`, `WorkflowRuns`): one crash or error anywhere, and the
  recovery from it. In `ExecutionJobs` crashes are not bounded, attempts are.
- `Visits`: how many rows a stage may get. With two rows of the second stage an approval
  may overlap another approval of the same stage, or a revision. When the bound is
  reached `OutOfRoom` ends the approval; it exists for the bound only.
- `PoolSize = 3` with two requests: one connection to spare, so that a holder of a
  transaction can always get its second. With no spare one the model stops, as the
  code does when as many approvals as the pool has connections wait for one more
  (listed as a hazard at `infrastructure/db/client.ts:9`).
- Two results per stage, one failure and one success, in the runs that refute a statement
  about the relay: either order, either redelivered.
- `pipeline`: with lapsing locks, one attempt and one manual retry make two attempts that
  may overlap, hence six rows; either may answer the stage, late or after recovery.
- `services`: two requests, or three where a third changes who waits for whom (audit
  transactions, callers at a limit of two). 3 entries of 2 sources, 2 queries and a
  search cut at 2, so that an entry may push another out of a pack; packs up to version 2
  asked for by users, 3 requests in a behaviour; 3 contents for an asset; every graph
  over 3 keys, unknown keys and loops included, searched in every order, one check at a
  time; 3 versions of a definition, stored with small graphs, and no search beside an
  activation (a check reads no row, so their steps commute); a request
  limit of 2 and a cost limit of 5 at price 2, so that either may bind, over 2 days;
  every mode and policy with seven sets of registered adapters and each request that is
  complete, lacks one thing or fails at two layers, with quoted texts of each kind,
  2 attempts; 2 rows of any two tables, on one key; a rate-card version with two prices. Callers, evaluation requests and registry rows are symmetric;
  the run has no liveness property.
- `CHECK_DEADLOCK FALSE` everywhere: a queue with all jobs settled, an empty outbox and
  a run with nothing to review really are at rest. Waiting for one another is caught by the
  liveness properties instead, and by `OnlyReviewsDeadlock`.

The instances of `workflow_revision` are symmetric in the two requests; no liveness
property is checked under symmetry.

### Fairness

Only what the code schedules is fair. The worker's timer claims and recovers (`WF` of
claiming, and of recovery per job), time passes (`BackoffElapses`, `LeaseExpires`), a
call ends or its process dies, a dispatch goes on to its end or crashes. Users and
operators are never obliged to do anything. Claiming is weakly fair as a whole, not per
job: the poller takes the oldest (`created_at`) of the due rows that nobody has locked, so a
job may be passed over while it waits for its backoff.

In `WorkflowRuns` a request's own steps are **strongly** fair: a waiter for a row lock or
for a pooled connection is disabled whenever another holds it, and both queues are
served in order of arrival, so a waiter is not passed over for ever.

`pipeline` assumes the fairness of both its parts and nothing more. The services carry no
fairness: their requests are users' and no property of theirs needs one.

`EventuallyProcessed` is about events whose handler can succeed: one without a subject
throws at every delivery, without cap or backoff. `AgentsAreRequested` holds unless a
fault occurs; a crash between the commit of a start and its advance is not made good
by anything in the code. `StageAnswered` excepts what the code leaves unanswered: a job
failed by recovery, whose `lock_timeout` no handler turns into a stage's status, and a
stage put running when its job was settled already.

## 4. What is proved

All theorems hold for every set of jobs, records, events, stages, slots, users, requests
and rows, every graph and every policy, under the named assumptions `JobsAssumption`,
`RelayAssumption`, `WritebackAssumption`, `WorkflowAssumption`, `PipelineAssumption`,
`QuotaAssumption`, `DefinitionAssumption`, `KnowledgeAssumption`, `EvaluationAssumption` and
`RuntimeAssumption` (the other modules need none), which give the constants their types,
keep the "none" values apart from the real ones, and say what the code's own types or schemas do: a
dependency is a pair, an entry that is there at first has its source, a search asks for
at least one entry. TLC evaluates them in the runs.

**ExecutionJobsProofs.** `StepShape` reduces every action to what they do to the
job row, the calls and the ledger: create, open an attempt, close one, put back, or
recede. On it rest:

- `TypeCorrect`.
- `LedgerKeysAlwaysFresh`: the UNIQUE (job, attempt) key never refuses a result. Not
  inductive by itself; `KeysInv` adds that no attempt in flight or recorded exceeds its
  job's counter, so the one a claim opens is new. This needs no assumption on locks, and is
  why a manual retry must keep `attempt_count`.
- `ExecutionIsExclusive`, `AttemptsBounded`, `SuccessIsPublished`,
  `QueueImplementsLifecycle`, each `ASSUME LockCoversRuntime`. `BudgetInv` adds that a
  pending job has an attempt to spare; `PublicationInv` that while a job which shares
  its record with no other is in its call, the record stays publishing;
  the refinement maps each step to `Create`, `Start`, `Resolve`, `ManualRetry` or a
  stutter and uses exclusiveness for "the row a call settles is running".
- `AttemptsAlwaysBounded` (in every deployment): with lapsing locks an attempt below the
  maximum may be put back twice, once by recovery and once by its own late failure, so a
  job runs at most 2 · max − 1 times plus the manual retries. The invariant counts the
  events of the outbox, one of each kind per attempt.
- `PublisherCalledOnce` (in every deployment): a record that is absent or pending has
  not been called for, and nothing returns one to pending.
- `PublishedAlwaysHasResult` (in every deployment): the record and the result are
  written by one transaction and the ledger only grows.

**StageWritebackProofs.** `ConsumptionInv` joins `AppliedOnce` and
`ProcessedIsConsumed` to `HoldingInv`, which says what a dispatch carries from phase to
phase: inside the transaction the event is about a stage; between the two commits of a
skip the ledger row is planned or already skipped by a rival, never applied; and when
the handler has returned, its work is in the ledger. The last part is what makes
`markProcessed` safe. From it: `TypeCorrect`, `StageMovedOnce`, `NoEventLost`, and
`DeliveryImplementsConsumption` (relay and handler refine `EventConsumption`).

**WorkflowRunsProofs.** `RunInv` adds three facts to the two properties. `OwnRows`: what a
transaction has inserted is not visible, is one row per successor, and the stage it
approves exists. `RowsApart`: no two transactions hold the same row. `StartedFirst`:
nothing exists or is approved before the start. A commit publishes rows that were so
far nobody's, which is all `ActivatedByApproval` needs; an abort publishes none.
`TypeCorrect`, `ApprovalsActivate` and `RunFollowsStages` follow. The graph is arbitrary:
cycles and graphs without roots are included.

**ExecutionPipelineProofs.** `PipelineIsAQueue` and `PipelineIsADelivery`: every behaviour of
the pipeline is one of each part, so the theorems above hold of it as they stand.
`NoAnswerLost` rests on `AnswerInv`: when a result has settled the job and the stage is
still running, one of its rows is on its way: not settled in the ledger, and read as running by every
dispatch that is inside the handler's transaction with it. It takes the queue's `EventsInv` (a result has its
event), the delivery's `ConsumptionInv` (processed means settled in the ledger) and
`CleanInv` (nothing is planned for an event before it is committed), and `RowsInv` between
them (the relay's rows are the outbox's, and few enough).

**ContentProofs.** `AssetInv`: what a request is about to insert is the number after
one it has read, and while that number is free nothing was added since (`Still`), so its
search for a duplicate still holds. `ContentStoredOnce` and `PointerNotBehind` follow: the
one unique index protects the content and the pointer as well.

`KnowledgeInv` says what a transaction of the knowledge base carries while it is alone
(`PackTransactions`): a materialisation holds what the search returns now, and a refresh has, for
each latest pack, left it because it is right, replaced it, or still has it to do. Two
that are in flight together have both been marked as raced. With `EntriesHaveSources` (a
change that reads a row finds it) this gives `StaleOnlyIfRaced`, and from that
`StageContextCurrent`, since a pack that a search returns names no archived entry. The
first attempt failed, and was right to: the property then excused a pack only for a race of
its own transaction, but two overlapping changes may each find an *old* pack unaffected
by what they see and leave it behind together. That takes four requests, one more than
the run's bound. What the code does promise is what the property says now: such a pack is
behind until a change runs alone.

**LedgerProofs.** `ChainInv`: transactions that have audited form at most one, the holder
of the lock, and its rows continue the committed chain. `OnlyReviewsDeadlockHolds` orders
the writes (`Rank`: stage, run, asset, audit): every kind but the reviews writes in that
order, so along a chain of waits the rank of the next write grows, and there are four.

`EvaluationInv` adds to `OneEvaluationPerType` and `SettledOnce` that a job nobody has
taken has been claimed by nobody (`NotYetRun`: the one conditional UPDATE that takes it
counts), and that a request which inserts names a result and a job that are there
(`KnowsWhat`). `JobsRunOnce` follows from the first.

`QuotaInv`: the ledger covers what was sent and what is about to be
(`Covered`), it is within the limits (`Within`), and who has read it holds its lock
(`Holding`). Only the last makes the check valid when it is written.

**AdministrationProofs.** `SearchInv` is what makes the search of `validateDAG` right. The
gray stages are the stack and each is downstream of those below it (`StackIsPath`), hence
a dependency back into the stack closes a cycle, and all from there on up are on it. A
stage is left only when all that follows it has been left (`LeftInOrder`), so that in any
set of stages left the last one follows none of the others. What a loop has followed is
done or is the call above (`LoopsFollow`). `ValidationExact` follows without an
induction over the graph: *downstream* is stated by closed sets, a cycle is a set of stages
each of which follows one of its own, and so is the set of stages that no first stage leads
to; when all stages have been left, neither can exist. Stages and dependencies may come in
any order, so the answer does not depend on the order of the request.

`IndexInv`: at most one activation has raised its target, and while it has, no version is
active but the ones it lowers; a rival's second statement waits for it.

`RegistryInv`: what a request that writes may rely on until it commits (`Held`: nobody
else makes a row of its key live, a membership it revokes is active, and rows it inserts
without an audit are not there yet), and that two of them write different rows, which would
not both be live under one key (`Apart`). A row that is not there has no audit (`NoAuditYet`),
so one that begins without has none until its first change. Seven tables
reduce to three shapes of step (`RegistryStepShape`): read, write, end.

`RuntimeInv`: a claim in progress is within the attempts and one that is outside has its
runtime. The rest is about the gates: a refusal is the verdict of the first check a request
fails (`RefusalsSound`), and every check of every list either answers with a final verdict or is
one of those asked again (`AskedAgain`: the ledger's three, the timeout's, and a scope or action
that speaks of a timeout); a runtime all of whose checks pass has
every permission its effect needs.

**ServicesProofs.** The run `services` is a behaviour of each of its eight services, so
everything above holds of it: `ServicesTypeCorrect`, `ServicesKeepTheirPromises`.

### Only model-checked

Every invariant, action property and refinement of a passing run is stated by a theorem.
What is left is liveness (`JobSettles`, `EventuallyProcessed`, `AgentsAreRequested`,
`RequestsFinish`, `StageAnswered`): it needs ENABLED and fairness, out of the prover's reach.
That the search of a graph ends is not stated: `validateDAG` is synchronous code without
waits, and what is asked of it is its answer.

## 5. What is not modelled

- Read-only services: dashboards, editor queries, the aggregates of the operations service,
  preflight and readiness reports, scores and trends of evaluations.
- HTTP routes, mappers and schemas, the permission table in front of the services.
- The inside of a runtime's call: secret resolvers, redaction, parsing. Any answer is
  possible; `RuntimeCalls` models what comes before and what is made of an error.
- Semantic search; the tools of an installed server; mock sessions. Organisations:
  inserted with their owner, who is modelled, and never changed.
- Evaluation jobs of cross-model runs with `max_attempts` above 1, and an operator's manual
  retry of an evaluation job: either runs such a job again, as `ExecutionJobs` says of
  every job. `JobsRunOnce` is about jobs of one attempt that no operator touches.
- The status of a reviewed asset: written by reviews and read by people.
- Writeback prototypes: dry runs that answer "blocked".
- WebSocket rooms: broadcasts to whoever is connected, nothing kept.
- Front ends, web and desktop: user interface over the routes. Together with routes,
  schemas and read-only services they are most of the repository's lines.
- `retry_count` and `error` of outbox rows, which nothing reads; lock owner names; exact times.

## 6. Plan

Written, in this order: the queue, since everything depends on it; relay and writeback;
runs and reviews; the services beside them; the pipeline that joins queue and writeback.
To come:

1. `StageWriteback` as the writeback actions of `WorkflowRuns`: a refinement between the two
   views of a stage run.
2. The pipeline with two dispatches, and with a publisher's job, whose record outlives it.
3. The readiness report of a deployment (production preflight) against `RuntimeCalls`: does
   "ready" mean that a call passes the gates?
4. Proofs: the refinement of item 1; `OnlyReviewsDeadlock` sharpened to the pairs of
   transactions that can block each other; the facts about single steps that the liveness
   properties rest on, so that only fairness is left to the runs.
