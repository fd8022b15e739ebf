# A TLA+ model of the bulk action platform

The platform applies one action (update fields, delete) to many CRM entities of an account.
A request is stored and answered at once; workers then cut the target set into batches, apply
them concurrently under a per-account rate limit, and keep counters, an audit log and a live
progress stream. This directory models that machinery in TLA+, checks it with TLC on small
instances and proves the central invariants with TLAPS for all instances.

Paths below are relative to `app/` of the repository.

## 1. The system

| Component | State | Operations | Interacts through |
|---|---|---|---|
| Submission, cancellation (`services/bulk_action_service.py`, `core/db.py`) | the `bulk_actions` row, its idempotency key | `create_bulk_action`, `cancel_bulk_action` | the request session commits after the handler; enqueues `plan_bulk_action` before that; unique constraint on (account, key); submission limiter |
| Validation (`domain/entities/`, `domain/actions/`, `domain/filters.py`) | static registries | `validate_updates`, `validate_config`, `validate_filter` | called by submission; the filter is compiled again by planner and batch job |
| Planner (`workers/tasks.py`, `services/batching.py`) | `bulk_action_batches` rows, totals of the action | `plan_bulk_action`: keyset walk or id chunks, `flush`, totals, `fail_action` | inserts rows, enqueues one `process_batch` per row |
| Batch job (`workers/tasks.py`, `services/batch_runner.py`) | status and tallies of a batch, log rows, entity rows | `process_batch`, `run_batch`, `_mark_batch_failed` | rate limiter, dedup ledger, counters, queue, pub/sub |
| Progress (`services/progress.py`, `models/enums.py`) | counters and status of the action | `mark_started`, `record_batch_completion`, `finalize_if_complete`, `fail_action`, `publish_progress` | atomic UPDATEs with conditions on the status |
| De-duplication (`services/dedup.py`) | `bulk_action_dedup` | claim keys by `INSERT ... ON CONFLICT DO NOTHING RETURNING` | inside the batch transaction |
| Handlers (`domain/actions/`) | entity rows | `execute` of bulk update and bulk delete | inside the batch transaction |
| Row selection (`domain/filters.py`) | none | `selection_clause`, `load_batch_rows` | planner and batch job |
| Job queue (arq, external; `workers/worker.py`) | jobs, tries, kept results | enqueue by unique id, deliver, deliver again after a crash, expire results | Redis |
| Rate limiter (`services/rate_limiter.py`) | a token bucket per account in Redis | `consume` and its Lua script | the caller's clock |
| Accounts API (`api/routes/crm.py`) | `rate_limit_per_minute` | PATCH | read by submission and by every batch job |
| Progress stream (`api/routes/bulk_actions.py`) | one subscription per client | `stream_progress` | Redis pub/sub, which keeps nothing |
| Log and statistics reads | none | `list_logs`, `get_stats` | reads beside committing batches |
| Registries, schemas, wiring, health, seeding, migrations | static | | |

What is hard here: several workers run jobs of one action while it is still being planned;
every job is a sequence of separate transactions, and a crash, a cancellation, a second
delivery or another writer can come between any two; a check made in one transaction is stale
in the next; batches of one action meet at dedup keys and batches of two actions at entity rows,
with locks held to the commit; a client retries a submission whose answer it never saw; the rate
limiter's time stamp is taken before its script runs; a client may read
the row before it subscribes.

What makes it correct: every entity of the target set belongs to exactly one batch; every
batch is counted once; counters equal the audit log; a terminal status is final and is reached;
cancellation stops work at a batch boundary; one winner per dedup key and no deadlock over the keys;
one action per idempotency key; what was accepted can run; no more than the rate is granted; a final frame is true and arrives; a walk over the log misses nothing.

## 2. Modules

| Module | Models |
|---|---|
| `Progress` | the action row; each UPDATE of it is one operator whose condition is the WHERE clause |
| `ArqQueue` | the queue, external, from how the workers and `tests/conftest.py` rely on it |
| `TargetSet` | batch size, selection, keyset page, stored range, id chunks, row load |
| `Handlers` | dedup ledger and winner, drift, no-op rows, rows written, the table afterwards |
| `Pipeline` | the composition: request, planner, batch jobs, queue, other writers, faults |
| `PipelineProperties` | what the pipeline promises |
| `PipelineProofs` | invariants of `Pipeline` that hold under every fault, and theorems |
| `PipelinePlanProofs` | theorems about cancellation, the partition of the target set, single writes, tallies and exact completion |
| `NumberFacts` | lemmas about least and greatest numbers, ranks, pages and sums over finite sets, used by the proofs |
| `Filters` | what validation accepts, what fails to compile, which rows the WHERE clause selects |
| `Submission`, `SubmissionProofs` | concurrent `POST /bulk-actions` with retries and failures (extends `Filters`) |
| `Claims` | abstract: a batch that commits claims its keys in one step |
| `DedupLocks`, `DedupLocksProofs` | the batch transactions lock by lock; implements `Claims` |
| `RateLimiter`, `RateLimiterProofs` | the token bucket with concurrent callers, and its bound |
| `ProgressStream`, `ProgressStreamProofs` | one SSE client against the publishing workers (uses `Progress`) |
| `AuditReads`, `AuditReadsProofs` | `list_logs` page by page and the two reads of `get_stats` |
| `MC*` | values for the `.cfg` files |

Operators marked `Mutant:` are altered copies of the definition that follows them (a dropped
guard, an inclusive bound, a swapped order). They are used by nothing; each shows, put in the
place of that definition, that a property notices the change.

### Pipeline: state and steps

One action is followed. `action`, `batches`, `logs`, `wins`, `ledger`, `table`, `limit` are the
committed database; `jobs` the queue; `proc[w]` the local variables of the job that slot `w`
runs, with its program counter. `stayed` and `revived` are history: the entities in the target
set ever since submission, and whether the planner overwrote a terminal status.

A step is one statement or one transaction of a job, that is, everything between two points at
which another process can be seen. PostgreSQL runs READ COMMITTED, so a step reads what is
committed at that moment.

| Steps | Code |
|---|---|
| `Submit`, `CommitSubmission`, `AbortSubmission` | `create_bulk_action`; `get_session` commits or fails afterwards |
| `PlanLoad`, `PlanBegin` | first transaction of `plan_bulk_action`: its check and its UPDATE are two statements |
| `PlanPage`, `PlanEndOfWalk` | one page of `plan_batches` |
| `PlanFlush`, `PlanEnqueue` | `flush`: the rows in one transaction, then the jobs one by one |
| `PlanTotals`, `PlanError`, `PlanFail` | last transaction; except clause |
| `BatchLoad`, `BatchCancel` | pre-flight transaction of `process_batch` |
| `BatchGate`, `BatchDefer` | rate gate; deferral under a new id; ValueError above the limit |
| `BatchAttempt`, `BatchCheck`, `BatchRows`, `BatchCommit` | attempt; second status check; `load_batch_rows`; the rest of `run_batch` and its commit |
| `FinalizeSelect`, `FinalizeUpdate` | the two statements of `finalize_if_complete`; `f_` inside the try block, `g_` after `_mark_batch_failed` |
| `BatchError`, `BatchFailed` | except clause; `_mark_batch_failed` |
| `UncaughtError` | an exception where no try block is |
| `Dequeue`, `Return`, `Raise`, `Abandon`, `DuplicateDelivery`, `Crash`, `ExpireResult` | the queue |
| `cancel_bulk_action`, `update_account`, `Leave`, `Join` | the other endpoints and other writers of the entity table |

`BatchCommit` is one step: the first writing statement of the transaction takes dedup or row
locks that are held to the commit, so two such transactions that matter to each other do not
interleave. That this is sound for the dedup keys, whose locks are taken one by one, is what
`DedupLocks` shows (below). The row load before it takes no lock and is a step of its own.

Abstractions. An entity is a primary key `1..N`; a row matches, holds the requested values
already, does not match, is soft-deleted or is gone. Times, messages, error texts and the
batch's `attempts` are dropped: no transition depends on them. Explicit ids are validated by
the request, so they are primary keys, possibly repeated. The rate limiter's verdict in
`Pipeline` is nondeterministic for an amount it can grant; the bucket itself is `RateLimiter`.
A "scheduled" action is one whose plan job is delayed; delay is not modelled, so it may start
at any time.

The queue. arq 0.26.3, which `pyproject.toml` pins, delivers a job again when its worker died or was
shut down (and for its own `Retry`, which the code never raises), until `job_max_tries`. Any other
exception finishes the job with that exception as its result, and so does `job_timeout`. Hence `Raise`
finishes the job, `Crash` puts it back, and `Abandon` is a job that comes up with its tries used up. A timeout
cancels the job at an await, which `except Exception` does not see: it is `UncaughtError` with the fault
"timeout", anywhere in a job. The comments of `workers/tasks.py` count on a retry after every exception:
see `NoRetry` in section 5. The last try is therefore reached by crashes, or is the first one
if `MaxTries = 1`. Back-off only adds delay and is left out.

### Submission and Filters

Each request of `Posts` runs `create_bulk_action` statement by statement: account, idempotency
lookup, validation, submission limiter, INSERT, enqueue, commit, response. `body` is what it
carries, already through the schema of `BulkActionCreate`. A request inserts at most one row, so
`committed` is a set of requests, and `stage[a]` says what became of the plan job of that row:
seen before the commit ("missing"), refused by the filter compiler ("unplannable"), refused by a
NOT NULL column ("unwritable") or executed. The INSERT waits while another open transaction holds
the key (unique index) and fails with a 500 once that one has committed. `Fail` ends a request
anywhere, with a 500 or with no answer at all; a failure after the commit loses the answer and not
the row. FastAPI commits the session dependency before the response is sent (the pinned version),
so `Respond` follows `Commit`. `charged` and `replay` are history.

`Filters` has one operator per validator and a definition of `_apply` under three-valued logic:
a comparison with NULL is unknown and selects nothing, `eq`/`ne` null become IS NULL and IS NOT
NULL, and a list that holds null makes `not_in` select nothing. Operands are scalar, null, list or
of a type the column refuses. Column values are small naturals, and `Text` gives the characters of those a
text column holds. `contains` is PostgreSQL's LIKE over characters: the operand of any type, as
`str(value).lower()` spells it, goes unescaped between two `%`. `Like` is LIKE for patterns that begin with
`%`, with both wildcards and the backslash. `TargetsOnlyNamed` compares the
selection with a reference, `Holds`, that says in terms of the request which rows it names; there `contains` is
plain substring search (`Contains`). It leaves out operands whose text LIKE would interpret, or that are not a
scalar: for them the comment in `filters.py` promises an escaped pattern and the code does not keep it
(`ContainsIsLiteral`, `Wildcard.cfg`).

### DedupLocks and Claims

A delivery goes through the keys of its rows in sorted order (`InsertKey`), then the entity rows in
any order (`ChooseRow`, `LockRow`: the UPDATE has no ORDER BY), the batch row and the counter row,
and commits or aborts. It waits for a key another open transaction has inserted, and for locked
rows. `DeadlockDetected` is PostgreSQL's detector, which aborts one transaction of a cycle; `Error`
any other failure. Both abort the transaction and end the job: the delivery is "stranded", or, on its last try,
runs the transaction of `_mark_batch_failed`. A delivery whose worker dies (`Crash`) is delivered again while
it has tries left. Foreign-key locks (FOR KEY SHARE) do not conflict with these updates and are
left out, and so are the short transactions that lock a single row. `Claims` is the abstract view:
one step per committed batch, which claims exactly the keys nobody claimed before. The mapping
takes the committed deliveries and the keys each won; `ledger` is the same variable.

### RateLimiter

Tokens are counted in units of `1/Minute` token, so the script's floating-point refill is exact.
`consume` reads the clock (`Ask`, `Retry`) and the script runs later (`Script`), at most
`MaxDelay` later; clock skew between hosts is a delay of the one that lags. `since`, `granted`
and `rewound` are history of an observed window that may start anew at any call. Each call brings
the limit its job read from the account, any of `Limits`: PATCH may change it between two calls, and
calls with the old and the new one may interleave. `Call.retry` is history too: the call was denied
and, at the same limit, nobody has used the bucket since.

### ProgressStream

Starts when planning has ended. `holder` is the batch whose open transaction has finalised the
row: it publishes before it commits (`workers/tasks.py`, the session around
`finalize_if_complete`). `inbox` holds what the subscription has received. `Rollback` is a
failed commit on a try that is not the last: the job ends with the exception, its batch completed.
`mishaps` is history: which faults happened.

### AuditReads

`write_outcomes` takes one log id per row as it is inserted, so the ids of concurrent batches interleave, and
`Commit` makes them visible later, out of order. The client follows `next_cursor` to the end. `get_stats` reads
the counters and then the breakdowns.

## 3. Runs

| Run | Instance | Shows |
|---|---|---|
| `Exact` | 2 workers, 4 keys (one not matching), dedup, size clamped to the limit, every flush one batch, 1 deferral, one try, 2 faults of {row leaves, batch error, planning error, database error, timeout, cancel, request commit fails} | `CompletedIsExact`, `TalliesAddUp`, `DisjointSlices`, `PlanCoversTarget`, `NoDoubleWrite`, `BatchFitsLimit` |
| `Ids` | 2 workers, ids `<<3,1,3,2>>` with 2 soft-deleted, hard delete, 1 deferral, one try, 2 faults of {batch error, cancel}, fair | the exactness properties, and `EveryBatchReports`, `OutstandingBatchFinishes` |
| `Storm` | 2 workers, 3 keys, dedup, 2 tries, any 2 of twelve kinds of fault | what survives everything: `CountersMatchLogs`, `ReportedBatchesCounted`, `RowBeforeJob`, `WorkersHoldRows`, `OneWinnerPerKey`, `CancelStopsAtBoundary`, `PlanRowsFrozen`, `OnlyPlannerLeavesTerminal`, `TypeOK` |
| `Bucket` | 2 callers, limits 1 and 2 in any order, a "minute" of 3 ticks, 6 ticks | `GrantedWithinRewinds`, `RetryIsGranted`, `TypeOK` |
| `Stream` | 3 batches, one client, every fault, fair | `DoneIsTrue`, `ListenerIsTold` |
| `Audit` | 3 batches, page size 1 | `WalkIsComplete`, `BreakdownCoversCounters` |
| `Submit` | 3 requests: every choice of no key, the empty key, one key, one key with an invalid body; or one request with any of 10 operators and 7 operands, `contains` with any of 7 texts, or any of 44 payloads; 1 failure anywhere, fair | `OneActionPerKey`, `AcceptedIsDurable`, `ReplayIsFree`, `TargetsOnlyNamed`, `EveryRequestEnds` |
| `Locks` | 4 deliveries: two batches of an action that meet two keys in opposite row order, one of them delivered twice, and a batch of another action on the same rows; 2 tries, 2 errors or crashes, fair | `KeysNeverDeadlock`, `ClaimsAreAtomic` (refinement), `EveryDeliveryEnds`, `TypeOK` |
| `LostFinalize`, `EarlyPlan`, `FailedTwice`, `NoRetry` | `Pipeline` with the one or two faults needed, or none | what a comment or the repository's README says and the code does not do (section 5) |

Eleven more configurations are kept to look at by hand and are not listed as runs in `PROJECT.json`:

* `Redelivery.cfg`, which passes: 2 workers, ids `<<3,1,3,2>>`, update, 3 tries, 2 crashes anywhere, no deferral, fair.
  `CompletedIsExact`, `TalliesAddUp` and `EveryBatchReports` hold when every job is delivered again.
* `LostRecovery`, `CancelUndone`, `LateCancel`, `Replan`, `Overlap`, `LateWrite`, `PatchedLimit` (`MCPipeline`)
  and `NullUpdate`, `Wildcard`, `DoubleCharge` (`MCSubmission`), each of which ends in the
  counterexample told in section 5.

Bounds. `MaxFaults` is the number of faults in one behaviour and `Faults` their kinds: two
allow a fault during the recovery from another. `MaxTries = 1` makes every error one of the last try, where a
batch is marked failed; `2` is the first value with a redelivery and a last try, and with `3` two crashes do
not use up the tries. Three or four keys with batches of one or two
give at least two batches, a gap inside a stored range, a short last page and an exactly full
one. `FlushEvery = 1` interleaves planning and execution, `2` puts two jobs in one flush.
`MaxDeferrals = 1` gives one new job id per batch. `Horizon` of `Bucket` lets a bucket expire
(`Minute + Grace`) and be created again; a minute of three ticks makes the retry delay inexact,
so that truncation shows, and two limits, one a divisor of the other, make both raising and lowering
happen. In `Submit` three requests are the first number at which one waits for a key, one fails on
it and one replays it. In `Locks` two keys and two rows per batch are the least that can close a
cycle, the second delivery competes for everything, and two tries with two faults reach
`_mark_batch_failed` after a crash. `PageSize = 1` makes every page boundary a step. `WorkerSymmetry` and
`CallerSymmetry` are used for safety only.

Deadlock is checked in every run; `Rest` and `Finished` are the states in which the system has
nothing left to do.

Fairness. `FairSpec` of `Pipeline`: weak fairness of `Submit`, `CommitSubmission`, `Abandon` and
of each worker's own steps: the event loops, Redis and the database keep running, and a worker
takes jobs while there are any. Nothing is assumed of faults or outside events. The rate
limiter denies at most `MaxDeferrals` times because it refills. `FairSpec` of
`ProgressStream`: weak fairness of each job and of the endpoint's coroutine. `FairSpec` of
`Submission`: weak fairness of the steps of a request that has been received. `FairSpec` of
`DedupLocks`: weak fairness of each delivery's steps and of PostgreSQL's deadlock detector; errors and
crashes need not happen.

## 4. Proofs

For every number of workers, entities, tries and faults, every table and every request:

* `PipelineProofs!TypeCorrect`: `Spec => []TypeOK`.
* `PipelineProofs!RowsBeforeJobs`: `Spec => []RowBeforeJob`, "a worker can never dequeue a job
  whose row is not yet visible". `RowBeforeJob` alone is not inductive: the planner enqueues in a
  later step than it inserts, and what a job does depends on the row being there. `RowInv` adds
  the types and `WorkersHoldRows` (a planner past its load has seen the action; the batches still
  to be enqueued by a flush have rows; a batch job past its load has a row).
* `PipelineProofs!CountersAreExact`: `Spec => []CountersMatchLogs`. `StepKinds` shows that each
  step either leaves the counters and the logs alone or adds the same tally to both.
* `PipelineProofs!DedupHasOneWinner`: `Spec => []OneWinnerPerKey`. `WinnerInv` adds that the key
  of every entity written is in the ledger; a later batch then cannot claim it, so a retry, a
  duplicate or a second planning pass writes no second entity of that key.
* `PipelineProofs!WorkersAreGrounded`, `PlansAreFrozen`, `TerminalLeftByPlannerOnly`: `WorkersHoldRows`
  and the two action properties, from `RowInv`.
* `PipelineProofs!ReportsAreCounted`: `Spec => []ReportedBatchesCounted`. `ReportInv` adds that the
  batch rows are finitely many and that there are none before the action is visible. `ReportSteps`
  shows that only `BatchCommit` and `BatchFailed` add a reported batch, one each, and both count it.
* `PipelinePlanProofs!CancelledJobsDoNothing`: `Spec => []CancelStopsAtBoundary`, under every fault.
  `CancelInv`: until a planner revives the action, a job that was delivered under a cancelled status
  still sees it and has not passed the pre-flight check.
* `PipelinePlanProofs!BatchesFit`: `Spec => []BatchFitsLimit` if `"patch"` is not among the faults.
  `SizeInv`: the size an action is planned with is at most the limit; every pending and stored batch has at
  most that size (for ids: the chunk, `ChunksDisjoint` and its kin about `id_chunk`).
* `PipelinePlanProofs!SlicesAreDisjoint`, `PlansCover`: `DisjointSlices` and `PlanCoversTarget`, if
  `OnePlan`: the request names its ids, or no job is delivered twice (`OneDelivery`: no crash and no
  duplicate). For ids
  every planner cuts the same chunks (`ChunkInv`), so any fault is allowed. For a filter,
  `RangeInv` says that the walking planner is the only one (`DeliveryInv`, `OnceInv`), that its cursor is
  above everything stored and pending, and that pending and stored ranges are apart; `CoverInv`
  that whatever stayed in the target set is in a batch, pending, or above the cursor. Rows may leave and
  join in any number.
* `PipelinePlanProofs!WritesAreSingle`: `NoDoubleWrite`, if `OneDelivery`. `TokenInv` says that a
  batch that is not settled has at most one live job, queued or running, over deferrals under
  new ids, errors, cancellations and expiring results; `LoadedInv` that the rows a job has loaded are in the slice of its batch;
  `SpentInv` that an entity written belongs to a batch whose status no longer lets a job load it. Together
  with `DisjointSlices` no second job can reach the row.
* `PipelinePlanProofs!TalliesAgree`: `TalliesAddUp`, if `OneDelivery` and `LateErrorEnds`: an error in finalisation
  comes below the last try, where it only ends the job.
  `ClosedInv`: a batch that has reported is closed, that is, no job of it is queued or can still
  commit; one that has not reported carries no tally. Hence every report is the first of its batch, and
  adds to the counters what it writes into the row (`TallyInv`). The sum is `Total`, the number of
  units in a finite set, whose laws need no induction over data (`TotalGrows`, `TotalSame`,
  `TotalExtends`); `SumIsTotal` shows it equal to the fold `MapThenSumSet` that TLC evaluates.
* `PipelinePlanProofs!CompletionIsExact`: `CompletedIsExact`, if `OneReport`: `OneDelivery`, `LateErrorEnds` and
  `NoNewRows`, no row joins the target set of a filter. Four invariants:
  `FitInv`, no batch can load more rows than it was planned with, since rows only leave its range;
  `ExactInv`, each report adds the planned size of its batch (vanished rows are counted as skipped) and
  one to `completed_batches`; `CountInv`, the running totals of the planner are those of the rows it
  has stored and holds pending, numbered from 0; `StatusInv`, the totals are written once and agree with the
  stored rows, and `finalize_if_complete` acts only when every batch has reported, on counters that
  no longer change between its SELECT and its UPDATE.
* `SubmissionProofs!KeysAreUnique`, `AnswersAreDurable`, `RetriesAreFree`: the three safety properties
  of submission for any number of requests. `KeyInv` extends uniqueness to the rows of open
  transactions, which is what the waiting INSERT protects; `DurableInv` ties a request at its
  response to its committed row and its job; `ReplayInv` says that a request that came late stops
  at the lookup.
* `SubmissionProofs!TargetsAreNamed`: `Spec => []TargetsOnlyNamed`, operator by operator: `_apply` implies the
  reference `Holds` for operands that compile. For `contains`, `LikeFindsText` shows that a pattern `%text%` whose
  text has no special character is matched only by strings that contain the text: the characters before the
  last `%` are literals, so LIKE finds them one after the other.
* `DedupLocksProofs!LocksTypeCorrect`, `KeyOrderHasNoCycle`, `LocksImplementClaims`. `LockInv` says that
  a transaction has written exactly the keys it visited that the ledger did not hold, all of
  them below the ones to come (`Holding`), and that two open transactions of an action never hold
  the same key (`Exclusive`). A transaction that waits for a key waits for one with a larger
  minimum still to visit, one that waits for a batch row or a counter waits for one further
  on, so a cycle consists of transactions at entity rows alone. The same invariant gives the
  refinement: at its commit a delivery has claimed exactly its keys minus the ledger.
* `RateLimiterProofs!BucketTypeCorrect`: `Spec => []TypeOK`.
* `RateLimiterProofs!BucketBound`: `Spec => []GrantedWithinRewinds`. `BucketInv` is a conservation
  law, tokens left plus tokens granted is at most capacity plus refill, together with the life time
  of the bucket. Re-creation of an expired bucket keeps it because `MaxDelay <= Grace`: the minute
  `PEXPIRE` adds covers the age of a clock reading. Limits may differ from call to call; `LowerLimit`
  bounds each refill by that of the highest. `SustainedRate` follows: while readings arrive in order
  the rate is the highest limit in force.

* `ProgressStreamProofs!LastFrameIsTrue`: `Spec => []DoneIsTrue`. `StreamInv` bounds what a frame
  in flight can say (`Honest`): a terminal status in a payload, in the inbox or in the last frame is the one the
  row has, or will have when the open finalising transaction commits. While that transaction holds the
  row every job has reported, so the counters its status is computed from do not change.
* `AuditReadsProofs!WalksAreComplete`, `BreakdownsCover`: `WalkIsComplete` and `BreakdownCoversCounters`.
  `WalkInv` says that up to its cursor the walk has returned every row that was committed before it
  began, and nothing from beyond; pages are the first rows beyond the cursor. `StatsInv` says that
  counters are the number of visible rows, and so only grow between the two reads; `LogInv` that
  rows of open transactions are new and apart. Ids may become visible in any order.

Assumptions on the constants are the `ASSUME`s of the modules (`NAssumption`, `SizeAssumption`,
`FlushAssumption`, `LimitAssumption`, `TableAssumption`, `FaultAssumption`, `CapacityAssumption`,
`TimeAssumption` and so on); TLC evaluates them in the runs.

Faults that a theorem excludes, and why. All other kinds may happen any number of times.

| Excluded | What TLC shows with it |
|---|---|
| `crash`, `duplicate` | each violates `PlanCoversTarget` (`Replan.cfg`) and, with a deferral, `TalliesAddUp` (`Overlap.cfg`), `NoDoubleWrite` and `CompletedIsExact`; with `join`, `DisjointSlices`. For ids and no deferral `Redelivery.cfg` shows that crashes leave `CompletedIsExact` and `TalliesAddUp` intact |
| `final_error` on the last try | violates `CompletedIsExact`, and `TalliesAddUp` with a row deleted between its load and its write: `_mark_batch_failed` overwrites the failures the commit had counted (see `FailedTwice`) |
| `join` (filter only) | violates `CompletedIsExact` |
| `patch` | violates `BatchFitsLimit` (`PatchedLimit.cfg`) |

Only model-checked: liveness under fairness, which needs ENABLED and is beyond TLAPS 1.4.5
(`OutstandingBatchFinishes`, `EveryBatchReports`, `EveryRequestEnds`, `EveryDeliveryEnds`,
`ListenerIsTold`), the action property `RetryIsGranted`, and the claims that section 5 refutes. Every other
safety invariant and action property of the passing runs is stated by a theorem. Where a proof has to argue over a finite set it takes a
least counterexample (`LeastNat`, `FiniteGrowth` in `NumberFacts`) instead of an induction rule.

## 5. Where the code and its documentation disagree

TLC's counterexample is the story told. The first four are runs of the project.

1. `LostFinalize`. `finalize_if_complete` acts only in PROCESSING, which the planner sets after all
   jobs are enqueued. If every batch reports before that, nobody finalises: the action stays in
   `processing`. No fault is needed.
2. `EarlyPlan`. The plan job is enqueued before the request commits. A worker that takes it at
   once finds no action and returns; the committed action stays queued.
3. `FailedTwice`. The except clause also covers finalisation: an error there on the last try (reached
   by a crash) marks a committed batch as failed and counts it again.
4. `NoRetry`. "Let arq retry with exponential backoff" (`workers/tasks.py:324`) and "It is marked `failed`, its
   entities are logged as failed, counters advance, and the action still finalises" (repository README,
   line 571): arq 0.26.3 does not retry an ordinary exception. One error below the last try leaves the
   batch in `processing` and its action unfinished.

The others have a configuration of their own (section 3).

5. `LostRecovery`. A worker that dies between the commit of the last batch and finalisation strands the
   action as well: the redelivered job returns `already_completed` before it would finalise.
6. `CancelUndone`. The planner checks the status and then sets PLANNING without a condition: a
   cancellation in between is overwritten, and every batch runs. `OnlyPlannerLeavesTerminal` says that
   this is the only way out of a terminal status.
7. `LateCancel`. The UPDATE that cancels a batch has no condition on its status either: a batch that
   another delivery has committed meanwhile is recorded as cancelled, although "batches already
   committed are left alone".
8. `Replan`. A second planning pass, after a crash, walks a table its own batches have changed; page k
   is not what the stored row k names, and an entity ends up in no batch, although "re-planning
   converges".
9. `Overlap`. A job that defers enqueues its successor before it ends. If its worker dies in between,
   both jobs pass the status checks and both are counted.
10. `LateWrite`. The UPDATE of a batch is scoped by primary key and account: an entity soft-deleted
    after the load is written and counted as a success, which `bulk_update.py:131` says RETURNING
    prevents.
11. `PatchedLimit`. A limit lowered by PATCH makes a planned batch impossible to admit, although
    `batching.py` says clamping "keeps that impossible".
12. `NullUpdate`. `update_model` gives every field the type `update_annotation | None`, so null is
    accepted for a field that is not nullable, and every batch fails on the NOT NULL column, although
    `FieldSpec.nullable` "controls whether `null` is a legal update" and "a request that would fail on
    the millionth row fails here on the zeroth".
13. `Wildcard`. `contains` promises "ILIKE with an escaped pattern"; `%` and `_` are not escaped, and
    null or a list is searched for as Python prints it.
14. `DoubleCharge`. Two submissions with one key, the second sent before the first has committed, both
    pass the lookup and are both charged, although "a retried submission never double-charges the rate
    limiter"; the one that loses the INSERT is answered 500. `ReplayIsFree` is about requests that come
    after the commit.

Seen in the same models with other bounds:

* The empty idempotency key is falsy for the lookup and a value for the unique constraint: the second
  submission with it is charged and answered 500.
* Operands of a filter are checked only when it is compiled, although `validate_filter` says "Fail fast
  at submission time rather than inside a worker": an empty `in` list, or a value the column's type
  refuses, is accepted and fails the action in the planner (stage "unplannable" of `Submission`).
* Entity rows are locked in the order the plan of the UPDATE reaches them, so batches of two actions
  on the same rows can deadlock; the detector's abort ends one of the jobs, which nobody repeats (`Locks.cfg` with
  `\A S \in SUBSET Waiting : ~ Cycle(S) \/ S = {}` as an invariant).
* A row that starts matching inside a stored range is processed and was never counted, so
  processed exceeds total (`Exact.cfg` with `"join"` violates `CompletedIsExact`).
* A planning error after the first flush leaves a FAILED action whose batches run, although
  `models/enums.py` says FAILED means "could not run at all".
* A late clock reading sets the bucket's stamp back and the interval is refilled twice: the bound
  of `GrantedWithinRewinds` is what holds, `rewound = 0` in `GrantedWithinRate` is needed.
* A client that reads the row before the end and subscribes after the last frame hears only
  heartbeats: hence "listening before the last batch reports" in `ListenerIsTold`. A cancellation
  and a batch that fails for good publish nothing.
* A poller that resumes `list_logs` from its last cursor can miss rows committed later under
  smaller ids; `WalkIsComplete` is only about rows committed before the walk began.

## 6. Not modelled

* Registration at import and the self-description of registries: static tables. The descriptors of
  `MCSubmission` are reduced to the fields its scenarios use.
* Response models, problem bodies, logging and health probes: formatting and reads.
* Start-up and shutdown, settings, seeding, the load test: no state the pipeline depends on.
* Migrations: the schema; the constraints the code relies on are in the operators that use them.
* `list_bulk_actions`, `list_batches`, accounts and entity listings, `RateLimiter.peek`: single plain
  reads; OFFSET pages promise nothing under concurrent writes. Creating an account precedes
  everything modelled.
* Back-off delays of retries, and real time except in `RateLimiter`: no transition depends on them.

## 7. Plan

Done: `Progress`, `ArqQueue`, `TargetSet`, `Handlers`, `Pipeline` with its runs and proofs;
`RateLimiter`, then with changing limits; `ProgressStream`; `AuditReads`; `Filters` and `Submission`;
`DedupLocks` and its refinement of `Claims`.

Proved: everything of section 4.

Left, in this order:

1. `Lifecycle`: an abstract specification of the status of an action that `Pipeline` implements.
2. What the counters of an action that was cancelled or failed say of its batches.
