# Verification of the job queue

TLA+ models of the job queue in this repository: the FastAPI service that
accepts and cancels jobs, the worker processes that execute them, PostgreSQL,
which keeps the rows, and Redis, which keeps the queues. TLC checks the models
on small instances; TLAPS proves every safety property that the runs check for
every number of workers, jobs, requests and faults.

    tlc -config JobQueue_faults.cfg MCJobQueue          # any of the runs below
    tlapm JobQueueTheorems.tla                      # any of the proof modules

## 1. The system

| Component | Source | State it keeps | Operations |
|---|---|---|---|
| Job row | `app/db/models/job.py`, `app/db/session.py` | one row per job in PostgreSQL: status, attempts, timestamps, error, result; `job_logs` | ORM units of work: load, assign, commit |
| Redis queues | `app/queue/` | `queue:priority` (sorted set), `queue:retry` (sorted set by due time), `queue:fifo` (list, no producer) | ZADD, ZPOPMIN, ZRANGEBYSCORE + ZREM, BRPOP, removal |
| Worker loop | `app/worker/loop.py` | the job in hand, the claimed retries, the open session | drain, requeue, dequeue, start, execute, finish, `handle_failure` |
| Startup recovery | `app/worker/recovery.py` | one session over all stuck rows | select, retry or give up, commit |
| Worker process | `app/worker/main.py` | `_shutdown` event | start, recovery, loop, signals, gauge poller |
| Creation | `app/services/idempotency.py`, `app/api/v1/jobs.py` | one session per request | idempotency lookup, flush, push, commit, conflict path |
| Cancellation | `app/services/job_service.py`, `app/api/v1/jobs.py` | one session per request | status check, removal from the queues, commit |
| Backoff | `app/services/retry_service.py` | none | delay of an attempt |
| Executors | `app/worker/executors/` | none | simulated work, with a time limit each |
| Queries | `job_service.py`, `app/api/v1/metrics.py` | none | list, detail, metrics |
| Telemetry | `app/core/telemetry.py`, `app/main.py` | counters, `jobs_active`, `_gauge_state` | increments in the loop, pollers, scrape |
| API process | `app/db/session.py`, `app/api/deps.py` | the connection pool | connect, give back, wait |
| Dashboard | `frontend/src/` | page state | polling, paging, create, cancel |

The processes share PostgreSQL and Redis and nothing else. There is no lock
anywhere: transactions run at READ COMMITTED, rows are loaded by plain SELECTs,
and the UPDATE of a unit of work contains the columns whose value changed since
the load. Redis commands are atomic one by one. Each worker and each request is
one coroutine that yields at every Redis command and database statement, so the
unit of interleaving is the code between two awaits.

What is hard here:

* **One job, one execution.** Nothing but ZPOPMIN and the answer of ZREM keeps
  two workers from running the same job. The retry entry is pushed *before* the
  row is committed as queued, and a drain's ZREM may come long after its scan.
* **Check, then act.** A start, a completion, a cancellation and recovery each
  read the status in one statement and overwrite it in another.
* **Two stores.** A job's row and its id are written by separate commands, and
  a crash, an error or a slow reply can come between any two.
* **One key, one job.** Concurrent creations with the same idempotency key all
  see no row; the unique index makes all but one wait, and then fail.
* **Crashes.** A dead worker's job is found again only by the startup recovery
  of a later process, by the age of `started_at`.
* **Progress.** Every accepted job should complete or fail in the end.
* **Order.** A score is a double that carries both the tier and the time.
* **Replies out of several statements.** A list and its total, a row and its
  logs, counts and an average are read one after the other.
* **Instruments.** A counter is raised before or after the commit it reports,
  and the gauge of running jobs is lowered at four places.

`PROJECT.json` lists these hazards line by line under `hazards`.

## 2. The modules

| Module | What it is |
|---|---|
| `JobRow` | a row of `jobs` and the updates the program makes to it |
| `JobStore` | the shared state: rows, `queue:priority`, `queue:retry`, and the commands of `app/queue` |
| `Worker` | `worker_loop` and `handle_failure`, one action per await, and their faults |
| `Recovery` | start of a worker process and `run_startup_recovery` |
| `Api` | `POST /jobs` (the path that inserts) and `POST /jobs/{id}/cancel` |
| `JobQueue` | the composition, the passage of time, fairness, and the properties |
| `Lifecycle` | abstract specification: the life of a job as a client sees it |
| `Idempotency` | creation with idempotency keys, under concurrent requests |
| `JobRegistry` | abstract specification: keys and jobs, in indivisible steps |
| `IdempotencyTheorems` | proofs about `Idempotency` and `ConnectionPool` |
| `JobQueueInvariant` | the inductive invariants of `JobQueue`: `IInv`, and `HandoverInv`, `CalmInv`, `SoleInv` on top of it |
| `JobQueueSteps`, `JobQueueInvariance`, `JobQueueTheorems` | proofs about `JobQueue`: the steps and types, `IInv`, the properties |
| `ExtensionTheorems` | proofs about `WorkerMetrics`, `Queries` and `WorkerProcess` |
| `Queues`, `QueueTheorems` | the two sorted sets with clock, scores and their rounding; refines the commands of `JobStore`; proofs |
| `WorkerProcess` | signals and stops of worker processes, on top of `JobQueue` |
| `WorkerMetrics` | the instruments of the worker loop, on top of `JobQueue` |
| `Queries` | `GET /jobs/{id}`, the page that polls it, and `GET /metrics`, on top of `JobQueue` |
| `JobListing`, `JobListingTheorems` | `GET /jobs` read page by page among creations; proofs |
| `Gauges`, `GaugeTheorems` | the pollers of the queue depths and a scrape of what they left; proofs |
| `ConnectionPool` | the requests of `Idempotency` on the connection pool |
| `MCJobQueue`, `MCQueues`, `MCWorkerProcess`, `MCWorkerMetrics`, `MCQueries` | values of the constants for TLC |

State and code. `db[j]` is the committed row of job `j`; `session[w][j]` is the
copy a worker's open session holds (the ORM identity map). `pc[w]` names the
await at which worker `w` stands: `load` is `session.get` at loop.py:151,
`begin` the commit at :177, `execute` the `wait_for` at :231, `finish_load` and
`finish_commit` the session at :243-257, `fail_load`, `enqueue_retry` and
`fail_commit` the awaits of `handle_failure`; `select`, `recover`,
`recover_commit` are those of recovery. `claimed[w]` is the list `due` of the
loop, `todo[w]` the list being walked through with ZREM, or recovery's
`stuck_jobs`. `creating[j]` and `cancelling[c]` say where the requests stand.

In `Idempotency`, `pc[r]` says where `get_or_create_job` stands for request `r`,
or with which code it was answered: `insert` is `session.flush` at
idempotency.py:57, `flushed` the push at :69, `pushed` the commit at :71,
`conflict` the select after the rollback at :86. `rows` and `pushed` are what
`Api` calls `db` and `priority`, of which it needs less. An insert waits for an
open transaction that has inserted the same key and fails once that key is
committed: this is PostgreSQL's unique index, modelled from how the code relies
on it. The empty key is a case of its own: it is not looked up, and yet it is in
the index, since it is not null.

`Queues` counts time in ticks. `reading[j]` is the `time.time()` of a score that
has been computed and not sent yet (keys.py:18, before the ZADD at
enqueue.py:12), `added[j]` the one in the score of a member, `retryAt[j]` the
score in `queue:retry`. `Quantum` is the last place of a double near each
weight, in ticks. Its instance of `JobStore` (`Store`) reads the sets off the
scores.

`WorkerMetrics`, `WorkerProcess` and `Queries` leave the actions of `JobQueue` as
they are and add to them: the increment that is made in the same step
(`BeginMetered` is `BeginCommit` with loop.py:208), the steps of a signal, or the
statements of a query. `Queries` keeps, for the page, the row the first statement
has read (`loaded`) and the reply it shows (`view`), and for the metrics the
counts the first statement has read.

In `JobListing`, `created[j]` is `created_at`, the time at which the transaction
of the insert began, so that a commit may come late and land in the middle of
the list; `Page` is OFFSET and LIMIT; `NextPage` the button of `JobTable`. In
`Gauges`, a length is represented by the number of the round in which it was
read; `walk` is the position of a scrape in the dict. In `ConnectionPool`,
`connected` holds the requests whose session has a connection: from its first
statement to commit, rollback or close.

An update is a function of *two* rows: the one stored at the instant of the
commit and the one the session had loaded (`NetChange`). This is what makes a
lost update visible: `MarkFailure(stored, loaded, max)` writes `queued` over a
cancellation that was committed after the load, and does not touch a status
that the code assigned without changing it.

Abstractions. Payloads, log texts and traces are left out, except the
"Starting executor" log rows, which are counted (`starts`). `started_at` is
null, recent, or older than the stuck threshold; the step from recent to old is
`Age`. A retry score is in the future or due; the step is `Mature`. Within a
priority tier ZPOPMIN may return any member of `JobStore`; `Queues` has the order.
`queue:fifo` is left out: nothing calls `enqueue_fifo`, so its BRPOP times out.
Executions succeed or fail at
will; a timeout is a failure, as in the code, where both go to
`handle_failure`. For a job in `Unregistered` the worker may have no executor
(`NoExecutor`): the API checks types against the registry of its own process
only. Rows are never deleted, so the `is None` exits after an
execution are unreachable. `history` variables: `recovered` (the jobs recovery
has ever selected) and `starts`.

Faults come out of a budget of `MaxFaults`: a Redis or database call that raises
in the loop (`LoopError`: the outer handler drops what the round held), one that
raises while a success is recorded (`FinishError`: taken for a failed execution;
`DiscardError` in `WorkerMetrics` when it is the session of a discarded outcome
that fails on closing), a commit whose acknowledgement is lost
(`BeginCommitUnacknowledged`, `FinishCommitUnacknowledged`), the death of the
process (`Crash`, `RecoveryError`), and an exception in a request
(`CreateAbort`, `CancelAbort`). A lost reply of any other command is one of
these right after the command: ZPOPMIN or ZREM and then `LoopError`, ZADD and
then `LoopError`, the commit of recovery and then `Crash`. To the instruments
such a ZADD of a retry was acknowledged, so `jobs_retried` has counted it before
the error; that it was not is left out.

Timing. Three constants name what the code relies on without enforcing it:

* `PromptCommits`: a session that has pushed a retry entry commits before the
  entry comes due. The shortest backoff is one second.
* `PromptClaims`: a drain has claimed, or failed to claim, the ids it found
  before one of them can be taken up and executed to its end by another worker.
* `ThresholdExceedsTimeout`: the stuck threshold (10 minutes by default)
  outlasts every execution (at most 300 seconds).

They are hypotheses of the theorems that need them and of no other. `NoLostJob`
and `OnlyFaultsLose` need the first two; `StuckIsOrphan`, `NoLostJob`,
`OutcomeNotStale`, `CompletedHaveAverage` and `ImplementsLifecycle` need the third.

## 3. What is checked

`JobQueue` states the properties next to the specification.

Whatever fails and whoever cancels:

* `ExclusiveExecution`: no two workers execute the same job at the same time.
* `AttemptsMatchStarts`: `attempts` equals the number of starts on record, so
  no increment is lost between sessions.
* `RetryBudget`: attempts never exceed `max_attempts`, and a queued job has one
  left.
* `OutcomeRecorded`: completed and failed rows carry the outcome, and a
  completed one no error of an earlier attempt.
* `RetiredIsFinal`: once a job has ended and no open session is about to write
  to it, nothing changes it again, whatever ids of it lie in the queues.
* `StuckIsOrphan`: what recovery selects is not being executed.

* `ProcessingIsAttended`: unless something fails, a row that says processing has a
  worker at it, whoever cancels; jobs without an executor are excepted.

These, `StuckIsOrphan` aside, except jobs that startup recovery has put back: two
processes that start together recover the same job twice, and the code has no
protection against it. With a single process the exception is not needed:

* `ExecutionsWithinBudget`, `AttemptsNeverDecrease`: recovered jobs included,
  no job runs more often than `max_attempts`, and no update overwrites a newer
  count.

When nothing fails and no one cancels:

* `NoLostJob`: a queued job is in a queue or in the hands of a worker.
* `OutcomeNotStale`: a worker with an outcome finds the row as it left it.
* `EveryJobSettles`: every accepted job completes or fails.
* `ImplementsLifecycle`: under `stage <- status, runs <- starts` every behaviour
  is one of `Lifecycle`, its fairness included.

Of prompt commits and claims, without cancellations, whatever fails:

* `OnlyFaultsLose`: an id leaves the queues and the hands of the workers, its
  row still queued, only in a fault of the worker that had it in hand. Recovered
  jobs are excepted, see `JobQueue_recovery_claim` below.
* `OrphanSettles`: a job that a crash left processing, older than the threshold
  by the time the workers come back, completes or fails, unless something fails
  once more.

The queues by their scores (module `Queues`):

* `PopsForemost`: whatever has been waiting how long, ZPOPMIN serves the foremost
  tier, as `JobStore` says.
* `FifoUpToQuantum`: within a tier, nobody is served before somebody whose clock
  was read more than a last place earlier.
* `BatchIsDrainBatch`: what a drain reads is a batch `JobStore` allows.

Stops (module `WorkerProcess`):

* A SIGKILL takes from a worker what a crash does, at whatever await it strikes,
  so a stop is a crash to the rest of the system (`Faulty`, an instance of
  `JobQueue` with `faults + kills` for `faults`). `OnlyStopsLose`: an id is lost
  only from the hands of a worker that is stopped or fails. `StoppedJobSettles`:
  the job a stopped worker left processing is recovered and settles. They are
  `OnlyFaultsLose` and `OrphanSettles` of that instance, and speak of crashes,
  errors and stops together.

Instruments (module `WorkerMetrics`):

* `ActiveIsWorking`: `jobs_active` is 1 exactly from the commit of a start to the
  count of its outcome, unless something fails or a job has no executor. Errors
  leave 1s behind; one takes a 1 back twice. When the outcome of a cancelled job is
  discarded, the gauge is lowered inside the session (loop.py:250); closing it,
  which rolls back the select, may raise, and `handle_failure` lowers the gauge
  again (`DiscardError`). So the gauge misses a running execution only where a
  cancel request has ended, and no more executions than there were faults.
* `CountersAgree`: if nothing fails but executions, failed attempts are retries
  plus jobs given up (`FailuresAddUp`), and completed and failed rows were counted,
  once (`OutcomesAreCounted`).
* `CompletionCountStands`: whatever fails, a counted completion is not undone.

Queries (modules `Queries`, `JobListing`):

* `LogsCoverAttempts`: a reply of `get_job` has the start of every attempt its
  row counts. `CompletedHaveAverage`: metrics that count a completed job have an
  average, unless something failed or was cancelled. `ProcessingPageMovesOn`: a
  page that shows a job processing does not stay there, unless something fails.
* `NothingIsJumped`: a job that was in the list when the reader began, and lies
  before the place where the reader stands now, has been shown: creations do not
  push a row back behind the reader. `MissedAreOutnumbered`: a reader who has come
  to the end has missed no more of the jobs that were there from the start than
  have been committed since the last total was counted. Some may be missed: the
  reader stops at a total that a creation has made stale (`JobListing_missed`
  below). `PageIsFull`: a page is no shorter than its total says.

Processes (modules `Gauges`, `ConnectionPool`):

* `GaugesKeepUp`: the API reports lengths of one round; no length is older than
  another but for the round under way and rounds that failed.
  `ShortAtFirstOnly`: a scrape of a worker comes out short only until the first
  round that did not fail.
* `EveryRequestAnswered`, `ConnectionsComeBack`: inserts that wait for a key and
  requests that wait for a connection do not wait for each other, and every
  connection is given back.

For creations with idempotency keys (module `Idempotency`):

* `SameJob`: requests answered under one key were answered with one job.
* `ConflictResolvable`: the select after an `IntegrityError` finds exactly one
  row, so `scalar_one` does not raise.
* `AnswerStands`: a job in an answer is committed and pushed.
  `LosersPushNothing`, a conjunct of `IInv`: a request that loses the race leaves
  nothing in the queue.
* `EveryRequestAnswered`: no request waits for ever for the key of another, or for
  a connection.
* `RegistrySpec`: the requests implement `JobRegistry`, in which checking a key
  and creating its job is one step. `CreationStep`: what they do to the store
  are creation steps of `Api`, so that what `JobQueue` says of creations covers
  them.

| Run | Instance | Shows | Distinct states |
|---|---|---|---|
| `faults` (`JobQueue_faults.cfg`) | 2 workers, 2 jobs (3 attempts and 1; the first is created during the behaviour, the second may lack an executor), 1 cancel request, 2 faults; no assumption on commits and claims | `TypeOK`, `ExclusiveExecution`, `AttemptsMatchStarts`, `RetryBudget`, `OutcomeRecorded`, `StuckIsOrphan`, `ProcessingIsAttended`, `RetiredIsFinal`, the `IInv` of the proofs | 1 054 000 |
| `metrics` (`WorkerMetrics.cfg`) | the same with the instruments, and 1 fault | `ActiveIsWorking`, `CountersAgree`, `CompletionCountStands` | 877 000 |
| `steady` (`JobQueue_steady.cfg`) | 3 workers, 2 jobs (3 and 2 attempts), no fault, no cancel request, a drain limit of 1 | `NoLostJob`, `OutcomeNotStale`, `EveryJobSettles`, `ImplementsLifecycle` | 38 000 |
| `one_worker` (`Queries.cfg`) | 1 worker, 1 job (2 attempts) created during the behaviour, 1 cancel request, 2 faults, one page, one metrics request after another | `ExecutionsWithinBudget`, `AttemptsNeverDecrease`, `LogsCoverAttempts`, `CompletedHaveAverage`, `ProcessingPageMovesOn` | 932 000 |
| `stops` (`WorkerProcess.cfg`) | 2 workers, 2 jobs (3 and 1 attempts), 1 fault, 1 stop, prompt commits and claims | `OnlyStopsLose`, `StoppedJobSettles` | 91 000 |
| `queues` (`Queues.cfg`) | 3 jobs, two of a tier, quanta of 2 and 4 ticks, retries of two of them, a drain limit of 1 | `TypeOK`, `BatchIsDrainBatch`, `PopsForemost`, `FifoUpToQuantum` | 211 000 |
| `listing` (`JobListing.cfg`) | 5 jobs, pages of 2 | `NothingIsJumped`, `MissedAreOutnumbered`, `PageIsFull` | 356 000 |
| `idempotency` (`ConnectionPool.cfg`) | 3 requests, each with one of 2 keys (one of them empty) or none, on 2 connections; any of them may fail at any point | `SameJob`, `ConflictResolvable`, `AnswerStands`, `IInv`, `EveryRequestAnswered`, `RegistrySpec`, `CreationStep`, `ConnectionsComeBack` | 29 000 |
| `gauges` (`Gauges.cfg`) | 4 rounds of the poller, any of them cut short, either process | `GaugesKeepUp`, `ShortAtFirstOnly` | 12 000 |

Each run states one type invariant at most; those of the modules that a run
extends (`Idempotency.TypeOK`, `JobListing.TypeOK`, `MetricsTypeOK`,
`QueriesTypeOK`, `Gauges.TypeOK`) are proved.

Why these bounds. Two workers are needed for a race, a third for a race during
which a stale claim is under way (`steady`). Two jobs are needed for a drain
that claims more than one id, for `DrainLimit` to cut a scan short, and for the
priority order to matter; the invariant speaks of one job at a time, and the
proofs cover the rest. Three attempts are the fewest with a retry that is
neither the first nor the last, and with a start after a recovery that counted
one itself. Two faults allow a crash and a second fault in the recovery from it
(`faults`, `one_worker`), and so do a fault and a stop (`stops`); in `metrics`
one fault is enough to leave a 1 behind or, after a cancellation, to take one
back twice, and nothing reads the instruments. Three requests let one lose to a
second while the third comes late, or two wait for a connection behind the
third; two keys and none let them go past each other. With one connection the
same properties hold. Five jobs in pages of two make three pages, the last one
short. Four rounds allow two failed ones before and after one that is not. In
`queues` the quanta are those of the code in proportion (a low score's last
place is twice a medium one's), and the clock runs over more than one of the
tier with two jobs. Workers are symmetric in `faults` and `metrics`, the large
runs without fairness.

Fairness (`FairSpec`, used by `steady` and `late_claim`). Each worker is weakly
fair as a whole: its process is scheduled, its awaits return (an execution is
cut off by `wait_for`), and the container restarts it (`restart:
unless-stopped`, docker-compose.yml:61). Requests that were sent are carried
through; whether a client sends one is left open. Time passes (`Mature`, `Age`).
No strong fairness is assumed. `ProcessFairSpec` (`stops`) says the same with
the variables of the stops, and that a grace period ends (`Sigkill`); whether a
worker is asked to stop is left open. `QueriesFairSpec` (`one_worker`) adds that
an open page goes on polling; whether it is opened or left is not. In
`PoolFairSpec` (`idempotency`) a request that has begun is carried on by the
event loop as soon as it can go on (`ContinueConnected`); that the database ends
the transaction of a lost connection is part of `Abort`.

### Where the code departs from what is said of it

Each of these runs must end in a violation; `PROJECT.json` quotes the line.

| Run | Property | The trace |
|---|---|---|
| `created` | `NoLostJob` | The id is pushed before the row is committed; a worker pops it, finds no row and drops it. |
| `late_claim` | `FailedJobsAreRetried` | Two workers scan the same due id. One claims it, runs the job, fails, and pushes the next retry entry; the other's ZREM comes only now and takes the *new* entry; the row is not queued yet, so the id is dropped. |
| `cancel_failing` | `CancelledIsDiscarded` | `handle_failure` does not look for a cancellation: the job is retried. |

More configurations end in a violation and are kept for who works on these lines
of code. They are not among the runs of `PROJECT.json`:

| Configuration (module) | Property | The trace |
|---|---|---|
| `JobQueue_cancel_starting` (`MCJobQueue`) | `NoStartAfterCancel` | README.md:433-434. A cancellation between the worker's check (loop.py:155) and its commit (:177) is overwritten by `processing`. |
| `JobQueue_cancel_finishing` (`MCJobQueue`) | `OutcomeIsNotCancelled` | README.md:286. A cancellation between the API's check (job_service.py:75) and its commit is written over `completed`. |
| `JobQueue_recovery_early` (`MCJobQueue`) | `CrashedJobRecovers` | README.md:40. A worker restarted within the threshold skips the job of its crash for good. |
| `JobQueue_recovery_count` (`MCJobQueue`) | `RecoveryCountsAttempts` | recovery.py:59. Recovery counts an attempt that did not run. |
| `JobQueue_recovery_claim` (`MCJobQueue`) | `RecoveredIsRequeued` | README.md:425. A retry entry of recovery comes due and is drained before recovery commits; the row is processing, so the id is dropped. |
| `JobQueue_unregistered` (`MCJobQueue`) | `StartedJobEnds` | README.md:437. `get_executor` (loop.py:221) raises outside the handlers of a failed execution; the job stays processing. |
| `Queues_fifo` (`MCQueues`) | `FifoWithinTier` | README.md:404. Two jobs enqueued closer together than a last place of their scores are served in the order of their ids. |
| `WorkerProcess_graceful` (`MCWorkerProcess`) | `StopIsGraceful` | README.md:423. A worker asked to stop takes the next job. |
| `WorkerMetrics_failed` (`MCWorkerMetrics`) | `FailedCountsJobs` | telemetry.py:151. A job that fails once and then completes is counted by `jobs_failed`. |
| `WorkerMetrics_negative` (`MCWorkerMetrics`) | `ActiveIsNotNegative` | telemetry.py:183. The session in which a cancelled job's outcome is discarded fails on closing; the gauge, lowered already, is lowered again. |
| `JobListing_missed` (`JobListing`) | `NothingIsMissed` | A job is committed between the count and the page: it takes the place of one that was there from the start, on a page the stale total says is the last. |
| `WorkerMetrics_active` (`MCWorkerMetrics`) | `ActiveIsProcessing` | telemetry.py:182. An error in `handle_failure` leaves the gauge at 1; another process recovers and ends the job. |

`late_claim` is the reason for `PromptClaims`: without it, `NoLostJob` fails in
`steady` although nothing fails and no one cancels.

Operators described as *faulty variants* stand before the operator they are a
variant of. Substituted for it they make a property fail; they are named in
`PROJECT.json` under `mutants` and used nowhere else.

## 4. What is proved

The assumptions on constants (`JobAssumption`, `WorkerAssumption`,
`ApiAssumption`, `TimingAssumption` and those of the smaller modules) are typing,
that sets are finite where they are counted, and, in `QueueAssumption`, that the
tiers of the scores lie apart. What a theorem needs beyond these it names in an
ASSUME of its own.

### The job queue

`JobQueueTheorems` proves, for all values of the constants:

* `TypeCorrect`, `Exclusion`, `AttemptsAreCounted`, `RetriesAreBounded`,
  `OutcomesAreRecorded`, `NoneIsLeftProcessing`: `Spec => []P`, and
  `RetirementIsFinal`: `RetiredIsFinal` as an action property;
* `RecoverySparesTheLiving`: `StuckIsOrphan` given `ThresholdExceedsTimeout`.

None of the invariants is inductive. That two workers do not execute the same
job needs that its id is in one place only; that attempts are not lost needs
that the row a session loaded is still the one stored when it commits. `IInv`
(module `JobQueueInvariant`) says so:

* `LocalInv`: how `held`, `claimed`, `todo` and `session` go with `pc`;
* `ExistenceInv`: nobody writes to a row that does not exist, and an id that
  has not been pushed is nowhere;
* `TokenInv`: the id of a job is a token, in `queue:priority`, in `queue:retry`
  or held by one worker. The exception is `handle_failure` between the push of
  the retry entry and its commit: the token may already be in another worker's
  `claimed`, but not in `queue:priority` and in no other worker's hand;
* `FreshInv`: at a commit the stored row is the loaded one, at most cancelled
  or aged in between (`Agree`), and a job a worker works on is not queued, which
  is why the other worker drops the token in the exceptional case.

`JobQueueSteps` takes `Next` apart and proves the types; `JobQueueInvariance`
proves each conjunct preserved by each action, given the others. The conjuncts
about rows (`AttemptsMatchStarts`, `RetryBudget`, `OutcomeRecorded`) are proved
through the lemma `RowSteps`, which lists the five ways a step can change a row.
`NoneIsLeftProcessing` (`ProcessingIsAttended`) adds that a row becomes
processing only by the commit of a start (`ProcessingBegins`), that without a
fault a worker leaves a job at four places (`WorkEnds`), and that an outcome,
once committed, leaves no processing row behind (`OutcomeLeaves`).
`RetirementIsFinal` and `RecoverySparesTheLiving` rest on `IInv` and on lemmas
that say by which step a worker comes to work on a job (`WorkBegins`), a row
comes to look stuck (`StuckBegins`) and a session is opened (`SessionOpens`).

**No job is lost.** `LossNeedsFault` (`OnlyFaultsLose`) and `QueuedIsWaiting`
(`faults = 0 => NoLostJob`) take as hypotheses, in this order of importance:

* `PromptCommits` and `PromptClaims`: run `late_claim` shows what happens without
  the second; without the first another worker takes the retry entry before the
  row is queued, and drops it.
* `Preloaded = Job`: the creations are over. Run `created` shows the loss without.
* `Canceller = {}`: a cancel request takes the id out of the queues before it
  commits, and may fail in between.
* for `QueuedIsWaiting` also `ThresholdExceedsTimeout` and `Unregistered = {}`:
  otherwise recovery may put back a job that is being executed, or one whose
  worker has left it processing. `OnlyFaultsLose` excepts recovered jobs instead.

The proof adds `HandoverInv` to `IInv`: once an execution is over, no drain has
this job's entry found and its ZREM still to send, and the entry `handle_failure`
has pushed is still `waiting` when it commits. It takes both timing constants to
keep it, one for each conjunct. The rest is the question by which steps an id can
leave the last place it is in.

**Outcomes.** `OutcomesAreFresh` (`Undisturbed => OutcomeNotStale`, given
`ThresholdExceedsTimeout` and an executor for every type) and
`RowsFollowLifecycle`, the safety part of `ImplementsLifecycle`: the initial
states map to initial states of `Lifecycle`, every step to a step of one job or
to none. Both rest on `CalmInv`: until something fails or someone cancels,
recovery has selected nothing, and the row of a job in hand is the one its worker
has loaded, to the last column; only its own commits write to it (`CalmRow`).

**One worker process.** `SoleWorkerKeepsBudget` and `SoleWorkerKeepsCount`
(`ExecutionsWithinBudget`, `AttemptsNeverDecrease`) assume one worker
(`Single`) and nothing else: any cancellations, any faults, a stuck threshold as
short as one likes. `IInv` says nothing of jobs that recovery has put back;
`SoleInv` speaks of all jobs. What recovery or the loop has loaded is what is
stored at its commit, at most cancelled in between, and the starts on record never
exceed the attempts.

`HandoverInv`, `CalmInv` and `SoleInv` were checked by TLC before they were
proved: on 2 workers, 2 jobs and 2 faults; on 2 workers, a cancel request and 2
faults; on 1 worker, a cancel request and 2 faults, without timing assumptions.

### What is built on the job queue

`ExtensionTheorems`. `WorkerMetrics` and `Queries` add variables and leave
`JobQueue` as it is (`MetricsAreHarmless`, `ReadersAreHarmless`: their
specifications imply `Spec`), so all of the above holds of them.

* `LogsAreAhead` (`LogsCoverAttempts`): the starts of a job only grow
  (`StartsGrow`), so that the row read first is not ahead of the logs read next
  (`DetailInv`). `AverageIsThere` (`CompletedHaveAverage`, with the hypotheses
  of `OutcomesAreFresh`): a completed row was started, keeps its time, and
  nothing undoes it (`AverageInv`). `QueriesTypes` needs finitely many jobs.
* `ActiveIsExactOrHigh` (`ActiveIsWorking`): each step of a worker raises,
  lowers or leaves its gauge as it enters, leaves or does not touch an
  execution; the exceptions are faults, among them the error that lowers it once
  more, and the missing executor (`ActiveMoves`). That error needs a cancelled row,
  and a row is cancelled by a request that has ended (`CancelInv`).
  A job without an executor that has been started stays on record
  (`WorkIsStarted`), which is what excuses the gauge for good.
* `CompletionsStand` (`CompletionCountStands`): when a completion is counted its
  row is completed or was cancelled meanwhile, no other worker is at it, and
  none comes to it (`CompletionInv`). `CountersAreRight` (`CountersAgree`): one
  invariant for the failed attempts, of which as many are not yet decided as
  workers stand between the two counts (`FailuresOK`), and one for the outcomes
  (`OutcomeOK`).
* `MetricsTypes`: the counters are naturals, `jobs_active` an integer that may be
  negative.
* Every step with signals is a step of `JobQueue` under `faults + kills`, or none
  (the lemma `StopsImplementCrashes`). The invariant (`StopInv`) says
  that a worker asked to stop is up, and that stops, those asked for included,
  are within their budget. With the theorems of `JobQueueTheorems`, instantiated
  under this mapping (`Stopped`), it gives `StopsLoseWhatIsInHand`
  (`OnlyStopsLose`) and `StopsKeepPromises`.

### The smaller modules

`IdempotencyTheorems` proves, for any number of requests and keys, with no
assumption at all: `IdempotencyTypes`, `OneJobPerKey`, `LostRacesResolve`,
`AnswersStand`, `LosersAreSilent`, and that
`get_or_create_job` implements `JobRegistry` (`ImplementsRegistry`) and the
creations of `Api` (`ImplementsCreation`). `SameJob` is not inductive: an answer
names a committed row, and there is one per key only because an insert waited
for the open ones. The `IInv` of this module says that a key is held by one
row at most, committed or not, that an answer names a committed row with the key
of its request, and that a request in `conflict` has lost to a committed row.
On a connection pool of any size the requests implement `Idempotency`
(`PoolImplementsIdempotency`), so that these results hold there
(`PoolKeepsPromises`). `BlockersAreConnected` is why the pool and the unique index
do not wait for each other: a transaction that an insert waits for has its
connection until it ends, and needs no other.

`QueueTheorems` proves `PopsForemost` (`TiersAreServedInOrder`) and
`FifoUpToQuantum` (`TiersAreNearlyFifo`) for any number of jobs, any weights that
lie further apart than the horizon of the clock and two last places, and any
quanta (`QueueAssumption`). Rounding moves a time by at most half a quantum
(`RoundingIsClose`), so scores of different tiers do not meet (`TiersApart`) and
two scores of a tier change places only within one quantum.
`DrainsTakeFullBatches` (`BatchIsDrainBatch`): the entries that are due are
numbered without repetition by those before them (`DueInOrder`, `DuePlaces`), so
that a limit cuts off exactly that many (`FirstNumbers`).

`JobListingTheorems` proves `NothingIsJumped` (`NothingFallsBehind`) for any
finite set of jobs and any page size. The invariant adds that only jobs whose
creation has begun are committed, and that what was in the list still is: then
`created` of a row never changes, the number of a row (`UpTo`) only grows, and a
page shows exactly the numbers behind those of the page before it
(`PagesAdjoin`). `MissedAreLate` (`MissedAreOutnumbered`): at the end the pages
reach as far as the total (`EndInv`), so what was not shown has a number beyond it
(`MissedLieBeyond`), and there are no more such rows than rows beyond the total.
`PagesAreFull` (`PageIsFull`) adds that no two rows were created
at the same time (`OrderInv`), so that rows are numbered without gaps
(`RowsAreNumbered`), and that the total was counted before the page was read.

`GaugeTheorems` proves `GaugesKeepUp` (`NoGaugeLeftBehind`) and `ShortAtFirstOnly`
(`FullAfterFirstGoodRound`) for any number of rounds. How far the poller has come
says which lengths are of this round (`SetOK`), what is older was left by a round
that failed (`BehindOK`), and a walk that began when a round had gone well meets
three keys all along (`WalkOK`).

### What is only model-checked

* Liveness: `EveryJobSettles`, `OrphanSettles`, `StoppedJobSettles`,
  `ProcessingPageMovesOn`, `EveryRequestAnswered`, `ConnectionsComeBack`, and the
  fairness part of `ImplementsLifecycle`. It needs ENABLED of fair actions, which is
  out of the prover's reach.
* The violations of section 3, which are single behaviours.

## 5. What is left

Worth doing next: `LossNeedsFault` with creations and cancellations that commit
promptly in place of none at all, and an abstract specification of the queues in
which an id is one token, for `TokenInv` to be the refinement mapping of.

Not modelled, and why:

* The arithmetic of the backoff (`retry_service.py`) is one expression without
  state; the models take any delay of a second or more. Its cap of 3600 seconds
  (README.md:458) lies beyond what ten attempts can reach.
* A filter on the status in `GET /jobs`, and rows with equal `created_at`, whose
  order SQL leaves open: rows leave such a list between pages, and nothing says
  that they are not passed over.
* The depths of the queues in the reply of `GET /metrics`: three more statements
  that nothing relates to the rest.
* Rate limit, CORS, request ids, tracing and histograms: library code or
  logging, of which no state above depends.
* Settings, request schemas, migrations, container files: declarative.
* The presentation part of the dashboard, and the executors, which sleep.
* The Redis pool (`client.py:15`) refuses a command when its 20 connections are in
  use; to the callers this is an error of Redis, which the faults contain.
