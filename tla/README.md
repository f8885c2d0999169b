# Formal model of the distributed job scheduler

TLA+ specifications, TLC configurations and TLAPS proofs for the job scheduler
in `src/backend`. The modules are translated from the code; where a comment or
a document says something else, the section *Disagreements* says so.

## The system

A FastAPI service and its database hold all state. Worker processes and one
scheduler process drive it; operators and a web dashboard use the same API.

| Component | State | Operations | Model |
|---|---|---|---|
| Job lifecycle (`services/job_service.py`, `routers/workers.py`, `routers/jobs.py`) | `jobs`, `job_executions`, `dead_letter_entries` | start, result, retry, dead-letter, release dependents, cancel, manual retry | `JobLifecycle` |
| Claim transaction (`services/claiming.py`) | `jobs.state/owner/lease`, row locks, the call's variables | `claim_jobs`, `reap_expired_leases` | `Claiming`, `AtomicClaim`; reaping also in `JobLifecycle` |
| Retry backoff (`services/retry.py`) | the policy snapshotted on a job | `compute_backoff_seconds` | `RetryBackoff` |
| Submission (`job_service.create_job`, `create_batch`, `replay_dead_letter`) | `jobs`, `replayed_at` | submit, batch, replay | `Submission` |
| Worker process (`runtime/worker.py`) | thread pool, `_active`, `_stop` | register, poll, run a job, heartbeat, drain | `WorkerProcess`; the loss of its requests in `JobLifecycle` |
| Scheduler process (`runtime/scheduler.py`, `services/scheduling.py`) | none | the four passes of a tick: promote, fire cron, reap workers, reap leases | `SchedulerProcess` |
| Cron schedules (`models/scheduled.py`, `routers/jobs.py`) | `next_fire_at`, `last_fired_at`, `is_active` | create, toggle, fire | `CronSchedules` |
| Worker registry (`routers/workers.py`) | `workers`: status, heartbeat, counters | register, heartbeat, report, reap | `WorkerRegistry` |
| Queue administration (`routers/projects.py`) | `is_paused`, `concurrency_limit`, retry policy | pause, resume, update | `Claiming`; the policy in `RetryBackoff` |
| Accounts, dashboard, handlers, plumbing, migrations, frontend | | | not modelled, see below |

How they interact: a worker polls `claim`, posts `start`, runs the handler,
posts `result`, and heartbeats every 5 s from another thread. The scheduler
ticks every 2 s. All of them meet in the rows of `jobs`, and nothing but the
database coordinates them. A handler loads a row, tests it in Python, assigns
attributes and commits; the ORM writes only the changed columns, by primary
key, without comparing the others. So every handler has a window between its
test and its write, and that is where the hard behaviours of this code are:

* interleavings of start, result, cancel, retry and reap on one row;
* crashes of a worker between claim, start, handler and result; lost requests
  and responses (the worker sends each request once and only logs a failure);
* leases that pass while their owner is alive but slow, and results that
  arrive after the job has been given to someone else;
* two claims counting the same free slot, two claims selecting one candidate;
* a dependent submitted, cancelled, retried or becoming due while its parent
  completes;
* two submissions of one idempotency key between lookup and insert; a replay
  that fails between its two commits;
* a scheduler whose passes come one after the other, each in a transaction of its
  own: one that raises keeps the rest from running, a crash comes between any two;
* an operator's toggle and a heartbeat, which decide on a row that the
  scheduler changes before they commit;
* a queue's policy or pause that changes under jobs and claims already under way;
* a worker's main thread counting free slots from `_active`, which its pool
  threads only raise later, and a signal while a claim is under way.

What makes each component correct is stated by the properties below.

## Modules

* `JobTypes` - the enumerations of `models/enums.py`, and a lease as the reaper
  sees it: NULL, in the future (`live`), passed (`lapsed`).
* `JobLifecycle` - the job rows and everything that writes them. `row[j]` holds
  the columns that matter (`state`, `attempts`, `owner` =
  `claimed_by_worker_id`, `lease`, `due` = `run_at <= now`, `dep` =
  `depends_on_job_id`). A *delivery* `d` is one job handed to one worker by one
  claim: `phase[d]` says how far the worker and the handlers serving it have
  come, `seen[d]` is the row a handler has loaded, `exec[d]` its
  `job_executions` row, `d \in dlq` its dead letter entry. `usr[u]` is the
  request of an operator. Handlers are a read action and a commit action
  (`StartRead`/`StartCommit`, `ResultRead`, `ReadDependents`, then `Complete`,
  `DeadLetter` or `ScheduleRetry`; `CancelRead`/`CancelCommit`,
  `RetryRead`/`RetryCommit`); `Flush` is the ORM's write of changed columns.
  `Claim`, `Heartbeat`, `Promote` and `Reap` are single UPDATE statements.
  `Ripen` and `Lapse` are the clock, `Crash` a worker's death, `Drop` a lost
  request or a rolled back transaction.
* `Claiming` - `claim_jobs` taken apart: `ReadQueues`, `VisitQueue`, `Select`,
  `Update`, `Commit`, several workers at once, with `Abort` and with the other
  transactions that touch the rows (`Leave`, `Requeue`, `Enqueue`, `Cancel`,
  `StartRead`/`StartCommit`, `SetPaused`, `SetLimit`). A row is `active` as a claim
  left it, or `revived` by a start that wrote RUNNING over a row that had moved
  on; both take a slot. `db` chooses PostgreSQL (row locks, SKIP LOCKED) or
  SQLite (one write lock, taken by a transaction's first UPDATE).
* `AtomicClaim` - what claiming promises: a job is handed to one worker in one
  step. `Claiming!ImplementsAtomicClaim` is the refinement; it is what allows
  `JobLifecycle!Claim` to be one action.
* `JobService` - what the service promises for a job nobody cancels or retries by
  hand: the states of `models/enums.py` and the arrows of `docs/ARCHITECTURE.md`
  as single steps. `JobLifecycle!ImplementsJobService` is the refinement; its
  mapping takes the columns of the rows, and the dead letters of deliveries as
  those of their jobs. Each commit of a handler is one arrow or none.
* `RetryBackoff` - `compute_backoff_seconds` over the failures of one job;
  seconds are integers and the jitter a fraction of `Scale`. `CreateJob` takes the
  queue's policy and the overrides of the request into `policy`, `UpdateQueue`
  replaces the queue's policy at any time. `attempt` is the counter as `Start`
  writes it, from a row that may be stale, and `RetryJob` sets it to 0; `Fail` is
  a failure of any execution, late ones included; `failed`, `nominal` and `delay`
  are what the last one found and computed.
* `Submission` - how jobs come into being, and how dependents are released. A
  request `req[c]` is a read and a commit: `LookUp` and `Insert` are `create_job`
  with a key, `Submit` without one, `Batch` is `create_batch`, `LoadEntry`,
  `ReplayJob` and `MarkReplayed` are the two commits of a replay. `exec[p]` is the
  execution of a job: `Start`, then `LoadDependents` and `Complete` (`complete_job`
  with `_release_dependents`), `FailAttempt` (back to SCHEDULED, the dependency
  kept), `Die`, or `Lose`. `Cancel` and `Retry` are the operator's. Rows are numbered
  in the order of the inserting commits, `loaded[p]` remembers how many there were
  when `p`'s handler asked for its dependents, `cancelled` which jobs an operator
  has ever cancelled. `Fail` ends a request between steps. A job has one execution
  at a time here; what several of them do to a row is `JobLifecycle`'s.
* `WorkerProcess` - one worker process: the main thread (`Register`, `Poll`,
  `ClaimReply`, `Dispatch`, `StartDrain`, `Exit`), the pool (`Take`, `Enter`,
  `Start`, `Report`, `Leave`, the steps of `_run_job`), the heartbeat thread,
  `Signal`. `state[j]` and `lease[j]` are the job's columns as far as this
  worker goes; other workers take what is queued. Time is a number of ticks. A
  heartbeat takes time: `SendBeat`, the server's commit (`BeatWrites`, or
  `LateBeatWrites` once the client has given up), and the answer, an error or the
  timeout (`BeatReturns`), after which the thread sleeps; `post` and `beat` say
  where it is and for how long. `missed` counts heartbeats failed in a row, and
  stays above `MaxMissed` once there were more or one was not over within
  `PromptTicks`; `Steady` says that neither has happened.
* `CronSchedules` - recurring schedules. The dates of an expression are numbered
  and `slot[x]` counts those that have come, so `next[x] <= slot[x]` is
  `next_fire_at <= now`. `ToggleRead`/`ToggleCommit` are the API request, `Load`
  and `Fire` the pass `fire_due_cron`, `FireRaises` the pass whose `get_next`
  finds no further date.
* `WorkerRegistry` - the `workers` rows beside the leases of jobs: `RegisterWorker`,
  `HeartbeatRead`/`HeartbeatCommit`, `ReapDeadWorkers`, `ReapExpiredLeases`,
  `PromoteDue`. `age` and `since` count ticks since `last_heartbeat_at` and since
  a lease was set; `ShownAlive` is how the dashboard counts workers.
* `SchedulerProcess` - the loop of `runtime/scheduler.py` over the tables of the
  two: `at[s]` is the pass to come, `Fault` a failed pass or a crash, `Restart`
  the supervisor's. The operations of the two modules are its actions; each
  leaves the other's tables alone.
* `MCJobLifecycle`, `MCClaiming`, `MCRetryBackoff`, `MCSchedulerProcess`,
  `MCSubmission` - constants for the instances.
* `JobLifecycleProofs`, `ClaimingProofs`, `SubmissionProofs`, `RetryBackoffProofs`,
  `WorkerProcessProofs`, `SchedulerProcessProofs` - theorems about these modules.
  `TimelyLifecycleProofs` and `JobServiceProofs` continue the first of them, for
  the timely regime.

`...` definitions commented *Fault* are plausible bugs; no action uses them.
Substituting one for the definition it follows makes a property fail, which
shows that the property depends on that line of the code.

## Runs

| Run | Instance | Shows |
|---|---|---|
| `lifecycle_operators` | 1 job, 2 workers, 1 operator, 2 deliveries, `max_attempts` 2, lossy, leases pass at any time | types; attempts never exceed executions; dead letters only after all attempts; DEAD has an entry; COMPLETED has a success |
| `lifecycle_timely` | a chain of three jobs and one of its own, a crashing and a reliable worker, 4 deliveries, lossy, timely, no operator | refinement of `JobService`; one execution at a time; an active job has a lease; attempts are exact, and exceed the maximum only by lost attempts; one dead letter exactly when DEAD; dependents wait, and only their parent's success releases them |
| `lifecycle_progress` | parent and dependent, one worker crashes, fairness | every job finishes; a dependent follows its parent |
| `claim` | 2 workers, 2 queues, 3 jobs, batch 2, limits 1 and 2, both databases, rollbacks, jobs that arrive for ever, fairness | refinement of `AtomicClaim`; uncommitted claims cannot be invalidated; the guarded UPDATE always wins on PostgreSQL; the limit as read holds per worker; a job is passed over for ever only by jobs served before it that keep arriving |
| `backoff` | all strategies, bases 0-3, factors 1-3, caps 0-20, jitter 0, 1/2, 1, five attempts; operators change the queue's policy and retry the job | jittered cap; shorter only after the counter was set back; geometric, also after a reset |
| `submission` | 2 clients, 1 key, 3 jobs, batch 2, one job cancelled, one dead, requests and results fail anywhere | one job per key; a dependent is left behind only by coming late or being cancelled; a marked entry has its fresh job |
| `worker` | 2 jobs, 2 threads, batch 2, lease of 3 ticks, a tick between heartbeats, a timeout of 3 ticks; fairness | while no heartbeat is slow and never two in a row fail, leases last and a job is in one place of the process; a stopped worker leaves nothing claimed, and does stop |
| `scheduler` | 1 scheduler, 1 schedule of three dates, 1 operator, 1 worker, 1 job, timeout of 2 ticks, 1 fault; fairness | a date fires once; a schedule switched off falls silent; a worker shown alive keeps its jobs; unless a schedule that has ended is left switched on: a due schedule fires, DEAD follows the process, the jobs of a dead worker are recovered |
| `lost_response`, `claim_over_limit`, `live_worker_reaped`, `ended_schedule` | smallest instances | the disagreements below |

**Bounds.** `MaxClaims` bounds deliveries, because each carries its own
snapshot. Two deliveries of one job are what a race of an old and a new
execution needs; two with `max_attempts` 2 reach DEAD, a late result after it, a
manual retry from it. In the timely run four deliveries let a chain of three
complete with a retry, a lost attempt or a redelivery of one of its jobs, or two
jobs die; the fourth job is there for what a delivery must leave alone. The
progress run has six, four for a parent of at most two failures and one crash.
`MaxMoves` bounds
the pauses, limit changes and late starts that meet the claims: one suffices to
invalidate anything a claim has read. Arrivals, reaping, results and cancels are
not bounded. `qa` is served first and has one job and one slot, `j2` and `j3`
compete for one or two slots of `qb`, which the second worker serves alone. Two workers suffice for a
race of two claims; the theorems hold for any number of each. In `submission`
three jobs are a parent, a dependent that comes in time and one that comes late,
or a dead job and two replays of it; a second key would only be a second copy,
and a second death of a job adds an entry like the first (`Die`); `MaxCancelled`
and `MaxDead` are 1, one dependent or parent that is cancelled and one dead job. In
`worker` two threads are what a double hand-out needs, two jobs what a backlog
needs. A tick stands for 10 s there: the lease lasts three, as does the client's
timeout, at most one passes between two heartbeats, and a heartbeat is prompt when
it is over in the same one. A lease of 3 ticks is the shortest that survives one
failed heartbeat. `MaxCopies` 1 lets a job wait in the pool once: a second copy can
only appear after a slow heartbeat. In
`scheduler` the three dates (`MaxSlots`) are a date missed, the one that fires for
both, and the last of the expression, after which `get_next` raises; a
timeout of 2 ticks tells a beat in time from a late one and from none. Rows of
one table meet only in the passes, which treat them alike, so one schedule, one
worker and one job show each race with a pass; `ended_schedule` has a second
worker, which could take over the job. `MaxFaults` 1 puts one failure or crash at
every point of a tick; a second one finds the state the first has left, because
the scheduler keeps none of its own.

**Environment.** `Lossy` allows any request, response or transaction to fail.
`Timely` states the regime the defaults are made for: a lease of 30 s against
heartbeats of 5 s, so it passes only when its owner is gone and no handler of
the job is still running. The runs without it let leases pass at any time. How far
heartbeats justify it is the question of `WorkerProcess`: the answer is yes while
they are `Steady`, and `LeaseAssumption`, (MaxMissed + 1) * (PromptTicks + BeatTicks)
+ PromptTicks < LeaseTicks, says what the defaults allow: heartbeats over within
5 s, one of which may fail. One that runs into the client's timeout of 30 s
(`runtime/worker.py:35`) does not fit into a lease. In
`WorkerRegistry` a tick is a heartbeat interval and requests are shorter than a
tick; how long a pass of the scheduler takes is left open.

**Fairness.** The worker loop, the scheduler loop and the heartbeat thread run
for ever and survive exceptions (`while not self._stop...`, `try` around the
body), the API answers, handlers return, time passes: weak fairness of each
worker that never crashes, each delivery, promotion, reaping, and the clock.
No fairness on crashes, losses, operators, or a worker that may crash. In
`WorkerProcess` the main thread and the pool threads are scheduled, a request
ends by the client's timeout (`httpx.Client(timeout=30)`), handlers return;
nobody need send a signal. In `Claiming` workers poll, a worker's
transactions are not rolled back for ever, and what runs is reported (a revived
job too: the result handler does not look at the owner). Nothing there says that
jobs stop arriving, so `PassedOverOnlyByArrivals` is about jobs that wait for ever
and allows just that: on PostgreSQL some job of a queue of at least the same
priority, or of the same queue and not ranked behind, becomes QUEUED again and
again. On SQLite any job does, because its claim competes for the one write lock,
which is not handed out in turn. In `SchedulerProcess` the loop runs, a supervisor restarts it
(`docs/DESIGN_DECISIONS.md:100`), workers that are up send heartbeats and time
passes; faults are finitely many, and nothing obliges an operator to toggle, a
worker to claim or report, or a date to come.

Deadlock is not checked in the lifecycle and backoff runs, where a finished
history, or one at its delivery bound, stops, nor in the runs of
`WorkerProcess`, where an exited process does. The other runs check it: a
claiming worker polls again, a client submits again, a scheduler ticks on.

## Disagreements

* `lost_response`: `docs/ARCHITECTURE.md:125` says the system targets at-least-once
  execution. A claim whose response is lost is never executed: the worker does
  not know of it, and its heartbeats renew the lease of every job the database
  says it owns.
* `claim_over_limit`: `docs/ARCHITECTURE.md:133` says a queue cannot exceed its
  parallelism. Counting and claiming are separate statements. What does hold is
  `PerWorkerWithinLimit`, of the limit as it was read and of jobs handed out by
  claims.
* `live_worker_reaped`: `routers/workers.py:55-56` says a live worker never has
  its in-flight jobs reaped. The heartbeat loop ends with the stop event
  (`runtime/worker.py:70`), the drain may outlast the lease: a job still running
  is given to another worker, however prompt the heartbeats were.
  `LeaseKeptWhileServing` is what does hold.
* `ended_schedule`: `docs/ARCHITECTURE.md:147` says that a crashed worker's jobs are
  requeued. An expression that names a year runs out of dates; `get_next` then
  raises in every tick before the passes that reap, so one schedule stops all
  recovery, and all other schedules, until somebody switches it off. It is also
  a failure the scheduler does not have according to
  `docs/DESIGN_DECISIONS.md:95-97`. What does hold are `OrphansReturn`,
  `StatusSettles` and `DatesFire`: once no such schedule is left switched on, the
  passes catch up.

Observations made while modelling, which no run checks: a worker one of whose
heartbeats runs into the client's timeout renews its leases 35 s apart, more than
the 30 s they last, so a job it is working on may be reaped and run elsewhere
(`runtime/worker.py:35` and `:78`, against `routers/workers.py:55-56`); a queue of
higher priority that never runs dry starves the others (`services/claiming.py:67`);
a dependent submitted in time, cancelled, retried and failed after its parent has
completed waits for ever (`services/job_service.py:232`); a manual retry resets
the counter, so the next failure waits the base delay again (`routers/jobs.py:131`);
cancelling a running job
does not stop it, and a manual retry queues it again, so that it runs twice at a
time (`routers/jobs.py:121`, against `README.md:280`); a dependent created after
its parent finished waits for ever (`services/job_service.py:88`); a replay
creates a fresh job, so dependents of the dead one are not released by its
success (`services/job_service.py:263`); several missed cron times fire once
(`services/scheduling.py:62`); a result overwrites
CANCELLED (`routers/workers.py:103`); the execution row of a crashed worker
stays RUNNING (`services/claiming.py:131`; `LOST` in `models/enums.py:45` is
never written); a job that kills its worker is redelivered without end
(`services/claiming.py:139`); a dependent that is cancelled and retried runs
before its parent (`routers/jobs.py:130`); a start that commits after the job
was reaped leaves it RUNNING without owner or lease, which the reaper skips
(`services/job_service.py:153`); jitter is added after the clamp, so a delay
may exceed `max_delay` (`services/retry.py:46`, against the docstring at 32);
two schedulers that load a due row before either commits fire its date twice, so
a tick is not idempotent (`services/scheduling.py:46`, against
`docs/DESIGN_DECISIONS.md:101-102`; `OncePerDate` is proved for one scheduler); a
schedule switched on again after its date fires at once, for the date it was
off on (`routers/jobs.py:180`); of two toggles at a time one is lost
(`routers/jobs.py:180`); of two results at a time one is not counted
(`routers/workers.py:114`); `timezone_name` is stored and never used
(`services/scheduling.py:61`), nor is `rate_limit_per_sec` (`models/queue.py:59`); a
recurring job posted to a queue's jobs runs once (`routers/jobs.py:45`).

## Proofs

`JobLifecycleProofs` proves of `JobLifecycle!Spec`, for every set of workers,
operators and dependencies, every finite set of jobs, every bound, with and
without `Lossy` and `Timely`: `TypeOK`, `AttemptsCounted`,
`DeadLetteredAfterAllAttempts`, `DeadHasLetter`, `CompletedHasSuccess` and
`ReleasedByParent`. The assumptions are those the module names.

None of the six is inductive: a handler writes back what it has read steps
ago, so what holds of the rows has to hold of every snapshot (`seen[d]`,
`usr[u].seen`) as well, and survive until it is written. The invariant is

* `TypeInv` = `TypeOK` and `Plumbing`: phases, jobs and snapshots fit together;
* `Counted`: the attempts of a row, and of each snapshot, are at most the
  executions of the job, strictly fewer in the snapshot of a start;
* `Grounded`: a row or snapshot that is DEAD has an entry, one that is
  COMPLETED a success, one without its dependency a succeeded parent; every
  entry has its executions behind it.

They are preserved because executions, entries and successes only ever grow
(`ExecsGrow`), and because `Flush` takes each column from the row or from the
new value (`FlushColumns`), so each column's claim can be carried over alone.

`TimelyLifecycleProofs` assumes `Regime`: `Timely`, and no operators. It is the
regime of `lifecycle_timely`, with any jobs, dependencies and workers, crashes
and losses included; without it the properties are false (see the observations
above). `SingleExecution`, `ActiveIsLeased` and `DependentWaitsForParent` follow
from one invariant, `Exclusive`. Reaping is harmless if no handler still serves
the job, and only a live lease says so. So a delivery in a worker's hands (claimed,
or in any step of a handler) has a row that names this worker, with a live lease,
in the state the delivery has reached, and snapshots equal to the row (`Working`);
no two deliveries in hand are of one job; and a row that still depends on its
parent is SCHEDULED (`Sound`). The second part needs the first: what is claimed is
QUEUED, hence in nobody's hands. With snapshots up to date, each commit has the
effect its handler intends (`StartEffect` and the lemmas after it); a lost delivery
leaves its row to the reaper.

`JobServiceProofs` draws on it. `LifeStep` sums up what a step can do to the state
and the attempts of a job, so each result below is an induction on eight cases
rather than on all actions of the module:

* `AttemptsExact`: a start is the only step that raises either count, and it raises
  both, because its snapshot is the row;
* `OneDeadLetter`, by `OneLetter`: an entry and DEAD are written in one commit, by
  the only delivery in hand, and nothing leads out of DEAD;
* `AttemptsWithinMax`, by `Budget`: a job that may be executed again, whether it
  waits, is claimed, or was left RUNNING by a worker that is gone, has an attempt
  to spare, or else one whose result never came. The bound alone is not
  inductive: a start raises the attempts without looking at `max_attempts`, which
  only `fail_job` compares, after the attempt;
* `FinishedForGood`: COMPLETED and DEAD are final, no execution is added. The
  handler that could is one with the job in hand, and its row is still active;
* `ExecutionsWithinMax`: where nothing is lost and no worker dies, every result
  arrives (`Reported`), and `max_attempts` bounds the executions themselves;
* `ImplementsJobService`: `Claim` is `Hand`, `StartCommit` `Begin`, `Complete`
  `Succeed`, `DeadLetter` `GiveUp`, `ScheduleRetry` `FailAgain`, `Promote` `Promote`,
  `Reap` `TakeBack`; every other action changes no column the
  mapping takes, and is a stutter. One lemma each, then `ServiceNext`.

`ClaimingProofs` proves all safety of `Claiming!Spec`, for any workers, queues,
jobs, batch and limits, on both databases: `TypeOK`, `ClaimIsFresh`,
`GuardAlwaysWins`, `BatchBounded`, `PerWorkerWithinLimit`, and that it implements
`AtomicClaim`. `LockInv` adds to `ClaimIsFresh` what PostgreSQL's locks say of
selected candidates; with it, and with every active job having an owner, each
step maps to a step of the abstract hand-out or to none: a late start over a job
that is queued again withdraws it, a revived job is in nobody's hands. `Bounded(w)` says that
between counting and updating there is room for `want[w]`, in the batch and in
the limit as read: counting the worker's own jobs it stays true, since others'
commits give this worker nothing; counting the queue's it would not.

`SubmissionProofs` proves the four invariants of `Submission!Spec`, for any
clients, keys, batch size, and numbers of jobs, cancels and deaths. `Keyed` adds
that rows have unique keys and that answers point at rows with their key; `Replays`
that a request about to mark an entry has inserted its job. `Left` says that a job
which still depends on another is waiting, and in no execution, unless it was ever
cancelled; and that, between a parent's query and its commit, a waiting dependent
is among those loaded, newer, or was cancelled. The first part carries the second:
a dependent that nobody cancelled cannot be brought back to waiting.

`WorkerProcessProofs` proves the safety of `WorkerProcess!Spec`, for any jobs,
threads, ticks and copies under `LeaseAssumption`. `MainInv` says that `_active`
counts the threads between increment and `finally`. `Leased` bounds what is left of
each lease by the ticks to the commit of the next heartbeat that cannot fail
(`Margin`: what is left of the sleep or of a prompt answer, and MaxMissed - missed
rounds of both): being positive is not inductive, being above that margin is.
`Once` ties each place of the process to the state of its job, and needs `Leased`:
a job cannot come in a second time because its lease does not pass. Both speak of
steady heartbeats only. `Placed` says the converse, that a job held is in some
place; with `~Lossy` it gives `StopLeavesNothing`, whatever the heartbeats do.

`SchedulerProcessProofs` proves the safety of `SchedulerProcess!Spec`, for any
schedules, dates, workers, jobs, timeout and faults: `TypeOK`; `OncePerDate` when
there is at most one scheduler; `OffMeansQuiet` and `ShownAliveKeepsJobs` for any
finite number of schedulers. By `Projection` each step is one of the schedules'
tables or none, and one of the workers' tables or none, so each invariant looks
at one of them. `Ahead` says that the date a schedule waits for
lies after the one it fired last, and that what an open pass has loaded is still
due by its `now`: a fire then moves `last_fired_at` strictly. `Quiet` counts, beside
the jobs made since a schedule was switched off, the passes that still hold it
as due: a fire moves one from the second to the first. `Leashed` says that a
lease is never older than the last heartbeat of the job's holder.

`RetryBackoffProofs` proves `WithinJitteredCap`, `BackoffNeverShrinks` and
`GeometricGrowth`, for any policies within the ranges of the request schemas and
any number of attempts. The provers do not interpret `^`, so `PowerAssumption`
states of the factors the two laws of a power with a natural exponent; TLC
evaluates it in `backoff`. `OnRecord` says that the nominal delay is that of the
policy on the job, not of the one its queue has now, for the attempts the last
failure found, and that the delay lies within the jitter of it. The rest is arithmetic: no strategy shrinks
(`RawGrows`), clamping each attempt is clamping the curve (`ClampTimes`), and
jitter moves a delay by at most its fraction (`JitterBound`).

So every safety invariant and action property, and both refinements, that a
passing run checks are also proved. Only model-checked: liveness, because
fairness and ENABLED are out of the prover's reach (`EveryJobFinishes`,
`ChildFinishes`, `PassedOverOnlyByArrivals`, `StopEnds`, `DatesFire`, `StatusSettles`,
`OrphansReturn`), and the four disagreements, which are counterexamples. Only
proved: `ReleasedByParent` in the presence of operators, `BatchBounded`,
`FinishedForGood`, `ExecutionsWithinMax`.

## Not modelled

* Accounts and tenancy (`routers/auth.py`, `models/identity.py`): rows that no
  other component reads but to authorize; hashing and tokens are library calls.
* The dashboard's queries (`routers/dashboard.py`) read and change nothing; the
  one definition that matters to others, who counts as alive, is `ShownAlive`.
* Task handlers return or raise, which is all the models use; the seed script
  fills a database for a demonstration.
* Application factory, error mapping, logging and settings: configuration and
  I/O. A request's session (`get_db`) appears as the rollback of a transaction.
* Schemas and migrations describe data; constraints appear as guards of the
  actions that meet them, ranges as assumptions on constants.
* The frontend is a client of the operations above.
* Of modelled components: the counters of a worker and its heartbeat samples,
  which nothing decides on; creation of projects and queues; deadlocks between
  multi-row UPDATEs, which depend on the order the database locks rows in; the
  overflow of a float power in `services/retry.py:44`.

## Plan

1. Proofs: the lifecycle with operators. `Exclusive` holds of a job until an
   operator first commits a write to it; stated per job, the timely theorems would
   hold of all jobs that no operator has touched.
2. `Accounts`: the uniqueness of an email that registration and membership check
   before they insert (`routers/auth.py:25`, `models/identity.py`).
3. The counters of the worker registry and two concurrent toggles, if the code
   comes to promise something about them.
