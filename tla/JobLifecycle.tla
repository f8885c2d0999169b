---------------------------- MODULE JobLifecycle ----------------------------
(* The life of a job row under every transaction that writes it: claims by  *)
(* workers, the start and result handlers, the scheduler's promotion and    *)
(* lease reaping, heartbeats, and an operator's cancel and manual retry.    *)
(*                                                                          *)
(* An HTTP handler loads a row, tests it in Python, and commits later.      *)
(* Nothing locks the row in between, so a handler is (at least) two steps:  *)
(* a read that keeps a snapshot and a commit that writes.  The ORM's flush  *)
(* writes, by primary key, only the columns whose value differs from the    *)
(* snapshot.  Single UPDATE statements (claim, heartbeat, promotion, reap)  *)
(* are atomic; module Claiming takes the claim transaction apart.           *)
(*                                                                          *)
(* A delivery is one job handed to one worker by one claim.  It has at most *)
(* one start request and one result request (worker.py posts each once), so *)
(* its number also names the JobExecution row it opens.                     *)
EXTENDS Naturals, FiniteSets, JobTypes

CONSTANTS
    Jobs,          \* the job rows
    Workers,       \* registered worker processes
    Mortal,        \* the workers that may crash
    Users,         \* operators calling cancel and retry
    Parent,        \* depends_on_job_id at creation
    MaxAttempts,   \* max_attempts, snapshotted from the retry policy
    MaxClaims,     \* bound: deliveries explored
    Lossy,         \* requests, responses and API transactions may fail
    Timely         \* heartbeats and handlers are fast compared to a lease

ASSUME JobsFinite == IsFiniteSet(Jobs) /\ None \notin Jobs
ASSUME WorkersAssumption == None \notin Workers /\ Mortal \subseteq Workers
ASSUME ParentAssumption ==
    /\ Parent \in [Jobs -> Jobs \cup {None}]
    /\ \A j \in Jobs : Parent[j] # j
ASSUME BoundsAssumption == MaxAttempts \in Nat \ {0} /\ MaxClaims \in Nat
ASSUME EnvironmentAssumption == Lossy \in BOOLEAN /\ Timely \in BOOLEAN

Deliveries == 1 .. MaxClaims

VARIABLES
    row,      \* jobs: state, attempts, owner, lease, run_at <= now, dependency
    phase,    \* where a delivery is in worker and API code
    job,      \* the job of a delivery
    by,       \* the worker it went to
    seen,     \* the job row as loaded by the handler serving the delivery
    kids,     \* the dependents complete_job has loaded
    ripe,     \* those of them whose run_at had passed
    exec,     \* job_executions.status, "none" before the row exists
    dlq,      \* deliveries whose failure wrote a DeadLetterEntry
    alive,    \* worker processes running
    usr,      \* the request each operator has under way
    used      \* deliveries made so far

vars == <<row, phase, job, by, seen, kids, ripe, exec, dlq, alive, usr, used>>

Phases == {"unused", "held", "starting", "running", "completing",
           "releasing", "failing", "done", "lost"}
InApi  == {"starting", "completing", "releasing", "failing"}

Rows == [state : JobState, attempts : Nat, owner : Workers \cup {None},
         lease : Lease, due : BOOLEAN, dep : Jobs \cup {None}]

\* A job as create_job inserts it.
NewRow(j, due) ==
    [state |-> IF Parent[j] = None /\ due THEN "queued" ELSE "scheduled",
     attempts |-> 0, owner |-> None, lease |-> "none",
     due |-> due, dep |-> Parent[j]]

Blank == [state |-> "queued", attempts |-> 0, owner |-> None,
          lease |-> "none", due |-> FALSE, dep |-> None]
Idle  == [op |-> "idle", job |-> None, seen |-> Blank]

\* Session.commit(): UPDATE of the columns that changed since they were loaded.
\* run_at is written by the callers that assign it.
Merge(cur, old, new) == IF new = old THEN cur ELSE new
Flush(cur, old, new) ==
    [state    |-> Merge(cur.state, old.state, new.state),
     attempts |-> Merge(cur.attempts, old.attempts, new.attempts),
     owner    |-> Merge(cur.owner, old.owner, new.owner),
     lease    |-> Merge(cur.lease, old.lease, new.lease),
     due      |-> cur.due,
     dep      |-> Merge(cur.dep, old.dep, new.dep)]

\* Faults for the mutation runs: an attempt counted at claim time too, a
\* claim without a lease, an attempt not counted, a dead job shown completed
\* or scheduled again, a retry that drops the dependency, '' for NULL.
ClaimedCounting(r, w) == [r EXCEPT !.state = "claimed", !.owner = w,
                                   !.lease = "live", !.attempts = @ + 1]
ClaimedUnleased(r, w) == [r EXCEPT !.state = "claimed", !.owner = w]
StartedUncounted(r)   == [r EXCEPT !.state = "running"]
DeadAsCompleted(r)    == [r EXCEPT !.state = "completed", !.lease = "none"]
DeadAsScheduled(r)    == [r EXCEPT !.state = "scheduled", !.lease = "none"]
RetriedFreely(r)      == [r EXCEPT !.state = "queued", !.attempts = 0,
                                   !.owner = None, !.dep = None]
RequeuedBlank(r)      == [r EXCEPT !.state = "queued", !.owner = "", !.lease = "none"]

\* What each transaction does to a row it writes.
Claimed(r, w) == [r EXCEPT !.state = "claimed", !.owner = w, !.lease = "live"]
Started(r)    == [r EXCEPT !.state = "running", !.attempts = r.attempts + 1]
Finished(r)   == [r EXCEPT !.state = "completed", !.lease = "none"]
Dead(r)       == [r EXCEPT !.state = "dead", !.lease = "none"]
Retrying(r)   == [r EXCEPT !.state = "scheduled", !.lease = "none", !.owner = None]
Cancelled(r)  == [r EXCEPT !.state = "cancelled"]
Retried(r)    == [r EXCEPT !.state = "queued", !.attempts = 0, !.owner = None]
Requeued(r)   == [r EXCEPT !.state = "queued", !.owner = None, !.lease = "none"]

Init ==
    /\ \E due \in [Jobs -> BOOLEAN] : row = [j \in Jobs |-> NewRow(j, due[j])]
    /\ phase = [d \in Deliveries |-> "unused"]
    /\ job   = [d \in Deliveries |-> None]
    /\ by    = [d \in Deliveries |-> None]
    /\ seen  = [d \in Deliveries |-> Blank]
    /\ kids  = [d \in Deliveries |-> {}]
    /\ ripe  = [d \in Deliveries |-> {}]
    /\ exec  = [d \in Deliveries |-> "none"]
    /\ dlq   = {}
    /\ alive = [w \in Workers |-> TRUE]
    /\ usr   = [u \in Users |-> Idle]
    /\ used  = 0

----------------------------------------------------------------------------
(* Workers: claim, start, handler, result.                                  *)

\* POST /workers/{w}/claim hands job j to w; the response may get lost.
Claim(w, j) ==
    /\ used < MaxClaims
    /\ alive[w]
    /\ row[j].state = "queued" /\ row[j].due
    /\ row' = [row EXCEPT ![j] = Claimed(@, w)]
    /\ used' = used + 1
    /\ job' = [job EXCEPT ![used + 1] = j]
    /\ by' = [by EXCEPT ![used + 1] = w]
    /\ \E p \in {"held"} \cup (IF Lossy THEN {"lost"} ELSE {}) :
          phase' = [phase EXCEPT ![used + 1] = p]
    /\ UNCHANGED <<seen, kids, ripe, exec, dlq, alive, usr>>

\* start_job loads the row and answers 409 unless it is still w's claim.
Startable(d) == row[job[d]].owner = by[d] /\ row[job[d]].state = "claimed"

StartRead(d) ==
    /\ phase[d] = "held"
    /\ IF Startable(d)
       THEN /\ phase' = [phase EXCEPT ![d] = "starting"]
            /\ seen' = [seen EXCEPT ![d] = row[job[d]]]
       ELSE /\ phase' = [phase EXCEPT ![d] = "done"]
            /\ UNCHANGED seen
    /\ UNCHANGED <<row, job, by, kids, ripe, exec, dlq, alive, usr, used>>

\* start_execution: the handler runs once the worker has the response.
StartCommit(d) ==
    /\ phase[d] = "starting"
    /\ row' = [row EXCEPT ![job[d]] = Flush(@, seen[d], Started(seen[d]))]
    /\ exec' = [exec EXCEPT ![d] = "running"]
    /\ seen' = [seen EXCEPT ![d] = Blank]
    /\ \E p \in (IF alive[by[d]] THEN {"running"} ELSE {"lost"})
                  \cup (IF Lossy THEN {"lost"} ELSE {}) :
          phase' = [phase EXCEPT ![d] = p]
    /\ UNCHANGED <<job, by, kids, ripe, dlq, alive, usr, used>>

\* The handler returned or raised; report_result loads the job, whatever its
\* state and owner are by now.
ResultRead(d) ==
    /\ phase[d] = "running"
    /\ \E p \in {"completing", "failing"} : phase' = [phase EXCEPT ![d] = p]
    /\ seen' = [seen EXCEPT ![d] = row[job[d]]]
    /\ UNCHANGED <<row, job, by, kids, ripe, exec, dlq, alive, usr, used>>

\* Fault: a dependent that is not due yet is not released.
WaitingDue(d) == {k \in Jobs : row[k].dep = job[d] /\ row[k].state = "scheduled"
                               /\ row[k].due}

\* Fault: the dependents of any job are taken for those of this one.
WaitingAny(d) == {k \in Jobs : row[k].dep # None /\ row[k].state = "scheduled"}

\* _release_dependents loads the waiting dependents.
Waiting(d) == {k \in Jobs : row[k].dep = job[d] /\ row[k].state = "scheduled"}

ReadDependents(d) ==
    /\ phase[d] = "completing"
    /\ kids' = [kids EXCEPT ![d] = Waiting(d)]
    /\ ripe' = [ripe EXCEPT ![d] = {k \in Waiting(d) : row[k].due}]
    /\ phase' = [phase EXCEPT ![d] = "releasing"]
    /\ UNCHANGED <<row, job, by, seen, exec, dlq, alive, usr, used>>

\* complete_job commits the job, its execution and the dependents together.
Released(r, due) == [r EXCEPT !.state = IF due THEN "queued" ELSE @, !.dep = None]

Complete(d) ==
    /\ phase[d] = "releasing"
    /\ row' = [k \in Jobs |->
                 IF k = job[d] THEN Flush(row[k], seen[d], Finished(seen[d]))
                 ELSE IF k \in kids[d] THEN Released(row[k], k \in ripe[d])
                 ELSE row[k]]
    /\ exec' = [exec EXCEPT ![d] = "succeeded"]
    /\ phase' = [phase EXCEPT ![d] = "done"]
    /\ seen' = [seen EXCEPT ![d] = Blank]
    /\ kids' = [kids EXCEPT ![d] = {}]
    /\ ripe' = [ripe EXCEPT ![d] = {}]
    /\ UNCHANGED <<job, by, dlq, alive, usr, used>>

\* Faults: one attempt short or too many; no entry when the job was taken from the worker.
ExhaustedEarly(d) == seen[d].attempts + 1 >= MaxAttempts
ExhaustedLate(d)  == seen[d].attempts > MaxAttempts
LettersOwned(d)   == IF row[job[d]].owner = by[d] THEN {d} ELSE {}

\* fail_job, retries exhausted: DEAD and a dead letter entry.
Exhausted(d) == seen[d].attempts >= MaxAttempts
Letters(d)   == {d}

DeadLetter(d) ==
    /\ phase[d] = "failing" /\ Exhausted(d)
    /\ row' = [row EXCEPT ![job[d]] = Flush(@, seen[d], Dead(seen[d]))]
    /\ dlq' = dlq \cup Letters(d)
    /\ exec' = [exec EXCEPT ![d] = "failed"]
    /\ phase' = [phase EXCEPT ![d] = "done"]
    /\ seen' = [seen EXCEPT ![d] = Blank]
    /\ UNCHANGED <<job, by, kids, ripe, alive, usr, used>>

\* fail_job, retries left: SCHEDULED with a new run_at, which a zero delay
\* makes already due.
ScheduleRetry(d) ==
    /\ phase[d] = "failing" /\ ~Exhausted(d)
    /\ \E due \in BOOLEAN :
         row' = [row EXCEPT ![job[d]] =
                   [Flush(@, seen[d], Retrying(seen[d])) EXCEPT !.due = due]]
    /\ exec' = [exec EXCEPT ![d] = "failed"]
    /\ phase' = [phase EXCEPT ![d] = "done"]
    /\ seen' = [seen EXCEPT ![d] = Blank]
    /\ UNCHANGED <<job, by, kids, ripe, dlq, alive, usr, used>>

\* POST /workers/{w}/heartbeat renews every lease on the jobs w owns.
Owned(w) == {j \in Jobs : row[j].owner = w /\ row[j].state \in ACTIVE_STATES}

Heartbeat(w) ==
    /\ alive[w]
    /\ \E j \in Owned(w) : row[j].lease # "live"
    /\ row' = [j \in Jobs |-> IF j \in Owned(w)
                              THEN [row[j] EXCEPT !.lease = "live"] ELSE row[j]]
    /\ UNCHANGED <<phase, job, by, seen, kids, ripe, exec, dlq, alive, usr, used>>

----------------------------------------------------------------------------
(* The scheduler's passes over the whole table, each one UPDATE.  A pass     *)
(* that matches no row changes nothing, so the loop's fixed order of passes *)
(* allows exactly the sequences of passes that match something.             *)

\* Fault: the dependency is not looked at.
PromotableAny == {j \in Jobs : row[j].state = "scheduled" /\ row[j].due}

\* promote_due_scheduled
Promotable == {j \in Jobs : row[j].state = "scheduled" /\ row[j].due
                            /\ row[j].dep = None}

Promote ==
    /\ Promotable # {}
    /\ row' = [j \in Jobs |-> IF j \in Promotable
                              THEN [row[j] EXCEPT !.state = "queued"] ELSE row[j]]
    /\ UNCHANGED <<phase, job, by, seen, kids, ripe, exec, dlq, alive, usr, used>>

\* Faults: running leases are reaped too; a claimed job is not recovered.
ExpiredOrLive  == {j \in Jobs : row[j].state \in ACTIVE_STATES /\ row[j].lease # "none"}
ExpiredRunning == {j \in Jobs : row[j].state = "running" /\ row[j].lease = "lapsed"}

\* reap_expired_leases
Expired == {j \in Jobs : row[j].state \in ACTIVE_STATES /\ row[j].lease = "lapsed"}

Reap ==
    /\ Expired # {}
    /\ row' = [j \in Jobs |-> IF j \in Expired THEN Requeued(row[j]) ELSE row[j]]
    /\ UNCHANGED <<phase, job, by, seen, kids, ripe, exec, dlq, alive, usr, used>>

----------------------------------------------------------------------------
(* Operators.                                                               *)

Request(u, op, j) == usr' = [usr EXCEPT ![u] = [op |-> op, job |-> j, seen |-> row[j]]]
Answer(u) == usr' = [usr EXCEPT ![u] = Idle]

\* POST /jobs/{j}/cancel
CancelRead(u, j) ==
    /\ usr[u].op = "idle"
    /\ row[j].state \notin TERMINAL_STATES
    /\ Request(u, "cancelling", j)
    /\ UNCHANGED <<row, phase, job, by, seen, kids, ripe, exec, dlq, alive, used>>

CancelCommit(u) ==
    /\ usr[u].op = "cancelling"
    /\ row' = [row EXCEPT ![usr[u].job] =
                 Flush(@, usr[u].seen, Cancelled(usr[u].seen))]
    /\ Answer(u)
    /\ UNCHANGED <<phase, job, by, seen, kids, ripe, exec, dlq, alive, used>>

\* POST /jobs/{j}/retry: run_at becomes now; lease and dependency stay.
RetryRead(u, j) ==
    /\ usr[u].op = "idle"
    /\ row[j].state \in TERMINAL_STATES
    /\ Request(u, "retrying", j)
    /\ UNCHANGED <<row, phase, job, by, seen, kids, ripe, exec, dlq, alive, used>>

RetryCommit(u) ==
    /\ usr[u].op = "retrying"
    /\ row' = [row EXCEPT ![usr[u].job] =
                 [Flush(@, usr[u].seen, Retried(usr[u].seen)) EXCEPT !.due = TRUE]]
    /\ Answer(u)
    /\ UNCHANGED <<phase, job, by, seen, kids, ripe, exec, dlq, alive, used>>

----------------------------------------------------------------------------
(* Time and failures.                                                       *)

\* run_at passes, while the job is in a state in which anyone compares it.
Ripen(j) ==
    /\ ~row[j].due /\ row[j].state \in {"queued", "scheduled"}
    /\ row' = [row EXCEPT ![j].due = TRUE]
    /\ UNCHANGED <<phase, job, by, seen, kids, ripe, exec, dlq, alive, usr, used>>

\* The lease of an active job (the reaper looks at no other) passes.  It lasts
\* 30s and is renewed every 5s: in a timely system it passes only once the
\* owner is gone and every request on the job has been answered.
Lapse(j) ==
    /\ row[j].lease = "live" /\ row[j].state \in ACTIVE_STATES
    /\ Timely => /\ row[j].owner # None => ~alive[row[j].owner]
                 /\ \A d \in Deliveries : job[d] = j => phase[d] \notin InApi
    /\ row' = [row EXCEPT ![j].lease = "lapsed"]
    /\ UNCHANGED <<phase, job, by, seen, kids, ripe, exec, dlq, alive, usr, used>>

\* A worker process dies; the API still finishes the requests it has received.
Crash(w) ==
    /\ alive[w]
    /\ alive' = [alive EXCEPT ![w] = FALSE]
    /\ phase' = [d \in Deliveries |->
                   IF by[d] = w /\ phase[d] \in {"held", "running"}
                   THEN "lost" ELSE phase[d]]
    /\ UNCHANGED <<row, job, by, seen, kids, ripe, exec, dlq, usr, used>>

\* A start or result request fails or its transaction is rolled back: the
\* worker logs the error and forgets the job (no retry in _run_job).
Drop(d) ==
    /\ Lossy
    /\ phase[d] \in {"held", "running"} \cup InApi
    /\ phase' = [phase EXCEPT ![d] = "lost"]
    /\ seen' = [seen EXCEPT ![d] = Blank]
    /\ kids' = [kids EXCEPT ![d] = {}]
    /\ ripe' = [ripe EXCEPT ![d] = {}]
    /\ UNCHANGED <<row, job, by, exec, dlq, alive, usr, used>>

----------------------------------------------------------------------------
DeliveryStep(d) ==
    \/ StartRead(d)
    \/ StartCommit(d)
    \/ ResultRead(d)
    \/ ReadDependents(d)
    \/ Complete(d)
    \/ DeadLetter(d)
    \/ ScheduleRetry(d)

UserStep(u) ==
    \/ \E j \in Jobs : CancelRead(u, j) \/ RetryRead(u, j)
    \/ CancelCommit(u)
    \/ RetryCommit(u)

Next ==
    \/ \E w \in Workers, j \in Jobs : Claim(w, j)
    \/ \E w \in Workers : Heartbeat(w)
    \/ \E d \in Deliveries : DeliveryStep(d) \/ Drop(d)
    \/ Promote
    \/ Reap
    \/ \E u \in Users : UserStep(u)
    \/ \E j \in Jobs : Ripen(j) \/ Lapse(j)
    \/ \E w \in Mortal : Crash(w)

Spec == Init /\ [][Next]_vars

\* The worker and scheduler loops never stop, the API answers, handlers
\* return, time passes.  Nothing obliges a worker to crash, a request to be
\* lost or an operator to act.
Fairness ==
    /\ \A w \in Workers \ Mortal : /\ WF_vars(\E j \in Jobs : Claim(w, j))
                                   /\ WF_vars(Heartbeat(w))
    /\ \A d \in Deliveries : WF_vars(DeliveryStep(d))
    /\ WF_vars(Promote) /\ WF_vars(Reap)
    /\ \A j \in Jobs : WF_vars(Ripen(j)) /\ WF_vars(Lapse(j))

FairSpec == Spec /\ Fairness

----------------------------------------------------------------------------
(* Properties.                                                              *)

\* Execs: the JobExecution rows of a job.
Execs(j) == {d \in Deliveries : job[d] = j /\ exec[d] # "none"}
Succeeded(j) == \E d \in Execs(j) : exec[d] = "succeeded"
DeadLetters(j) == {d \in dlq : job[d] = j}

\* Type correctness of the rows, the requests and the snapshots they hold.
TypeOK ==
    /\ row \in [Jobs -> Rows]
    /\ phase \in [Deliveries -> Phases]
    /\ job \in [Deliveries -> Jobs \cup {None}]
    /\ by \in [Deliveries -> Workers \cup {None}]
    /\ seen \in [Deliveries -> Rows]
    /\ kids \in [Deliveries -> SUBSET Jobs]
    /\ ripe \in [Deliveries -> SUBSET Jobs]
    /\ exec \in [Deliveries -> ExecutionStatus \cup {"none"}]
    /\ dlq \in SUBSET Deliveries
    /\ alive \in [Workers -> BOOLEAN]
    /\ usr \in [Users -> [op : {"idle", "cancelling", "retrying"},
                          job : Jobs \cup {None}, seen : Rows]]
    /\ used \in 0 .. MaxClaims

\* jobs.attempts, incremented from a snapshot by start_execution, never counts
\* an attempt that has no execution row, whatever races with it.
AttemptsCounted == \A j \in Jobs : row[j].attempts <= Cardinality(Execs(j))

\* A job reaches the Dead Letter Queue only after max_attempts executions of
\* it, also when late results, reaped leases and manual retries interleave.
DeadLetteredAfterAllAttempts ==
    \A d \in dlq : Cardinality(Execs(job[d])) >= MaxAttempts

\* A DEAD job always has a dead letter entry an operator can replay: state and
\* entry are committed together by fail_job, and no stale write undoes that.
DeadHasLetter == \A j \in Jobs : row[j].state = "dead" => DeadLetters(j) # {}

\* A job is shown COMPLETED only if one of its executions succeeded.
CompletedHasSuccess == \A j \in Jobs : row[j].state = "completed" => Succeeded(j)

\* A dependency is cleared only by a success of the parent (never by its
\* death, its cancellation or a manual retry).
ReleasedByParent ==
    \A j \in Jobs : Parent[j] # None /\ row[j].dep = None => Succeeded(Parent[j])

\* A dependent is executed only after its parent succeeded (README "depends_on").
DependentWaitsForParent ==
    \A j \in Jobs : Parent[j] # None /\ Execs(j) # {} => Succeeded(Parent[j])

\* One worker at a time executes a job: no two deliveries of it are between
\* the start transaction and the commit of the result.
SingleExecution ==
    \A d, e \in Deliveries :
        /\ d # e /\ job[d] = job[e]
        /\ phase[d] \in {"running"} \cup InApi
        => phase[e] \notin {"running"} \cup InApi

\* A job that occupies a worker carries a lease, without which the reaper
\* cannot recover it (reap_expired_leases skips a NULL lease).
ActiveIsLeased ==
    \A j \in Jobs : row[j].state \in ACTIVE_STATES => row[j].lease # "none"

\* The attempt counter equals the number of execution rows, so no increment
\* is lost between the read and the commit of start_execution.
AttemptsExact == \A j \in Jobs : row[j].attempts = Cardinality(Execs(j))

\* A job is dead-lettered at most once, and exactly when it is DEAD.
OneDeadLetter ==
    \A j \in Jobs : Cardinality(DeadLetters(j)) = (IF row[j].state = "dead" THEN 1 ELSE 0)

\* Attempts exceed the configured maximum only by attempts whose result never
\* arrived (the reaper requeues a job whatever its attempts): a job whose
\* failures are all reported ends in the Dead Letter Queue after max_attempts.
Unreported(j) == {d \in Deliveries : job[d] = j /\ phase[d] = "lost"}
AttemptsWithinMax ==
    \A j \in Jobs : row[j].attempts <= MaxAttempts + Cardinality(Unreported(j))

\* In a timely system without operators the handlers' reads and commits,
\* interleaved with crashes and lost requests, are steps of JobService: the life
\* of models/enums.py JobState and the diagram of ARCHITECTURE.md.
Service == INSTANCE JobService WITH
    state <- [j \in Jobs |-> row[j].state],
    attempts <- [j \in Jobs |-> row[j].attempts],
    holder <- [j \in Jobs |-> IF row[j].state \in ACTIVE_STATES THEN row[j].owner ELSE None],
    waits <- [j \in Jobs |-> row[j].dep],
    letters <- {job[d] : d \in dlq}
ImplementsJobService == Service!Spec

\* Every job without a dependency is eventually completed or dead-lettered,
\* though a worker may crash anywhere between claim and result.
EveryJobFinishes ==
    \A j \in Jobs : Parent[j] = None => <>(row[j].state \in {"completed", "dead"})

\* A dependent is released once its parent is completed, and then finishes.
ChildFinishes ==
    \A j \in Jobs : Parent[j] # None =>
        ((row[Parent[j]].state = "completed") ~> (row[j].state \in {"completed", "dead"}))
=============================================================================
