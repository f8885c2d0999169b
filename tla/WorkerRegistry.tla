--------------------------- MODULE WorkerRegistry ---------------------------
(* The workers table beside the leases of the jobs: registration,           *)
(* heartbeats, the scheduler's passes that mark workers DEAD and requeue    *)
(* jobs, and what the dashboard shows of them.                              *)
(*                                                                          *)
(* A tick is a heartbeat interval; requests are much shorter, so none spans *)
(* a tick.  Both timeouts are heartbeat_timeout_seconds: `last_heartbeat_at *)
(* < now - timeout` is age > Timeout, `lease_expires_at < now` is           *)
(* since > Timeout.                                                         *)
EXTENDS Naturals, JobTypes

CONSTANTS
    Workers,       \* ids of workers rows; a restarted process gets a new one
    Jobs,
    Timeout        \* heartbeat_timeout_seconds, in ticks

ASSUME WorkerAssumption == None \notin Workers
ASSUME TimeoutAssumption == Timeout \in Nat

VARIABLES
    status,    \* Worker.status, "none" before registration
    age,       \* ticks since last_heartbeat_at, capped
    up,        \* the process runs
    beat,      \* the heartbeat request under way, by the status it has loaded
    jstate,    \* Job.state; "active" is CLAIMED or RUNNING
    holder,    \* claimed_by_worker_id of an active job
    since      \* ticks since the lease of an active job was set, capped

registryVars == <<status, age, up, beat, jstate, holder, since>>
jobVars == <<jstate, holder, since>>

Aged(n) == IF n > Timeout THEN n ELSE n + 1

RegistryInit ==
    /\ status = [w \in Workers |-> "none"]
    /\ age = [w \in Workers |-> 0]
    /\ up = [w \in Workers |-> FALSE]
    /\ beat = [w \in Workers |-> "none"]
    /\ jstate \in [Jobs -> {"queued", "scheduled"}]
    /\ holder = [j \in Jobs |-> None]
    /\ since = [j \in Jobs |-> 0]

----------------------------------------------------------------------------
(* Workers.                                                                 *)

\* register_worker, by a process that has just started.
RegisterWorker(w) ==
    /\ status[w] = "none"
    /\ status' = [status EXCEPT ![w] = "alive"]
    /\ age' = [age EXCEPT ![w] = 0]
    /\ up' = [up EXCEPT ![w] = TRUE]
    /\ UNCHANGED <<beat, jobVars>>

\* The heartbeat handler loads the worker; the worker beats once a tick.
HeartbeatRead(w) ==
    /\ up[w] /\ age[w] > 0 /\ beat[w] = "none"
    /\ beat' = [beat EXCEPT ![w] = status[w]]
    /\ UNCHANGED <<status, age, up, jobVars>>

Owned(w) == {j \in Jobs : jstate[j] = "active" /\ holder[j] = w}

\* Faults: no renewal for a worker that was dead; a dead worker stays dead.
RenewedUnlessDead(w) == IF beat[w] = "dead" THEN {} ELSE Owned(w)
StatusKept(w)        == status[w]

\* The UPDATE of the jobs, and the status as the ORM's flush leaves it: the
\* column is written only when it was loaded as DEAD.
Renewed(w)     == Owned(w)
StatusAfter(w) == IF beat[w] = "dead" THEN "alive" ELSE status[w]

HeartbeatCommit(w) ==
    /\ beat[w] # "none"
    /\ since' = [j \in Jobs |-> IF j \in Renewed(w) THEN 0 ELSE since[j]]
    /\ status' = [status EXCEPT ![w] = StatusAfter(w)]
    /\ age' = [age EXCEPT ![w] = 0]
    /\ beat' = [beat EXCEPT ![w] = "none"]
    /\ UNCHANGED <<up, jstate, holder>>

\* claim, whatever the worker's status is
ClaimJob(w, j) ==
    /\ up[w] /\ jstate[j] = "queued"
    /\ jstate' = [jstate EXCEPT ![j] = "active"]
    /\ holder' = [holder EXCEPT ![j] = w]
    /\ since' = [since EXCEPT ![j] = 0]
    /\ UNCHANGED <<status, age, up, beat>>

\* report_result: the job is finished, or waits for its retry.
ReportResult(j) ==
    /\ jstate[j] = "active" /\ up[holder[j]]
    /\ \E s \in {"done", "scheduled"} : jstate' = [jstate EXCEPT ![j] = s]
    /\ holder' = [holder EXCEPT ![j] = None]
    /\ since' = [since EXCEPT ![j] = 0]
    /\ UNCHANGED <<status, age, up, beat>>

\* The process dies or exits: it tells nobody.
CrashWorker(w) ==
    /\ up[w]
    /\ up' = [up EXCEPT ![w] = FALSE]
    /\ UNCHANGED <<status, age, beat, jobVars>>

\* A heartbeat interval passes.
Tick ==
    /\ \A w \in Workers : beat[w] = "none"
    /\ \/ \E w \in Workers : status[w] # "none" /\ age[w] <= Timeout
       \/ \E j \in Jobs : jstate[j] = "active" /\ since[j] <= Timeout
    /\ age' = [w \in Workers |-> IF status[w] = "none" THEN 0 ELSE Aged(age[w])]
    /\ since' = [j \in Jobs |-> IF jstate[j] = "active" THEN Aged(since[j]) ELSE 0]
    /\ UNCHANGED <<status, up, beat, jstate, holder>>

----------------------------------------------------------------------------
(* The scheduler's passes.                                                  *)

\* promote_due_scheduled, for jobs whose run_at has passed
PromoteDue ==
    /\ jstate' = [j \in Jobs |-> IF jstate[j] = "scheduled" THEN "queued" ELSE jstate[j]]
    /\ UNCHANGED <<status, age, up, beat, holder, since>>

\* reap_dead_workers
Silent == {w \in Workers : status[w] \notin {"none", "dead"} /\ age[w] > Timeout}

ReapDeadWorkers ==
    /\ status' = [w \in Workers |-> IF w \in Silent THEN "dead" ELSE status[w]]
    /\ UNCHANGED <<age, up, beat, jobVars>>

\* Fault: jobs of workers already marked DEAD are left to somebody else.
ExpiredOfAlive ==
    {j \in Jobs : jstate[j] = "active" /\ since[j] > Timeout /\ status[holder[j]] = "alive"}

\* reap_expired_leases
Expired == {j \in Jobs : jstate[j] = "active" /\ since[j] > Timeout}

ReapExpiredLeases ==
    /\ jstate' = [j \in Jobs |-> IF j \in Expired THEN "queued" ELSE jstate[j]]
    /\ holder' = [j \in Jobs |-> IF j \in Expired THEN None ELSE holder[j]]
    /\ since' = [j \in Jobs |-> IF j \in Expired THEN 0 ELSE since[j]]
    /\ UNCHANGED <<status, age, up, beat>>

WorkerStep ==
    \/ \E w \in Workers : \/ RegisterWorker(w) \/ CrashWorker(w)
                          \/ HeartbeatRead(w) \/ HeartbeatCommit(w)
                          \/ \E j \in Jobs : ClaimJob(w, j)
    \/ \E j \in Jobs : ReportResult(j)

----------------------------------------------------------------------------
(* Properties.                                                              *)

\* Types; a job has a holder while it is active.
RegistryTypeOK ==
    /\ status \in [Workers -> WorkerStatus \cup {"none"}]
    /\ age \in [Workers -> 0 .. Timeout + 1]
    /\ up \in [Workers -> BOOLEAN]
    /\ beat \in [Workers -> WorkerStatus \cup {"none"}]
    /\ jstate \in [Jobs -> {"scheduled", "queued", "active", "done"}]
    /\ holder \in [Jobs -> Workers \cup {None}]
    /\ \A j \in Jobs : jstate[j] = "active" <=> holder[j] # None
    /\ since \in [Jobs -> 0 .. Timeout + 1]

\* overview counts a worker as alive: by its heartbeat and by its status.
ShownAlive(w) == age[w] <= Timeout /\ status[w] # "dead"

\* The scheduler takes no job from a worker the dashboard shows as alive: the
\* heartbeat that keeps or makes it so has renewed every lease, also when it
\* resurrects a worker, races with the reaper or follows a long silence.
ShownAliveKeepsJobs ==
    \A j \in Jobs : jstate[j] = "active" /\ ShownAlive(holder[j]) => since[j] <= Timeout

\* The status follows the process, though the heartbeat handler decides on the
\* status it has loaded and the reaper may mark the worker in between: a dead
\* process is DEAD for good, a live one that was marked DEAD is resurrected.
StatusFollowsProcess ==
    \A w \in Workers :
        /\ (status[w] # "none" /\ ~up[w]) ~> [](status[w] = "dead")
        /\ (status[w] = "dead" /\ up[w]) ~> (status[w] = "alive" \/ ~up[w])

\* ARCHITECTURE.md "Worker crash": the lease expires, the scheduler requeues
\* the job.
OrphansRecovered ==
    \A j \in Jobs, w \in Workers :
        (jstate[j] = "active" /\ holder[j] = w /\ ~up[w]) ~> (holder[j] # w)
=============================================================================
