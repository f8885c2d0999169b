--------------------------- MODULE WorkerProcess ---------------------------
(* One worker process: the main thread that polls for jobs, the threads of  *)
(* its pool, the heartbeat thread and the stop signal, against the rows of  *)
(* the jobs and their leases in the database.  The other workers appear as  *)
(* takers of whatever is queued.  Time passes in ticks; a lease is the      *)
(* number of ticks it has left.  A heartbeat is a request that takes time:  *)
(* the server commits it somewhere on its way, or it is lost, and the       *)
(* client waits for the answer up to its timeout.                           *)
EXTENDS Naturals, FiniteSets

CONSTANTS
    Jobs, Threads,     \* concurrency = Cardinality(Threads)
    None,
    BatchSize,         \* worker_claim_batch_size
    LeaseTicks,        \* heartbeat_timeout_seconds, lease_seconds of a claim
    BeatTicks,         \* worker_heartbeat_interval_seconds
    TimeoutTicks,      \* the longest a heartbeat is waited for
    PromptTicks,       \* a heartbeat answered or refused within these is prompt
    MaxMissed,         \* prompt heartbeats that may fail in a row
    MaxCopies,         \* bound: submissions of one job waiting in the pool
    Lossy              \* other requests and responses may get lost

ASSUME ThreadsAssumption ==
    IsFiniteSet(Jobs) /\ IsFiniteSet(Threads) /\ Threads # {} /\ None \notin Jobs
ASSUME TicksAssumption ==
    /\ BatchSize \in Nat \ {0} /\ LeaseTicks \in Nat /\ BeatTicks \in Nat \ {0}
    /\ TimeoutTicks \in Nat /\ PromptTicks \in Nat /\ MaxMissed \in Nat
    /\ MaxCopies \in Nat /\ Lossy \in BOOLEAN
\* With 5s between heartbeats and 30s leases: one heartbeat of at most 5s may
\* fail.  One that runs into the client's timeout of 30s may not.
ASSUME LeaseAssumption ==
    (MaxMissed + 1) * (PromptTicks + BeatTicks) + PromptTicks < LeaseTicks

VARIABLES
    state,     \* "claimed" and "running" by this worker, "queued", "away"
    lease,     \* ticks left, 0 also for NULL and for leases of others
    main,      \* where the main thread is
    stop,      \* the _stop event
    want,      \* limit of the claim request under way
    inbox,     \* claimed jobs still to be submitted to the pool
    backlog,   \* how often each job is submitted and not taken by a thread yet
    pool,      \* where each thread is, and with which job
    active,    \* _active
    post,      \* the heartbeat under way: "none", "sent", or "written" in the rows
    beat,      \* ticks it has taken, or that the heartbeat thread has slept
    missed     \* heartbeats failed in a row, above MaxMissed for good once there
               \* were too many or one was not prompt

rows == <<state, lease>>
mainVars == <<main, want, inbox>>
poolVars == <<backlog, pool, active>>
beatVars == <<post, beat, missed>>
vars == <<state, lease, main, stop, want, inbox, backlog, pool, active,
          post, beat, missed>>

JobStates  == {"queued", "claimed", "running", "away"}
MainStates == {"registering", "polling", "claiming", "dispatching", "draining", "exited"}
Steps      == {"idle", "taken", "starting", "handling", "leaving"}
Resting    == [at |-> "idle", job |-> None]
LeastOf(m, n) == IF m <= n THEN m ELSE n

Init ==
    /\ state \in [Jobs -> {"queued", "away"}]
    /\ lease = [j \in Jobs |-> 0]
    /\ main = "registering" /\ stop = FALSE
    /\ want = 0 /\ inbox = {} /\ backlog = [j \in Jobs |-> 0]
    /\ pool = [t \in Threads |-> Resting]
    /\ active = 0
    /\ post = "none" /\ beat = BeatTicks /\ missed = 0

----------------------------------------------------------------------------
(* The main thread.                                                         *)

\* register() retries until the API answers, the signal comes, or the
\* deadline passes and it raises.
Register ==
    /\ main = "registering"
    /\ main' \in {"polling", "exited"}
    /\ UNCHANGED <<rows, stop, want, inbox, poolVars, beatVars>>

\* Fault: the loop does not look at the event.
ServingAlways == main = "polling"

\* Top of the loop in run().
Serving == main = "polling" /\ ~stop

\* _claim_and_dispatch reads _active without the lock.
Poll ==
    /\ Serving
    /\ active < Cardinality(Threads)
    /\ main' = "claiming"
    /\ want' = LeastOf(Cardinality(Threads) - active, BatchSize)
    /\ UNCHANGED <<rows, stop, inbox, poolVars, beatVars>>

\* The claim commits, and its response arrives or not.
ClaimReply ==
    /\ main = "claiming"
    /\ \E S \in SUBSET {j \in Jobs : state[j] = "queued" /\ backlog[j] < MaxCopies} :
         /\ Cardinality(S) <= want
         /\ state' = [j \in Jobs |-> IF j \in S THEN "claimed" ELSE state[j]]
         /\ lease' = [j \in Jobs |-> IF j \in S THEN LeaseTicks ELSE lease[j]]
         /\ \/ /\ inbox' = S /\ main' = "dispatching"
            \/ /\ Lossy /\ inbox' = {} /\ main' = "polling"
    /\ want' = 0
    /\ UNCHANGED <<stop, poolVars, beatVars>>

\* pool.submit for each job of the response.
Dispatch ==
    /\ main = "dispatching"
    /\ \/ /\ inbox = {}
          /\ main' = "polling"
          /\ UNCHANGED <<inbox, backlog>>
       \/ \E j \in inbox : /\ inbox' = inbox \ {j}
                           /\ backlog' = [backlog EXCEPT ![j] = @ + 1]
                           /\ UNCHANGED main
    /\ UNCHANGED <<rows, stop, want, pool, active, beatVars>>

\* Fault: the pool is shut down without running what it has queued.
DrainedEarly == \A t \in Threads : pool[t] = Resting

\* pool.shutdown(wait=True) runs the backlog too.
Drained == (\A j \in Jobs : backlog[j] = 0) /\ \A t \in Threads : pool[t] = Resting

StartDrain ==
    /\ main \in {"registering", "polling"} /\ stop
    /\ main' = "draining"
    /\ UNCHANGED <<rows, stop, want, inbox, poolVars, beatVars>>

Owned == {j \in Jobs : state[j] \in {"claimed", "running"}}

\* The last heartbeat, sent once the pool is empty; its failure is ignored.
Exit ==
    /\ main = "draining" /\ Drained
    /\ main' = "exited"
    /\ lease' \in {lease, [j \in Jobs |-> IF j \in Owned THEN LeaseTicks ELSE lease[j]]}
    /\ UNCHANGED <<state, stop, want, inbox, poolVars, beatVars>>

\* SIGTERM or SIGINT.
Signal ==
    /\ ~stop /\ main # "exited"
    /\ stop' = TRUE
    /\ UNCHANGED <<rows, mainVars, poolVars, beatVars>>

----------------------------------------------------------------------------
(* The pool: _run_job.                                                      *)

Goto(t, step) == pool' = [pool EXCEPT ![t].at = step]

Take(t) ==
    /\ pool[t] = Resting
    /\ \E j \in Jobs :
         /\ backlog[j] > 0
         /\ pool' = [pool EXCEPT ![t] = [at |-> "taken", job |-> j]]
         /\ backlog' = [backlog EXCEPT ![j] = @ - 1]
    /\ UNCHANGED <<rows, stop, mainVars, active, beatVars>>

Enter(t) ==
    /\ pool[t].at = "taken"
    /\ active' = active + 1
    /\ Goto(t, "starting")
    /\ UNCHANGED <<rows, stop, mainVars, backlog, beatVars>>

\* start_job: answered 409 unless the job is still claimed by this worker.
Startable(j) == state[j] = "claimed"

Start(t) ==
    /\ pool[t].at = "starting"
    /\ \/ /\ Startable(pool[t].job)
          /\ state' = [state EXCEPT ![pool[t].job] = "running"]
          /\ Goto(t, "handling") \/ (Lossy /\ Goto(t, "leaving"))
       \/ /\ ~Startable(pool[t].job) \/ Lossy
          /\ Goto(t, "leaving")
          /\ UNCHANGED state
    /\ UNCHANGED <<lease, stop, mainVars, backlog, active, beatVars>>

\* The handler returns or raises; the result finishes the job, or schedules
\* it again, whoever owns it by now.
Report(t) ==
    /\ pool[t].at = "handling"
    /\ \/ /\ state' = [state EXCEPT ![pool[t].job] = "away"]
          /\ lease' = [lease EXCEPT ![pool[t].job] = 0]
       \/ Lossy /\ UNCHANGED rows
    /\ Goto(t, "leaving")
    /\ UNCHANGED <<stop, mainVars, backlog, active, beatVars>>

\* Fault: _active is not given back.
LeaveUncounted(t) ==
    /\ pool[t].at = "leaving"
    /\ pool' = [pool EXCEPT ![t] = Resting]
    /\ UNCHANGED <<rows, stop, mainVars, backlog, active, beatVars>>

\* `finally`
Leave(t) ==
    /\ pool[t].at = "leaving"
    /\ active' = active - 1
    /\ pool' = [pool EXCEPT ![t] = Resting]
    /\ UNCHANGED <<rows, stop, mainVars, backlog, beatVars>>

----------------------------------------------------------------------------
(* Heartbeats, time, the scheduler and the other workers.                   *)

\* The heartbeat thread runs from registration until the event is set.
Beating == ~stop /\ main \notin {"registering", "exited"}

\* Fault: only running jobs are renewed.
RenewedRunning == {j \in Jobs : state[j] = "running"}

\* The jobs a heartbeat renews.
Renewed == {j \in Jobs : state[j] \in {"claimed", "running"}}

\* Fault: the lease is renewed up to the next heartbeat only.
RenewalShort == BeatTicks

\* lease_until
Renewal == LeaseTicks

Renew == lease' = [j \in Jobs |-> IF j \in Renewed THEN Renewal ELSE lease[j]]

SendBeat ==
    /\ Beating /\ post = "none" /\ beat = BeatTicks
    /\ post' = "sent" /\ beat' = 0
    /\ UNCHANGED <<rows, stop, mainVars, poolVars, missed>>

\* The server commits, whatever has become of the worker meanwhile.
BeatWrites ==
    /\ post = "sent"
    /\ post' = "written"
    /\ Renew
    /\ UNCHANGED <<state, stop, mainVars, poolVars, beat, missed>>

\* Or it commits after the client has given the request up.
LateBeatWrites ==
    /\ missed > 0
    /\ Renew
    /\ UNCHANGED <<state, stop, mainVars, poolVars, beatVars>>

\* The answer, an error or the timeout; the thread sleeps either way.
BeatReturns ==
    /\ post # "none"
    /\ post' = "none" /\ beat' = 0
    /\ missed' = IF missed > MaxMissed THEN missed
                 ELSE IF post = "written" THEN 0 ELSE missed + 1
    /\ UNCHANGED <<rows, stop, mainVars, poolVars>>

Less(k) == IF k = 0 THEN 0 ELSE k - 1

\* How long the heartbeat thread stays where it is at most.
Patience == IF post = "none" THEN BeatTicks ELSE TimeoutTicks

\* A tick; the thread does not oversleep.
Tick ==
    /\ beat < Patience \/ (post = "none" /\ ~Beating)
    /\ beat' = IF post = "none" THEN LeastOf(beat + 1, BeatTicks) ELSE beat + 1
    /\ missed' = IF post # "none" /\ beat >= PromptTicks THEN MaxMissed + 1 ELSE missed
    /\ lease' = [j \in Jobs |-> Less(lease[j])]
    /\ <<beat, lease>>' # <<beat, lease>>
    /\ UNCHANGED <<state, stop, mainVars, poolVars, post>>

\* reap_expired_leases
Reap(j) ==
    /\ j \in Owned /\ lease[j] = 0
    /\ state' = [state EXCEPT ![j] = "queued"]
    /\ UNCHANGED <<lease, stop, mainVars, poolVars, beatVars>>

\* Another worker claims a queued job; a job is submitted, promoted or
\* taken back from another worker.
OtherClaims(j) ==
    /\ state[j] = "queued"
    /\ state' = [state EXCEPT ![j] = "away"]
    /\ UNCHANGED <<lease, stop, mainVars, poolVars, beatVars>>
Enqueue(j) ==
    /\ state[j] = "away"
    /\ state' = [state EXCEPT ![j] = "queued"]
    /\ UNCHANGED <<lease, stop, mainVars, poolVars, beatVars>>

----------------------------------------------------------------------------
MainStep == Register \/ Poll \/ ClaimReply \/ Dispatch \/ StartDrain \/ Exit
ThreadStep(t) == Take(t) \/ Enter(t) \/ Start(t) \/ Report(t) \/ Leave(t)

Next ==
    \/ MainStep \/ Signal \/ Tick
    \/ SendBeat \/ BeatWrites \/ LateBeatWrites \/ BeatReturns
    \/ \E t \in Threads : ThreadStep(t)
    \/ \E j \in Jobs : Reap(j) \/ OtherClaims(j) \/ Enqueue(j)

Spec == Init /\ [][Next]_vars

\* The threads are scheduled, requests end (the client's timeout), handlers
\* return.  Nobody has to send a signal.
Fairness == WF_vars(MainStep) /\ \A t \in Threads : WF_vars(ThreadStep(t))
FairSpec == Spec /\ Fairness

----------------------------------------------------------------------------
\* Type correctness; a thread without a job is idle.
TypeOK ==
    /\ state \in [Jobs -> JobStates] /\ lease \in [Jobs -> 0 .. LeaseTicks]
    /\ main \in MainStates /\ stop \in BOOLEAN
    /\ want \in 0 .. BatchSize
    /\ inbox \subseteq Jobs /\ backlog \in [Jobs -> Nat]
    /\ pool \in [Threads -> [at : Steps, job : Jobs \cup {None}]]
    /\ \A t \in Threads : pool[t].job = None <=> pool[t].at = "idle"
    /\ active \in 0 .. Cardinality(Threads)
    /\ post \in {"none", "sent", "written"}
    /\ beat \in Nat /\ (post = "none" => beat <= BeatTicks)
    /\ missed \in 0 .. MaxMissed + 1

\* So far no heartbeat has been slow, and never have more than MaxMissed
\* failed in a row.
Steady == missed <= MaxMissed

\* workers.py: "a live worker never has its in-flight jobs reaped", while it
\* serves and its heartbeats have been steady: no lease of a claimed or running
\* job passes, however claims, starts, results and failed heartbeats fall.
LeaseKeptWhileServing == Beating /\ Steady => \A j \in Owned : lease[j] > 0

\* The same for as long as the process lives, its drain included.
LeaseKeptWhileAlive == main # "exited" /\ Steady => \A j \in Owned : lease[j] > 0

\* While heartbeats are steady a job is in one place of the process at most:
\* never handed to two threads, nor queued again while a thread works on it
\* (until the signal comes: after it the leases are not renewed any more).
InThreads == {t \in Threads : pool[t].at \in {"taken", "starting", "handling"}}
HandledOnce == ~stop /\ Steady =>
    /\ \A t, u \in InThreads : pool[t].job = pool[u].job => t = u
    /\ \A j \in Jobs : backlog[j] + (IF j \in inbox THEN 1 ELSE 0) <= 1
    /\ \A t \in InThreads : pool[t].job \notin inbox /\ backlog[pool[t].job] = 0

\* A stopped worker leaves no job behind that it holds a claim on: jobs of a
\* claim under way when the signal came, and of the backlog, are run first.
StopLeavesNothing == main = "exited" => Owned = {}

\* After the signal the process drains and exits.
StopEnds == stop ~> (main = "exited")
=============================================================================
