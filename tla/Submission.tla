----------------------------- MODULE Submission -----------------------------
(* How jobs come into being: submissions with idempotency keys and          *)
(* dependencies, batches, and the replay of dead letters.  A handler checks *)
(* or loads in one step and commits in another; replay_dead_letter commits  *)
(* twice.  What happens to a job afterwards is module JobLifecycle; here it *)
(* is "waiting" (SCHEDULED with a dependency), at its end, or "open".       *)
(* Races of several executions of one job are left to JobLifecycle.         *)
EXTENDS Naturals, FiniteSets

CONSTANTS
    None,
    Clients,       \* API clients, dashboard operators among them
    Keys,          \* idempotency keys, all of one queue
    BatchSize,     \* items of a batch request
    MaxJobs,       \* bound: jobs created
    MaxCancelled,  \* bound: jobs that are ever cancelled
    MaxDead,       \* bound: jobs that die
    Lossy          \* requests may fail between their steps

ASSUME ClientsAssumption == None \notin Keys
ASSUME NumbersAssumption ==
    /\ MaxJobs \in Nat /\ MaxCancelled \in Nat /\ MaxDead \in Nat
    /\ BatchSize \in Nat \ {0} /\ Lossy \in BOOLEAN

Ids == 1 .. MaxJobs    \* in the order of the inserting commits
ASSUME IdsAssumption == None \notin Ids

VARIABLES
    n,         \* jobs inserted so far
    job,       \* the job rows
    exec,      \* the execution under way of each job
    kids,      \* dependents its result handler has loaded
    loaded,    \* n when it loaded them, 0 for a job that has to run again
    cancelled, \* jobs that an operator has ever cancelled
    dlq,       \* jobs with a DeadLetterEntry
    marked,    \* entries with replayed_at set
    req,       \* the request a client has under way
    answered   \* <<key, job>> of the keyed submissions answered 201

jobVars == <<n, job, exec, kids, loaded, cancelled, dlq>>
vars == <<n, job, exec, kids, loaded, cancelled, dlq, marked, req, answered>>

JobRows == [state : {"absent", "waiting", "open", "completed", "dead", "cancelled"},
            key : Keys \cup {None}, dep : Ids \cup {None}, of : Ids \cup {None}]

\* Fault: an empty dependency is stored as an id.
RowZero(k, p, e) == [state |-> IF p = None THEN "open" ELSE "waiting", key |-> k,
                     dep |-> IF p = None THEN 0 ELSE p, of |-> e]

\* A job as create_job inserts it; a dependent one waits.
Row(k, p, e) == [state |-> IF p = None THEN "open" ELSE "waiting",
                 key |-> k, dep |-> p, of |-> e]

Absent == [state |-> "absent", key |-> None, dep |-> None, of |-> None]
Request(op, k, p, e) == [op |-> op, key |-> k, dep |-> p, entry |-> e]
Idle   == Request("idle", None, None, None)
Rows   == 1 .. n

Init ==
    /\ n = 0
    /\ job = [j \in Ids |-> Absent]
    /\ exec = [j \in Ids |-> "none"]
    /\ kids = [j \in Ids |-> {}]
    /\ loaded = [j \in Ids |-> 0]
    /\ cancelled = {} /\ dlq = {} /\ marked = {}
    /\ req = [c \in Clients |-> Idle]
    /\ answered = {}

\* Session.commit() of an INSERT.
Add(r) ==
    /\ n < MaxJobs
    /\ n' = n + 1
    /\ job' = [job EXCEPT ![n + 1] = r]

----------------------------------------------------------------------------
(* POST /queues/{q}/jobs                                                    *)

\* Fault: no unique constraint.
TakenNever(k) == FALSE

\* uq_job_idem: the key is in use.
Taken(k) == \E j \in Rows : job[j].key = k

\* Without a key nothing is looked up.
Submit(c, p) ==
    /\ req[c] = Idle
    /\ Add(Row(None, p, None))
    /\ UNCHANGED <<exec, kids, loaded, cancelled, dlq, marked, req, answered>>

\* create_job looks the key up and returns the job it finds, whatever its
\* state and the rest of the request.
LookUp(c, k, p) ==
    /\ req[c] = Idle
    /\ \/ /\ \E j \in Rows : job[j].key = k /\ answered' = answered \cup {<<k, j>>}
          /\ UNCHANGED req
       \/ /\ \A j \in Rows : job[j].key # k
          /\ req' = [req EXCEPT ![c] = Request("inserting", k, p, None)]
          /\ UNCHANGED answered
    /\ UNCHANGED <<jobVars, marked>>

\* The INSERT, which the unique constraint may refuse: the request then fails.
Insert(c) ==
    /\ req[c].op = "inserting"
    /\ \/ /\ ~Taken(req[c].key)
          /\ Add(Row(req[c].key, req[c].dep, None))
          /\ answered' = answered \cup {<<req[c].key, n + 1>>}
       \/ /\ Taken(req[c].key)
          /\ UNCHANGED <<n, job, answered>>
    /\ req' = [req EXCEPT ![c] = Idle]
    /\ UNCHANGED <<exec, kids, loaded, cancelled, dlq, marked>>

\* create_batch: all items in one transaction, without keys or dependencies.
Batch(c) ==
    /\ req[c] = Idle
    /\ n + BatchSize <= MaxJobs
    /\ n' = n + BatchSize
    /\ job' = [j \in Ids |-> IF j \in n + 1 .. n + BatchSize
                             THEN Row(None, None, None) ELSE job[j]]
    /\ UNCHANGED <<exec, kids, loaded, cancelled, dlq, marked, req, answered>>

----------------------------------------------------------------------------
(* The rest of a job's life, as far as it meets the above.                  *)

\* start_execution of a claimed job.  Bound: one execution of it at a time.
Start(p) ==
    /\ job[p].state = "open" /\ exec[p] = "none"
    /\ exec' = [exec EXCEPT ![p] = "running"]
    /\ UNCHANGED <<n, job, kids, loaded, cancelled, dlq, marked, req, answered>>

\* The worker dies, or its result is lost; the job's lease is reaped.
Lose(p) ==
    /\ Lossy /\ exec[p] # "none"
    /\ exec' = [exec EXCEPT ![p] = "none"]
    /\ kids' = [kids EXCEPT ![p] = {}]
    /\ loaded' = [loaded EXCEPT ![p] = 0]
    /\ UNCHANGED <<n, job, cancelled, dlq, marked, req, answered>>

\* Fault: the wrong state is asked for.
DependentsOpen(p) == {j \in Rows : job[j].dep = p /\ job[j].state = "open"}

\* _release_dependents: the query ...
Dependents(p) == {j \in Rows : job[j].dep = p /\ job[j].state = "waiting"}

LoadDependents(p) ==
    /\ exec[p] = "running"
    /\ exec' = [exec EXCEPT ![p] = "releasing"]
    /\ kids' = [kids EXCEPT ![p] = Dependents(p)]
    /\ loaded' = [loaded EXCEPT ![p] = n]
    /\ UNCHANGED <<n, job, cancelled, dlq, marked, req, answered>>

\* A due dependent becomes QUEUED, whatever it is by now; of another one the
\* state is not written, and SCHEDULED without a dependency is open.
Released(row, due) ==
    [row EXCEPT !.state = IF due \/ @ = "waiting" THEN "open" ELSE @, !.dep = None]

\* ... and the commit of complete_job, whatever has become of the job.
Complete(p) ==
    /\ exec[p] = "releasing"
    /\ \E Due \in SUBSET kids[p] :
         job' = [j \in Ids |->
                   IF j = p THEN [job[j] EXCEPT !.state = "completed"]
                   ELSE IF j \in kids[p] THEN Released(job[j], j \in Due)
                   ELSE job[j]]
    /\ exec' = [exec EXCEPT ![p] = "none"]
    /\ kids' = [kids EXCEPT ![p] = {}]
    /\ UNCHANGED <<n, loaded, cancelled, dlq, marked, req, answered>>

\* fail_job with attempts left: back to SCHEDULED, the dependency is kept.
FailAttempt(p) ==
    /\ exec[p] = "running"
    /\ job' = [job EXCEPT ![p].state = IF job[p].dep = None THEN "open" ELSE "waiting"]
    /\ exec' = [exec EXCEPT ![p] = "none"]
    /\ UNCHANGED <<n, kids, loaded, cancelled, dlq, marked, req, answered>>

\* fail_job, attempts exhausted.  Bound: a job dies once.
Die(p) ==
    /\ exec[p] = "running"
    /\ p \notin dlq /\ Cardinality(dlq) < MaxDead
    /\ job' = [job EXCEPT ![p].state = "dead"]
    /\ exec' = [exec EXCEPT ![p] = "none"]
    /\ dlq' = dlq \cup {p}
    /\ UNCHANGED <<n, kids, loaded, cancelled, marked, req, answered>>

\* cancel_job: an execution under way is not stopped by it.
Cancel(p) ==
    /\ job[p].state \in {"waiting", "open"}
    /\ p \in cancelled \/ Cardinality(cancelled) < MaxCancelled
    /\ job' = [job EXCEPT ![p].state = "cancelled"]
    /\ cancelled' = cancelled \cup {p}
    /\ UNCHANGED <<n, exec, kids, loaded, dlq, marked, req, answered>>

\* retry_job: QUEUED, whatever the job depends on.
Retry(p) ==
    /\ job[p].state \in {"completed", "dead", "cancelled"}
    /\ job' = [job EXCEPT ![p].state = "open"]
    /\ loaded' = [loaded EXCEPT ![p] = IF exec[p] = "none" THEN 0 ELSE @]
    /\ UNCHANGED <<n, exec, kids, cancelled, dlq, marked, req, answered>>

JobStep(p) == \/ Start(p) \/ Lose(p) \/ LoadDependents(p) \/ Complete(p)
              \/ FailAttempt(p) \/ Die(p) \/ Cancel(p) \/ Retry(p)

----------------------------------------------------------------------------
(* POST /dead-letters/{e}/replay                                            *)

\* Fault: replayed_at is committed with the first statement.
LoadEntryMarking(c, e) ==
    /\ req[c] = Idle /\ e \in dlq
    /\ req' = [req EXCEPT ![c] = Request("replaying", None, None, e)]
    /\ marked' = marked \cup {e}
    /\ UNCHANGED <<jobVars, answered>>

\* The handler loads the entry; it does not look at replayed_at.
LoadEntry(c, e) ==
    /\ req[c] = Idle /\ e \in dlq
    /\ req' = [req EXCEPT ![c] = Request("replaying", None, None, e)]
    /\ UNCHANGED <<jobVars, marked, answered>>

\* create_job commits the fresh job: no key, no dependency ...
ReplayJob(c) ==
    /\ req[c].op = "replaying"
    /\ Add(Row(None, None, req[c].entry))
    /\ req' = [req EXCEPT ![c].op = "marking"]
    /\ UNCHANGED <<exec, kids, loaded, cancelled, dlq, marked, answered>>

\* ... and a second commit marks the entry.
MarkReplayed(c) ==
    /\ req[c].op = "marking"
    /\ marked' = marked \cup {req[c].entry}
    /\ req' = [req EXCEPT ![c] = Idle]
    /\ UNCHANGED <<jobVars, answered>>

\* A request fails between two of its steps; nothing resumes it.
Fail(c) ==
    /\ Lossy
    /\ req[c] # Idle
    /\ req' = [req EXCEPT ![c] = Idle]
    /\ UNCHANGED <<jobVars, marked, answered>>

----------------------------------------------------------------------------
Next ==
    \/ \E c \in Clients, p \in Rows \cup {None} : Submit(c, p) \/ \E k \in Keys : LookUp(c, k, p)
    \/ \E c \in Clients : Insert(c) \/ Batch(c) \/ ReplayJob(c) \/ MarkReplayed(c)
    \/ \E c \in Clients, e \in dlq : LoadEntry(c, e)
    \/ \E c \in Clients : Fail(c)
    \/ \E p \in Rows : JobStep(p)

Spec == Init /\ [][Next]_vars

----------------------------------------------------------------------------
\* Type correctness; rows exist in the order of their ids.
TypeOK ==
    /\ n \in 0 .. MaxJobs
    /\ job \in [Ids -> JobRows]
    /\ \A j \in Ids : job[j].state = "absent" <=> j > n
    /\ exec \in [Ids -> {"none", "running", "releasing"}]
    /\ kids \in [Ids -> SUBSET Ids] /\ loaded \in [Ids -> 0 .. MaxJobs]
    /\ cancelled \subseteq Rows /\ dlq \subseteq Rows /\ marked \subseteq dlq
    /\ req \in [Clients -> [op : {"idle", "inserting", "replaying", "marking"},
                            key : Keys \cup {None}, dep : Ids \cup {None},
                            entry : Ids \cup {None}]]
    /\ answered \subseteq Keys \X Ids

\* ARCHITECTURE.md: "a retried submission collapses to the existing job": all
\* submissions of a key that are accepted are answered with the same job,
\* however lookups, inserts and failures of several clients interleave.
OneJobPerKey ==
    \A a, b \in answered : a[1] = b[1] => a[2] = b[2]

\* A dependent is left waiting for a completed parent only if it was inserted
\* after the parent's handler had last asked for its dependents, or if an
\* operator had cancelled it (a retried job runs before its parent completes,
\* and once it fails it waits again): never because of the other requests,
\* failures, losses and retries around the two.
OnlyLateDependentsAreLeft ==
    \A j \in Rows : job[j].state = "waiting" =>
        LET p == job[j].dep IN
        job[p].state = "completed" => j > loaded[p] \/ j \in cancelled

\* A dead letter is marked as replayed only once its fresh job exists, so a
\* replay that fails half way stays on offer.
MarkedHasFreshJob == \A e \in marked : \E j \in Rows : job[j].of = e
=============================================================================
