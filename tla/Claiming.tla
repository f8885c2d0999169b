------------------------------ MODULE Claiming ------------------------------
(* claim_jobs, statement by statement, run by several workers at once       *)
(* against one database, on PostgreSQL (row locks, SKIP LOCKED) or SQLite   *)
(* (no row locks; the first UPDATE of a transaction takes the write lock of *)
(* the whole database).  Jobs are seen only as far as claiming looks:       *)
(*   "queued"   QUEUED with run_at in the past                              *)
(*   "active"   CLAIMED or RUNNING, as claiming left it                     *)
(*   "revived"  RUNNING written by a start over a row that had moved on     *)
(*   "away"     anything else                                               *)
(* state and owner hold committed values; got holds the rows a transaction  *)
(* has updated and not committed.                                           *)
EXTENDS Integers, FiniteSets

CONSTANTS
    None,
    Workers, Jobs, Queues,
    QueueOf,       \* the queue of a job
    QPriority,     \* Queue.priority
    Rank,          \* ORDER BY priority DESC, run_at ASC: lower is served first
    Subscribed,    \* Worker.queues, {} meaning every queue
    Batch,         \* limit of a claim request
    Limits,        \* the values concurrency_limit of a queue may take
    Databases,     \* the databases to consider (settings.is_sqlite)
    Aborts,        \* claim transactions may be rolled back
    MaxMoves       \* bound: pauses, limit changes and late starts explored

ASSUME NoneAssumption == None \notin Workers
ASSUME FiniteAssumption ==
    IsFiniteSet(Workers) /\ IsFiniteSet(Jobs) /\ IsFiniteSet(Queues)
ASSUME LayoutAssumption ==
    /\ QueueOf \in [Jobs -> Queues] /\ QPriority \in [Queues -> Nat]
    /\ Rank \in [Jobs -> Nat] /\ Subscribed \in [Workers -> SUBSET Queues]
ASSUME NumbersAssumption ==
    /\ Batch \in Nat \ {0} /\ MaxMoves \in Nat
    /\ Limits \in [Queues -> SUBSET Nat]
ASSUME SwitchAssumption ==
    Databases \subseteq {"postgres", "sqlite"} /\ Aborts \in BOOLEAN

VARIABLES
    db,             \* the database in use
    state, owner,   \* committed job rows
    paused, limit,  \* committed queue rows
    lock,           \* the claim transaction whose write lock covers a row
    phase,          \* where each worker's claim is
    todo,           \* queues the loop has still to visit
    lim,            \* concurrency_limit as loaded with the queues
    at, want,       \* the queue being visited and `take`
    cand,           \* the rows the candidate SELECT returned
    got,            \* `claimed`
    starting,       \* jobs a start request has loaded and not written back
    moves           \* pauses, limit changes and late starts so far

jobVars   == <<state, owner>>
boundVars == <<starting, moves>>
queueVars == <<db, paused, limit>>
callVars  == <<phase, todo, lim, at, want, cand, got>>
vars == <<db, state, owner, paused, limit, lock, phase, todo, lim, at, want, cand,
          got, starting, moves>>

MinOf(m, n) == IF m <= n THEN m ELSE n
Served(w)   == IF Subscribed[w] = {} THEN Queues ELSE Subscribed[w]
NoLimits    == [q \in Queues |-> 0]
Postgres    == db = "postgres"
Occupied    == {"active", "revived"}     \* ACTIVE_STATES

\* The first n of S in the order of the candidate query, ties broken anyhow.
First(S, n) ==
    {C \in SUBSET S : /\ Cardinality(C) = MinOf(n, Cardinality(S))
                      /\ \A c \in C, e \in S \ C : Rank[c] <= Rank[e]}

\* _active_count, seen from inside w's transaction.
ActiveCount(w, q) ==
    Cardinality({j \in Jobs : QueueOf[j] = q /\ (state[j] \in Occupied \/ j \in got[w])})

Init ==
    /\ db \in Databases
    /\ state \in [Jobs -> {"queued", "away"}]
    /\ owner = [j \in Jobs |-> None]
    /\ paused = [q \in Queues |-> FALSE]
    /\ limit \in [Queues -> UNION {Limits[q] : q \in Queues}]
    /\ \A q \in Queues : limit[q] \in Limits[q]
    /\ lock = [j \in Jobs |-> None]
    /\ phase = [w \in Workers |-> "idle"]
    /\ todo = [w \in Workers |-> {}]
    /\ lim = [w \in Workers |-> NoLimits]
    /\ at = [w \in Workers |-> None]
    /\ want = [w \in Workers |-> 0]
    /\ cand = [w \in Workers |-> {}]
    /\ got = [w \in Workers |-> {}]
    /\ starting = {}
    /\ moves = 0

----------------------------------------------------------------------------
(* claim_jobs                                                               *)

\* The unpaused queues the worker serves, with their limits.
ReadQueues(w) ==
    /\ phase[w] = "idle"
    /\ phase' = [phase EXCEPT ![w] = "loop"]
    /\ todo' = [todo EXCEPT ![w] = {q \in Served(w) : ~paused[q]}]
    /\ lim' = [lim EXCEPT ![w] = limit]
    /\ UNCHANGED <<jobVars, queueVars, lock, at, want, cand, got, boundVars>>

\* `capacity` and `take`, from the limit as loaded and the count as it is now.
Capacity(w, q) == lim[w][q] - ActiveCount(w, q)

\* Faults: a full queue is recognised only at equality; one slot stays empty;
\* the batch ignores what was claimed from other queues; capacity is ignored.
FullAtLimit(w, q)  == Capacity(w, q) = 0
FullEarly(w, q)    == Capacity(w, q) <= 1
TakePerQueue(w, q) == MinOf(Batch, Capacity(w, q))
TakeBatch(w, q)    == Batch - Cardinality(got[w])

Full(w, q) == Capacity(w, q) <= 0
Take(w, q) == MinOf(Batch - Cardinality(got[w]), Capacity(w, q))

\* Top of the loop: the next queue by priority; skip it when it is full.
VisitQueue(w) ==
    /\ phase[w] = "loop" /\ Cardinality(got[w]) < Batch
    /\ \E q \in todo[w] :
         /\ \A p \in todo[w] : QPriority[p] <= QPriority[q]
         /\ todo' = [todo EXCEPT ![w] = @ \ {q}]
         /\ \/ /\ Full(w, q)
               /\ UNCHANGED <<phase, at, want>>
            \/ /\ ~Full(w, q)
               /\ phase' = [phase EXCEPT ![w] = "select"]
               /\ at' = [at EXCEPT ![w] = q]
               /\ want' = [want EXCEPT ![w] = Take(w, q)]
    /\ UNCHANGED <<jobVars, queueVars, lock, lim, cand, got, boundVars>>

\* The end of the loop's body; queue and take are not read again.
NextQueue(w) ==
    /\ phase' = [phase EXCEPT ![w] = "loop"]
    /\ at' = [at EXCEPT ![w] = None]
    /\ want' = [want EXCEPT ![w] = 0]

\* Fault: rows locked by another claim are not skipped.
EligibleLocked(w) ==
    {j \in Jobs : QueueOf[j] = at[w] /\ state[j] = "queued" /\ j \notin got[w]}

\* The candidate SELECT; on PostgreSQL it skips and takes row locks.
Eligible(w) ==
    {j \in Jobs : /\ QueueOf[j] = at[w] /\ state[j] = "queued" /\ j \notin got[w]
                  /\ Postgres => lock[j] = None}

Select(w) ==
    /\ phase[w] = "select"
    /\ \E C \in First(Eligible(w), want[w]) :
         /\ cand' = [cand EXCEPT ![w] = C]
         /\ lock' = [j \in Jobs |-> IF Postgres /\ j \in C THEN w ELSE lock[j]]
         /\ \/ C # {} /\ phase' = [phase EXCEPT ![w] = "update"] /\ UNCHANGED <<at, want>>
            \/ C = {} /\ NextQueue(w)
    /\ UNCHANGED <<jobVars, queueVars, todo, lim, got, boundVars>>

\* Fault: the UPDATE does not repeat the state condition.
WonUnguarded(w) == cand[w]

\* The guarded UPDATEs: a row that is no longer queued is not claimed.  The
\* candidates' updates run with nothing in between: their rows are locked, or
\* the first of them has locked the database.
Won(w) == {j \in cand[w] : state[j] = "queued"}

Update(w) ==
    /\ phase[w] = "update"
    /\ Postgres \/ \A j \in Jobs : lock[j] \in {None, w}
    /\ got' = [got EXCEPT ![w] = @ \cup Won(w)]
    /\ lock' = [j \in Jobs |-> IF Postgres THEN lock[j] ELSE w]
    /\ cand' = [cand EXCEPT ![w] = {}]
    /\ NextQueue(w)
    /\ UNCHANGED <<jobVars, queueVars, todo, lim, boundVars>>

\* The end of a transaction releases its locks and the call's variables.
EndCall(w) ==
    /\ lock' = [j \in Jobs |-> IF lock[j] = w THEN None ELSE lock[j]]
    /\ phase' = [phase EXCEPT ![w] = "idle"]
    /\ todo' = [todo EXCEPT ![w] = {}]
    /\ lim' = [lim EXCEPT ![w] = NoLimits]
    /\ at' = [at EXCEPT ![w] = None]
    /\ want' = [want EXCEPT ![w] = 0]
    /\ cand' = [cand EXCEPT ![w] = {}]
    /\ got' = [got EXCEPT ![w] = {}]

Commit(w) ==
    /\ phase[w] = "loop"
    /\ todo[w] = {} \/ Cardinality(got[w]) >= Batch
    /\ state' = [j \in Jobs |-> IF j \in got[w] THEN "active" ELSE state[j]]
    /\ owner' = [j \in Jobs |-> IF j \in got[w] THEN w ELSE owner[j]]
    /\ EndCall(w)
    /\ UNCHANGED <<queueVars, boundVars>>

\* The request fails half way: the session is closed and rolled back.
Abort(w) ==
    /\ Aborts
    /\ phase[w] # "idle"
    /\ EndCall(w)
    /\ UNCHANGED <<jobVars, queueVars, boundVars>>

ClaimStep(w) ==
    ReadQueues(w) \/ VisitQueue(w) \/ Select(w) \/ Update(w) \/ Commit(w)

----------------------------------------------------------------------------
(* The other transactions on the same rows; a row under another             *)
(* transaction's write lock cannot be written.                              *)

Unlocked(j) == lock[j] = None
Move == moves < MaxMoves /\ moves' = moves + 1

\* complete_job, fail_job, or a cancel: the slot becomes free.  Only a failure
\* that is retried clears claimed_by_worker_id.
Leave(j) ==
    /\ state[j] \in Occupied /\ Unlocked(j)
    /\ state' = [state EXCEPT ![j] = "away"]
    /\ owner' \in {owner, [owner EXCEPT ![j] = None]}
    /\ UNCHANGED <<queueVars, lock, callVars, boundVars>>

\* reap_expired_leases
Requeue(j) ==
    /\ state[j] \in Occupied /\ Unlocked(j)
    /\ state' = [state EXCEPT ![j] = "queued"]
    /\ owner' = [owner EXCEPT ![j] = None]
    /\ UNCHANGED <<queueVars, lock, callVars, boundVars>>

\* create_job, promotion, a released dependency or a manual retry.  The first
\* three find claimed_by_worker_id empty, the last one clears it.
Enqueue(j) ==
    /\ state[j] = "away" /\ Unlocked(j)
    /\ state' = [state EXCEPT ![j] = "queued"]
    /\ owner' = [owner EXCEPT ![j] = None]
    /\ UNCHANGED <<queueVars, lock, callVars, boundVars>>

\* cancel_job on a queued job, or the late result of a job that was reaped.
Cancel(j) ==
    /\ state[j] = "queued" /\ Unlocked(j)
    /\ state' = [state EXCEPT ![j] = "away"]
    /\ UNCHANGED <<owner, queueVars, lock, callVars, boundVars>>

\* start_job checks the row it has loaded; start_execution then writes
\* RUNNING whatever the row has become.  (A start with nothing in between
\* leaves the job as active as it was.)
StartRead(j) ==
    /\ state[j] = "active" /\ Move
    /\ starting' = starting \cup {j}
    /\ UNCHANGED <<jobVars, queueVars, lock, callVars>>
StartCommit(j) ==
    /\ j \in starting /\ Unlocked(j)
    /\ starting' = starting \ {j}
    /\ state' = [state EXCEPT ![j] = IF @ = "active" THEN @ ELSE "revived"]
    /\ UNCHANGED <<owner, queueVars, lock, callVars, moves>>

\* pause_queue, resume_queue and update_queue.
QueueWritable == Postgres \/ \A j \in Jobs : Unlocked(j)
SetPaused(q, b) ==
    /\ paused[q] # b /\ QueueWritable /\ Move
    /\ paused' = [paused EXCEPT ![q] = b]
    /\ UNCHANGED <<db, jobVars, limit, lock, callVars, starting>>
SetLimit(q, n) ==
    /\ limit[q] # n /\ QueueWritable /\ Move
    /\ limit' = [limit EXCEPT ![q] = n]
    /\ UNCHANGED <<db, jobVars, paused, lock, callVars, starting>>

RowStep(j) ==
    Leave(j) \/ Requeue(j) \/ Enqueue(j) \/ Cancel(j) \/ StartRead(j) \/ StartCommit(j)

Next ==
    \/ \E w \in Workers : ClaimStep(w) \/ Abort(w)
    \/ \E j \in Jobs : RowStep(j)
    \/ \E q \in Queues, b \in BOOLEAN : SetPaused(q, b)
    \/ \E q \in Queues : \E n \in Limits[q] : SetLimit(q, n)

Spec == Init /\ [][Next]_vars

\* Workers poll for ever, the database answers, what runs is reported;
\* rollbacks come to an end.  Nothing says that jobs stop arriving.
Fairness ==
    /\ \A w \in Workers : WF_vars(ClaimStep(w))
    /\ \A j \in Jobs : WF_vars(Leave(j))
    /\ <>[][\A w \in Workers : Abort(w) => Commit(w)]_vars
FairSpec == Spec /\ Fairness

----------------------------------------------------------------------------
(* Properties.                                                              *)

Phases == {"idle", "loop", "select", "update"}
States == {"queued", "away"} \cup Occupied

\* Type correctness of the committed rows and of the calls' variables.
TypeOK ==
    /\ db \in Databases
    /\ state \in [Jobs -> States]
    /\ owner \in [Jobs -> Workers \cup {None}]
    /\ paused \in [Queues -> BOOLEAN] /\ limit \in [Queues -> Nat]
    /\ lock \in [Jobs -> Workers \cup {None}]
    /\ phase \in [Workers -> Phases]
    /\ todo \in [Workers -> SUBSET Queues]
    /\ lim \in [Workers -> [Queues -> Nat]]
    /\ at \in [Workers -> Queues \cup {None}] /\ want \in [Workers -> Nat]
    /\ cand \in [Workers -> SUBSET Jobs] /\ got \in [Workers -> SUBSET Jobs]
    /\ starting \subseteq Jobs /\ moves \in 0 .. MaxMoves

\* A claim that is not committed yet cannot be invalidated: its rows are
\* still QUEUED and locked by it, whatever reaper, cancel or retry do.
ClaimIsFresh ==
    \A w \in Workers : \A j \in got[w] : state[j] = "queued" /\ lock[j] = w

\* claiming.py: "On Postgres it always wins (row is locked)": every candidate
\* is still QUEUED when its guarded UPDATE runs.
GuardAlwaysWins ==
    Postgres => \A w \in Workers : phase[w] = "update" => Won(w) = cand[w]

\* A claim returns at most `limit` jobs over all the queues it visits.
BatchBounded == \A w \in Workers : Cardinality(got[w]) <= Batch

\* A claim that takes anything from a queue leaves its worker within the
\* limit it has read, counting what it was handed before and still holds:
\* beside late starts, limits are overshot only by workers claiming at once,
\* at most N-fold by N workers.
Holding(w, q) ==
    {j \in Jobs : /\ QueueOf[j] = q
                  /\ j \in got[w] \/ (state[j] = "active" /\ owner[j] = w)}
PerWorkerWithinLimit ==
    \A w \in Workers, q \in Queues :
        (\E j \in got[w] : QueueOf[j] = q) => Cardinality(Holding(w, q)) <= lim[w][q]

\* ARCHITECTURE.md: "a queue cannot exceed its configured parallelism even
\* across many workers" (for a limit nobody changes).
ConcurrencyLimitHeld ==
    \A q \in Queues :
        Cardinality({j \in Jobs : QueueOf[j] = q /\ state[j] = "active"}) <= limit[q]

\* Exactly-once claiming: the statement-level transactions implement the
\* atomic hand-out, on either database.
Abstract == INSTANCE AtomicClaim WITH
    avail <- {j \in Jobs : state[j] = "queued"},
    held <- [w \in Workers |-> {j \in Jobs : state[j] = "active" /\ owner[j] = w}]
ImplementsAtomicClaim == Abstract!Spec

\* The jobs a claim serves before j: those of a queue of higher or the same
\* priority, in j's own queue those not ranked after it.  On SQLite every
\* claim competes for the one write lock, which is not handed out in turn.
ServedBefore(j) ==
    {k \in Jobs \ {j} :
        \/ ~Postgres
        \/ QueueOf[k] = QueueOf[j] /\ Rank[k] <= Rank[j]
        \/ QueueOf[k] # QueueOf[j] /\ QPriority[QueueOf[k]] >= QPriority[QueueOf[j]]}
Arrives(k) == state[k] # "queued" /\ state'[k] = "queued"

\* ORDER BY priority may pass a job over for ever, but only so: a job that
\* stays queued in an unpaused queue is left behind only by jobs served
\* before it that keep arriving; neither SKIP LOCKED, full queues, a batch
\* filled elsewhere nor a late start lose it.
PassedOverOnlyByArrivals ==
    \A j \in Jobs :
        <>[](state[j] = "queued" /\ ~paused[QueueOf[j]])
            => []<><<\E k \in ServedBefore(j) : Arrives(k)>>_vars
=============================================================================
