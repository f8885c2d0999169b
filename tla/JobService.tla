----------------------------- MODULE JobService -----------------------------
(* What the job service promises a client whose job nobody cancels or       *)
(* retries by hand: the life of models/enums.py JobState and the sequence   *)
(* diagram of docs/ARCHITECTURE.md, each arrow one step.  No requests, no   *)
(* snapshots, no clock: a job waits, is handed to one worker, is executed   *)
(* by it, and ends COMPLETED, releasing its dependents, or DEAD, with a     *)
(* dead letter; a job in a worker's hands may be taken back.                *)
EXTENDS Naturals, JobTypes

CONSTANTS Jobs, Workers, Parent, MaxAttempts

VARIABLES
    state,      \* of each job
    attempts,   \* executions begun
    holder,     \* the worker a job is with
    waits,      \* the job whose completion a job waits for
    letters     \* the jobs in the Dead Letter Queue

vars == <<state, attempts, holder, waits, letters>>

Init ==
    /\ state \in [Jobs -> {"queued", "scheduled"}]
    /\ attempts = [j \in Jobs |-> 0]
    /\ holder = [j \in Jobs |-> None]
    /\ waits = Parent
    /\ \A j \in Jobs : waits[j] # None => state[j] = "scheduled"
    /\ letters = {}

\* run_at arrives for some jobs that wait for nothing else.
Promote(S) ==
    /\ \A j \in S : state[j] = "scheduled" /\ waits[j] = None
    /\ state' = [j \in Jobs |-> IF j \in S THEN "queued" ELSE state[j]]
    /\ UNCHANGED <<attempts, holder, waits, letters>>

Hand(j, w) ==
    /\ state[j] = "queued" /\ waits[j] = None
    /\ state' = [state EXCEPT ![j] = "claimed"]
    /\ holder' = [holder EXCEPT ![j] = w]
    /\ UNCHANGED <<attempts, waits, letters>>

Begin(j) ==
    /\ state[j] = "claimed"
    /\ state' = [state EXCEPT ![j] = "running"]
    /\ attempts' = [attempts EXCEPT ![j] = @ + 1]
    /\ UNCHANGED <<holder, waits, letters>>

\* Success: all dependents are freed with it, the due ones (S) are queued.
Succeed(j, S) ==
    /\ state[j] = "running"
    /\ \A k \in S : waits[k] = j
    /\ state' = [k \in Jobs |-> IF k = j THEN "completed"
                                ELSE IF k \in S THEN "queued" ELSE state[k]]
    /\ waits' = [k \in Jobs |-> IF waits[k] = j THEN None ELSE waits[k]]
    /\ holder' = [holder EXCEPT ![j] = None]
    /\ UNCHANGED <<attempts, letters>>

\* A failure is retried while attempts are left ...
FailAgain(j) ==
    /\ state[j] = "running" /\ attempts[j] < MaxAttempts
    /\ state' = [state EXCEPT ![j] = "scheduled"]
    /\ holder' = [holder EXCEPT ![j] = None]
    /\ UNCHANGED <<attempts, waits, letters>>

\* ... and ends in the Dead Letter Queue when none is.
GiveUp(j) ==
    /\ state[j] = "running" /\ attempts[j] >= MaxAttempts
    /\ state' = [state EXCEPT ![j] = "dead"]
    /\ holder' = [holder EXCEPT ![j] = None]
    /\ letters' = letters \cup {j}
    /\ UNCHANGED <<attempts, waits>>

\* Jobs of workers that are gone become available again.
TakeBack(S) ==
    /\ \A j \in S : state[j] \in ACTIVE_STATES
    /\ state' = [j \in Jobs |-> IF j \in S THEN "queued" ELSE state[j]]
    /\ holder' = [j \in Jobs |-> IF j \in S THEN None ELSE holder[j]]
    /\ UNCHANGED <<attempts, waits, letters>>

Next ==
    \/ \E S \in SUBSET Jobs : Promote(S) \/ TakeBack(S)
    \/ \E j \in Jobs, w \in Workers : Hand(j, w)
    \/ \E j \in Jobs : Begin(j) \/ FailAgain(j) \/ GiveUp(j)
    \/ \E j \in Jobs, S \in SUBSET Jobs : Succeed(j, S)

Spec == Init /\ [][Next]_vars
=============================================================================
