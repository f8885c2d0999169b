---------------------------- MODULE RetryBackoff ----------------------------
(* compute_backoff_seconds, called by fail_job after each failed attempt of *)
(* one job.  The policy is snapshotted on the job when it is created, from  *)
(* its queue and the overrides of the request; operators may replace the    *)
(* queue's policy at any time.  Seconds are integers here and delays are    *)
(* counted in 1/Scale of a second, so that a jitter fraction of             *)
(* jitter/Scale is exact.                                                   *)
EXTENDS Integers, JobTypes

CONSTANTS
    Bases, Factors, Caps,   \* base_delay, backoff_factor, max_delay, in seconds
    Jitters, Scale,         \* jitter fractions, as multiples of 1/Scale
    LastAttempt             \* bound: attempts explored (max_attempts <= 50)

CONSTANTS
    QueuePolicies,          \* policies operators give the queue
    BuiltIn                 \* the policy of a queue that has none

\* The ranges the request schemas enforce (ge=0, ge=1, 0 <= jitter <= 1).
ASSUME PolicyAssumption ==
    /\ Bases \subseteq Nat /\ Factors \subseteq Nat \ {0} /\ Caps \subseteq Nat
    /\ Scale \in Nat \ {0} /\ Jitters \subseteq 0 .. Scale
    /\ LastAttempt \in Nat

Strategies == {"fixed", "linear", "exponential"}
Policies == [strategy : Strategies, base : Bases, factor : Factors,
             cap : Caps, jitter : Jitters]

ASSUME SnapshotAssumption ==
    QueuePolicies \subseteq Policies /\ BuiltIn \in Policies /\ None \notin Policies

\* What a proof needs to know of ^, which the provers do not interpret: true of
\* every natural factor, and evaluated here for those of the instance.
ASSUME PowerAssumption ==
    \A f \in Factors :
       /\ f ^ 0 = 1
       /\ \A n \in 0 .. LastAttempt : f ^ n \in Nat \ {0} /\ f ^ (n + 1) = f * f ^ n
       /\ \A m, n \in 0 .. LastAttempt : m <= n => f ^ m <= f ^ n

VARIABLES
    queue,     \* Queue.retry_policy
    policy,    \* the job's snapshot of it, None before the job exists
    attempt,   \* jobs.attempts
    most,      \* the most attempts the row has ever had
    failed,    \* the attempts fail_job found at the last failure
    nominal,   \* its delay before jitter, in seconds
    delay      \* its delay, in 1/Scale of a second

lastFailure == <<failed, nominal, delay>>
vars == <<queue, policy, attempt, most, failed, nominal, delay>>

AtMost(m, n) == IF m <= n THEN m ELSE n
AtLeast(m, n) == IF m >= n THEN m ELSE n

Raw(p, n) == CASE p.strategy = "fixed" -> p.base
               [] p.strategy = "linear" -> p.base * n
               [] p.strategy = "exponential" -> p.base * p.factor ^ (n - 1)

\* Faults: no clamp; the exponent is off by one.
NominalUnclamped(p, a) == Raw(p, AtLeast(a, 1))
NominalOffByOne(p, a)  == AtMost(Raw(p, a + 1), p.cap)

\* The delay of the strategy, clamped to max_delay.
Nominal(p, a) == AtMost(Raw(p, AtLeast(a, 1)), p.cap)

\* The values random.uniform may pick around it.
Jittered(p, d) ==
    {AtLeast(0, x) : x \in d * (Scale - p.jitter) .. d * (Scale + p.jitter)}

\* _policy_defaults
PolicyDefaults == IF queue = None THEN BuiltIn ELSE queue

\* Fault: the policy is looked up when it is needed.
AppliedLive == PolicyDefaults

\* fail_job reads the columns of the job.
Applied == policy

\* The exponent is attempt - 1, and attempt is floored at 1.
Compute(a) ==
    /\ failed' = a
    /\ nominal' = Nominal(Applied, a)
    /\ delay' \in Jittered(Applied, nominal')

Init ==
    /\ queue \in QueuePolicies \cup {None}
    /\ policy = None
    /\ attempt = 0 /\ most = 0
    /\ failed = 0 /\ nominal = 0 /\ delay = 0

\* update_queue stores a new policy row or none; rows are never changed.
UpdateQueue ==
    /\ queue' \in (QueuePolicies \cup {None}) \ {queue}
    /\ UNCHANGED <<policy, attempt, most, lastFailure>>

\* create_job: the queue's policy with the columns F overridden.
CreateJob ==
    /\ policy = None
    /\ \E o \in Policies, F \in SUBSET DOMAIN BuiltIn :
         policy' = [f \in DOMAIN BuiltIn |-> IF f \in F THEN o[f] ELSE PolicyDefaults[f]]
    /\ UNCHANGED <<queue, attempt, most, lastFailure>>

\* start_execution writes what its handler has loaded plus one: the row, or
\* one that a manual retry or another start has replaced since.
Start ==
    /\ policy # None
    /\ attempt' \in 1 .. AtMost(most + 1, LastAttempt)
    /\ most' = AtLeast(most, attempt')
    /\ UNCHANGED <<queue, policy, lastFailure>>

\* An execution fails: the last one, one whose result comes late, or, after
\* retry_job, one from before the reset.
Fail ==
    /\ most > 0
    /\ Compute(attempt)
    /\ UNCHANGED <<queue, policy, attempt, most>>

\* retry_job, of a job that is dead, completed, or cancelled at any time.
RetryJob ==
    /\ policy # None
    /\ attempt' = 0
    /\ UNCHANGED <<queue, policy, most, lastFailure>>

Next == UpdateQueue \/ CreateJob \/ Start \/ Fail \/ RetryJob

Spec == Init /\ [][Next]_vars

----------------------------------------------------------------------------
\* Jitter is applied last, yet the delay stays within the jitter fraction of
\* max_delay: run_at never lies in the past, and never further away than
\* max_delay * (1 + jitter), whatever set the counter back in between.
WithinJitteredCap == policy # None => delay \in 0 .. policy.cap * (Scale + policy.jitter)

\* Jitter aside, a failure waits no shorter than the one before it unless the
\* counter has been set back in between, by a manual retry or a stale start:
\* neither a new policy of the queue nor a late result speeds a job up.
BackoffNeverShrinks ==
    [][policy # None /\ policy.jitter = 0 /\ Fail /\ attempt >= failed =>
         delay' >= delay]_vars

\* Exponential backoff starts at base_delay, also after a manual retry, and
\* multiplies by backoff_factor from one attempt to the next until it reaches
\* max_delay; a second result for the same attempt waits as long as the first.
GeometricGrowth ==
    [][policy # None /\ policy.strategy = "exponential" /\ Fail =>
         /\ attempt <= 1 => nominal' = AtMost(policy.base, policy.cap)
         /\ attempt > 1 /\ attempt = failed + 1 =>
              nominal' = AtMost(nominal * policy.factor, policy.cap)
         /\ attempt > 1 /\ attempt = failed => nominal' = nominal]_vars
=============================================================================
