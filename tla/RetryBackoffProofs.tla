------------------------- MODULE RetryBackoffProofs -------------------------
(* Theorems about RetryBackoff for every set of policies within the ranges  *)
(* of the request schemas, and any number of attempts.                      *)
EXTENDS RetryBackoff, TLAPS

----------------------------------------------------------------------------
(* Arithmetic.                                                              *)

\* Multiplication by a natural number is monotonic.
LEMMA TimesMonotonic ==
    ASSUME NEW m \in Nat, NEW n \in Nat, NEW k \in Nat, m <= n
    PROVE  m * k <= n * k /\ k * m <= k * n
  OBVIOUS

\* A product of naturals is one.
LEMMA TimesType == \A m, n \in Nat : m * n \in Nat
  OBVIOUS

\* Clamping is monotonic, and yields a natural within the clamp.
LEMMA Clamp ==
    ASSUME NEW m \in Nat, NEW n \in Nat, NEW c \in Nat
    PROVE  /\ AtMost(m, c) \in 0 .. c
           /\ m <= n => AtMost(m, c) <= AtMost(n, c)
  BY DEF AtMost

\* A delay that has been clamped grows like one that has not: the clamp may be
\* applied at each attempt or at the end.
LEMMA ClampTimes ==
    ASSUME NEW m \in Nat, NEW f \in Nat \ {0}, NEW c \in Nat
    PROVE  AtMost(AtMost(m, c) * f, c) = AtMost(m * f, c)
  <1>1. m <= m * f /\ c <= c * f /\ m * f \in Nat /\ c * f \in Nat
    OBVIOUS
  <1>2. CASE m <= c
    BY <1>2 DEF AtMost
  <1>3. CASE ~(m <= c)
    BY <1>1, <1>3 DEF AtMost
  <1> QED BY <1>2, <1>3

\* The columns of a policy.
LEMMA PolicyColumns ==
    ASSUME NEW p \in Policies
    PROVE  /\ DOMAIN p = {"strategy", "base", "factor", "cap", "jitter"}
           /\ p.strategy \in {"fixed", "linear", "exponential"}
           /\ p.base \in Nat /\ p.factor \in Factors /\ p.factor \in Nat \ {0}
           /\ p.cap \in Nat /\ p.jitter \in 0 .. Scale
  BY PolicyAssumption DEF Policies, Strategies

----------------------------------------------------------------------------
(* The strategies.                                                          *)

\* The delay of an attempt, before the clamp, is a number of seconds.
LEMMA RawType ==
    ASSUME NEW p \in Policies, NEW n \in 1 .. LastAttempt + 1
    PROVE  Raw(p, n) \in Nat
  <1> USE PolicyColumns
  <1>1. CASE p.strategy = "fixed"
    BY <1>1 DEF Raw
  <1>2. CASE p.strategy = "linear"
    <2>1. Raw(p, n) = p.base * n /\ n \in Nat
      BY <1>2, PolicyAssumption DEF Raw
    <2> QED BY <2>1, TimesType
  <1>3. CASE p.strategy = "exponential"
    <2>1. Raw(p, n) = p.base * p.factor ^ (n - 1)
      BY <1>3 DEF Raw
    <2>2. n - 1 \in 0 .. LastAttempt
      BY PolicyAssumption
    <2>3. p.factor ^ (n - 1) \in Nat
      BY <2>2, PowerAssumption
    <2> QED BY <2>1, <2>3, TimesType
  <1> QED BY <1>1, <1>2, <1>3

\* Of the exponential strategy, from one attempt to the next.
LEMMA RawExponential ==
    ASSUME NEW p \in Policies, p.strategy = "exponential"
    PROVE  /\ Raw(p, 1) = p.base
           /\ \A n \in 1 .. LastAttempt : Raw(p, n + 1) = Raw(p, n) * p.factor
  <1> USE PolicyColumns
  <1>1. Raw(p, 1) = p.base * p.factor ^ (1 - 1)
    BY DEF Raw
  <1>2. p.factor ^ 0 = 1
    BY PowerAssumption
  <1>3. Raw(p, 1) = p.base
    BY <1>1, <1>2
  <1>4. ASSUME NEW n \in 1 .. LastAttempt
        PROVE  Raw(p, n + 1) = Raw(p, n) * p.factor
    <2>1. PICK k \in 0 .. LastAttempt : k = n - 1
      BY PolicyAssumption
    <2>2. n = k + 1 /\ (n + 1) - 1 = k + 1
      BY <2>1, PolicyAssumption
    <2>3. Raw(p, n) = p.base * p.factor ^ k /\ Raw(p, n + 1) = p.base * p.factor ^ (k + 1)
      BY <2>1, <2>2 DEF Raw
    <2>4. p.factor ^ k \in Nat /\ p.factor ^ (k + 1) = p.factor * p.factor ^ k
      BY PowerAssumption
    <2>5. \A b, f, x \in Nat : b * (f * x) = (b * x) * f
      OBVIOUS
    <2> QED BY <2>3, <2>4, <2>5
  <1> QED BY <1>3, <1>4

\* No strategy shortens the delay of a later attempt.
LEMMA RawGrows ==
    ASSUME NEW p \in Policies, NEW m \in 1 .. LastAttempt + 1,
           NEW n \in 1 .. LastAttempt + 1, m <= n
    PROVE  Raw(p, m) <= Raw(p, n)
  <1> USE PolicyColumns
  <1>0. m \in Nat /\ n \in Nat /\ p.base \in Nat
    BY PolicyAssumption
  <1>1. CASE p.strategy = "fixed"
    BY <1>0, <1>1 DEF Raw
  <1>2. CASE p.strategy = "linear"
    <2>1. Raw(p, m) = p.base * m /\ Raw(p, n) = p.base * n
      BY <1>2 DEF Raw
    <2> QED BY <1>0, <2>1, TimesMonotonic
  <1>3. CASE p.strategy = "exponential"
    <2>1. PICK k \in 0 .. LastAttempt : k = m - 1
      BY PolicyAssumption
    <2>2. PICK l \in 0 .. LastAttempt : l = n - 1
      BY PolicyAssumption
    <2>3. Raw(p, m) = p.base * p.factor ^ k /\ Raw(p, n) = p.base * p.factor ^ l
      BY <1>3, <2>1, <2>2 DEF Raw
    <2>4. k <= l
      BY <2>1, <2>2, PolicyAssumption
    <2>5. /\ p.factor ^ k \in Nat /\ p.factor ^ l \in Nat
          /\ p.factor ^ k <= p.factor ^ l
      BY <2>4, PowerAssumption
    <2> QED BY <1>0, <2>3, <2>5, TimesMonotonic
  <1> QED BY <1>1, <1>2, <1>3

\* The clamped delay is within the cap.
LEMMA NominalType ==
    ASSUME NEW p \in Policies, NEW a \in 0 .. LastAttempt
    PROVE  Nominal(p, a) \in 0 .. p.cap
  <1>1. AtLeast(a, 1) \in 1 .. LastAttempt + 1
    BY PolicyAssumption DEF AtLeast
  <1>2. Raw(p, AtLeast(a, 1)) \in Nat /\ p.cap \in Nat
    BY <1>1, RawType, PolicyColumns
  <1> QED BY <1>2, Clamp DEF Nominal

\* A later attempt never waits shorter.
LEMMA NominalGrows ==
    ASSUME NEW p \in Policies, NEW a \in 0 .. LastAttempt, NEW b \in 0 .. LastAttempt,
           a <= b
    PROVE  Nominal(p, a) <= Nominal(p, b)
  <1>1. /\ AtLeast(a, 1) \in 1 .. LastAttempt + 1 /\ AtLeast(b, 1) \in 1 .. LastAttempt + 1
        /\ AtLeast(a, 1) <= AtLeast(b, 1)
    BY PolicyAssumption DEF AtLeast
  <1>2. /\ Raw(p, AtLeast(a, 1)) \in Nat /\ Raw(p, AtLeast(b, 1)) \in Nat
        /\ Raw(p, AtLeast(a, 1)) <= Raw(p, AtLeast(b, 1)) /\ p.cap \in Nat
    BY <1>1, RawType, RawGrows, PolicyColumns
  <1> QED BY <1>2, Clamp DEF Nominal

\* Jitter keeps the delay within its fraction of the cap, and zero jitter
\* leaves it alone.
LEMMA JitterBound ==
    ASSUME NEW p \in Policies, NEW d \in 0 .. p.cap, NEW y \in Jittered(p, d)
    PROVE  /\ y \in 0 .. p.cap * (Scale + p.jitter)
           /\ p.jitter = 0 => y = d * Scale
  <1> USE PolicyColumns
  <1>0. /\ d \in Nat /\ p.cap \in Nat /\ d <= p.cap
        /\ Scale \in Nat /\ Scale - p.jitter \in Nat /\ Scale + p.jitter \in Nat
    BY PolicyAssumption
  <1>1. PICK x \in d * (Scale - p.jitter) .. d * (Scale + p.jitter) : y = AtLeast(0, x)
    BY DEF Jittered
  <1>2. d * (Scale - p.jitter) \in Nat /\ d * (Scale + p.jitter) \in Nat
    BY <1>0, TimesType
  <1>3. d * (Scale + p.jitter) <= p.cap * (Scale + p.jitter)
    BY <1>0, TimesMonotonic
  <1>4. p.cap * (Scale + p.jitter) \in Nat
    BY <1>0, TimesType
  <1>5. x \in Nat /\ y = x
    BY <1>1, <1>2 DEF AtLeast
  <1>6. y \in 0 .. p.cap * (Scale + p.jitter)
    BY <1>1, <1>2, <1>3, <1>4, <1>5
  <1>7. ASSUME p.jitter = 0 PROVE y = d * Scale
    <2>1. Scale - p.jitter = Scale /\ Scale + p.jitter = Scale
      BY <1>0, <1>7
    <2> QED BY <1>1, <1>2, <1>5, <2>1
  <1> QED BY <1>6, <1>7

----------------------------------------------------------------------------
(* The inductive invariant: the delay on record is that of the attempts at  *)
(* the last failure under the job's own policy, or none has failed yet.     *)

OnRecord ==
    /\ queue \in QueuePolicies \cup {None}
    /\ policy \in Policies \cup {None}
    /\ attempt \in 0 .. LastAttempt /\ most \in 0 .. LastAttempt
    /\ failed \in 0 .. LastAttempt
    /\ policy = None => most = 0
    /\ \/ failed = 0 /\ nominal = 0 /\ delay = 0
       \/ /\ policy # None
          /\ nominal = Nominal(policy, failed)
          /\ delay \in Jittered(policy, nominal)

\* A policy with some columns overridden by those of another is one.
LEMMA OverridesType ==
    ASSUME NEW p \in Policies, NEW o \in Policies, NEW F \in SUBSET DOMAIN BuiltIn
    PROVE  [f \in DOMAIN BuiltIn |-> IF f \in F THEN o[f] ELSE p[f]] \in Policies
  <1> DEFINE q == [f \in DOMAIN BuiltIn |-> IF f \in F THEN o[f] ELSE p[f]]
  <1>1. DOMAIN BuiltIn = {"strategy", "base", "factor", "cap", "jitter"}
    BY SnapshotAssumption, PolicyColumns
  <1>2. /\ q.strategy \in Strategies /\ q.base \in Bases /\ q.factor \in Factors
        /\ q.cap \in Caps /\ q.jitter \in Jitters
    BY <1>1 DEF Policies
  <1>3. q = [strategy |-> q.strategy, base |-> q.base, factor |-> q.factor,
             cap |-> q.cap, jitter |-> q.jitter]
    BY <1>1
  <1> HIDE DEF q
  <1>4. q \in Policies
    BY <1>2, <1>3 DEF Policies
  <1> QED BY <1>4 DEF q

\* Every step.
LEMMA OnRecordNext == OnRecord /\ [Next]_vars => OnRecord'
  <1> SUFFICES ASSUME OnRecord, [Next]_vars PROVE OnRecord'
    OBVIOUS
  <1> USE DEF OnRecord
  <1>1. CASE UpdateQueue
    BY <1>1 DEF UpdateQueue, lastFailure
  <1>2. CASE CreateJob
    <2>1. PolicyDefaults \in Policies
      BY SnapshotAssumption DEF PolicyDefaults
    <2>2. policy' \in Policies
      BY <1>2, <2>1, OverridesType DEF CreateJob
    <2>3. UNCHANGED <<queue, attempt, most, failed, nominal, delay>> /\ policy = None
      BY <1>2 DEF CreateJob, lastFailure
    <2> QED BY <2>2, <2>3
  <1>3. CASE Start
    <2>1. /\ UNCHANGED <<queue, policy, failed, nominal, delay>> /\ policy # None
          /\ attempt' \in 1 .. AtMost(most + 1, LastAttempt)
          /\ most' = AtLeast(most, attempt')
      BY <1>3 DEF Start, lastFailure
    <2>2. attempt' \in 0 .. LastAttempt /\ most' \in 0 .. LastAttempt
      BY <2>1, PolicyAssumption DEF AtMost, AtLeast
    <2> QED BY <2>1, <2>2
  <1>4. CASE Fail
    BY <1>4 DEF Fail, Compute, Applied
  <1>5. CASE RetryJob
    <2>1. 0 \in 0 .. LastAttempt
      BY PolicyAssumption
    <2> QED BY <1>5, <2>1 DEF RetryJob, lastFailure
  <1>6. CASE UNCHANGED vars
    BY <1>6 DEF vars
  <1> QED BY <1>1, <1>2, <1>3, <1>4, <1>5, <1>6 DEF Next

\* The invariant holds throughout.
LEMMA OnRecordAlways == Spec => []OnRecord
  <1>1. Init => OnRecord
    BY PolicyAssumption DEF Init, OnRecord
  <1> QED BY <1>1, OnRecordNext, PTL DEF Spec

\* run_at never lies in the past, nor more than max_delay * (1 + jitter) ahead.
THEOREM DelayIsBounded == Spec => []WithinJitteredCap
  <1>1. OnRecord => WithinJitteredCap
    <2> SUFFICES ASSUME OnRecord, policy # None
                 PROVE  delay \in 0 .. policy.cap * (Scale + policy.jitter)
      BY DEF WithinJitteredCap
    <2>1. policy \in Policies
      BY DEF OnRecord
    <2>2. CASE delay = 0
      <3>1. policy.cap * (Scale + policy.jitter) \in Nat
        BY <2>1, PolicyColumns, PolicyAssumption, TimesType
      <3> QED BY <2>2, <3>1
    <2>3. CASE nominal = Nominal(policy, failed) /\ delay \in Jittered(policy, nominal)
      <3>1. nominal \in 0 .. policy.cap
        BY <2>1, <2>3, NominalType DEF OnRecord
      <3> QED BY <2>1, <2>3, <3>1, JitterBound
    <2> QED BY <2>2, <2>3 DEF OnRecord
  <1> QED BY <1>1, OnRecordAlways, PTL

\* What a failure finds, and leaves.
LEMMA Failure ==
    ASSUME OnRecord, Fail
    PROVE  /\ policy \in Policies
           /\ attempt \in 0 .. LastAttempt /\ failed \in 0 .. LastAttempt
           /\ nominal' = Nominal(policy, attempt) /\ nominal' \in 0 .. policy.cap
           /\ delay' \in Jittered(policy, nominal')
  BY NominalType DEF Fail, Compute, Applied, OnRecord

\* Jitter aside, a failure waits no shorter than the last one, whatever happens
\* to its queue's policy, unless the counter has been set back.
THEOREM DelaysGrow == Spec => BackoffNeverShrinks
  <1>1. ASSUME OnRecord, policy.jitter = 0, Fail, attempt >= failed
        PROVE  delay' >= delay
    <2>1. /\ policy \in Policies
          /\ attempt \in 0 .. LastAttempt /\ failed \in 0 .. LastAttempt
          /\ nominal' = Nominal(policy, attempt) /\ nominal' \in 0 .. policy.cap
          /\ delay' \in Jittered(policy, nominal')
      BY <1>1, Failure
    <2>2. Scale \in Nat /\ policy.cap \in Nat /\ nominal' \in Nat
      BY <2>1, PolicyColumns, PolicyAssumption
    <2>3. delay' = nominal' * Scale /\ delay' \in Nat
      BY <1>1, <2>1, <2>2, JitterBound, TimesType
    <2>4. CASE delay = 0
      BY <2>3, <2>4
    <2>5. CASE nominal = Nominal(policy, failed) /\ delay \in Jittered(policy, nominal)
      <3>1. nominal \in 0 .. policy.cap /\ nominal \in Nat
        BY <2>1, <2>2, <2>5, NominalType
      <3>2. delay = nominal * Scale
        BY <1>1, <2>1, <2>5, <3>1, JitterBound
      <3>3. nominal <= nominal'
        <4>1. failed <= attempt
          BY <1>1, <2>1, PolicyAssumption
        <4> QED BY <2>1, <2>5, <4>1, NominalGrows
      <3>4. nominal * Scale <= nominal' * Scale /\ nominal * Scale \in Nat
        BY <2>2, <3>1, <3>3, TimesMonotonic, TimesType
      <3> QED BY <2>3, <3>2, <3>4
    <2> QED BY <1>1, <2>4, <2>5 DEF OnRecord
  <1>2. OnRecord /\ [Next]_vars =>
          [policy # None /\ policy.jitter = 0 /\ Fail /\ attempt >= failed =>
             delay' >= delay]_vars
    BY <1>1
  <1> QED BY <1>2, OnRecordAlways, PTL DEF Spec, BackoffNeverShrinks

\* Exponential backoff starts at base_delay and multiplies by backoff_factor
\* until it reaches max_delay.
THEOREM DelaysAreGeometric == Spec => GeometricGrowth
  <1>1. ASSUME OnRecord, policy.strategy = "exponential", Fail
        PROVE  /\ attempt <= 1 => nominal' = AtMost(policy.base, policy.cap)
               /\ attempt > 1 /\ attempt = failed + 1 =>
                    nominal' = AtMost(nominal * policy.factor, policy.cap)
               /\ attempt > 1 /\ attempt = failed => nominal' = nominal
    <2>1. /\ policy \in Policies
          /\ attempt \in 0 .. LastAttempt /\ failed \in 0 .. LastAttempt
          /\ nominal' = AtMost(Raw(policy, AtLeast(attempt, 1)), policy.cap)
      BY <1>1, Failure DEF Nominal
    <2>2. failed = 0 \/ nominal = AtMost(Raw(policy, AtLeast(failed, 1)), policy.cap)
      BY <1>1 DEF OnRecord, Nominal
    <2>3. ASSUME attempt <= 1 PROVE nominal' = AtMost(policy.base, policy.cap)
      <3>1. AtLeast(attempt, 1) = 1
        BY <2>1, <2>3, PolicyAssumption DEF AtLeast
      <3> QED BY <1>1, <2>1, <3>1, RawExponential
    <2>4. ASSUME attempt > 1, attempt = failed + 1
          PROVE  nominal' = AtMost(nominal * policy.factor, policy.cap)
      <3>1. /\ failed \in 1 .. LastAttempt /\ failed \in 1 .. LastAttempt + 1 /\ failed # 0
            /\ AtLeast(failed, 1) = failed /\ AtLeast(attempt, 1) = failed + 1
        BY <2>1, <2>4, PolicyAssumption DEF AtLeast
      <3>2. nominal = AtMost(Raw(policy, failed), policy.cap)
        BY <2>2, <3>1
      <3>3. nominal' = AtMost(Raw(policy, failed) * policy.factor, policy.cap)
        BY <1>1, <2>1, <3>1, RawExponential
      <3>4. /\ Raw(policy, failed) \in Nat
            /\ policy.factor \in Nat \ {0} /\ policy.cap \in Nat
        BY <2>1, <3>1, RawType, PolicyColumns
      <3> QED BY <3>2, <3>3, <3>4, ClampTimes
    <2>5. ASSUME attempt > 1, attempt = failed PROVE nominal' = nominal
      BY <2>1, <2>2, <2>5, PolicyAssumption
    <2> QED BY <2>3, <2>4, <2>5
  <1>2. OnRecord /\ [Next]_vars =>
          [policy # None /\ policy.strategy = "exponential" /\ Fail =>
             /\ attempt <= 1 => nominal' = AtMost(policy.base, policy.cap)
             /\ attempt > 1 /\ attempt = failed + 1 =>
                  nominal' = AtMost(nominal * policy.factor, policy.cap)
             /\ attempt > 1 /\ attempt = failed => nominal' = nominal]_vars
    BY <1>1
  <1> QED BY <1>2, OnRecordAlways, PTL DEF Spec, GeometricGrowth
=============================================================================
