-------------------------- MODULE JobServiceProofs --------------------------
(* JobLifecycle in a timely system without operators: what becomes of a job *)
(* step by step, the exactness of its attempt counter and its dead letter,  *)
(* the bound on its attempts, and that the whole implements JobService.     *)
EXTENDS TimelyLifecycleProofs

----------------------------------------------------------------------------
(* The life of one job: its status and attempt counter in a step.           *)

Moves(j, s, t) ==
    /\ row[j].state = s /\ row'[j].state = t
    /\ row'[j].attempts = row[j].attempts

LifeStep(j) ==
    \/ row'[j].state = row[j].state /\ row'[j].attempts = row[j].attempts
    \/ Moves(j, "queued", "claimed")
    \/ Moves(j, "scheduled", "queued")
    \/ \E s \in ACTIVE_STATES : /\ Moves(j, s, "queued")
                                /\ \A d \in Deliveries : job[d] = j => phase[d] \notin InHand
    \/ \E d \in Deliveries : /\ job[d] = j /\ StartCommit(d)
                             /\ row[j].state = "claimed" /\ row'[j].state = "running"
                             /\ row'[j].attempts = row[j].attempts + 1
    \/ \E d \in Deliveries : job[d] = j /\ Complete(d) /\ Moves(j, "running", "completed")
    \/ \E d \in Deliveries : /\ job[d] = j /\ DeadLetter(d) /\ Moves(j, "running", "dead")
                             /\ row[j].attempts >= MaxAttempts
    \/ \E d \in Deliveries : /\ job[d] = j /\ ScheduleRetry(d) /\ Moves(j, "running", "scheduled")
                             /\ row[j].attempts < MaxAttempts

\* A row that keeps its status and attempts takes a step of its life.
LEMMA Idles ==
    ASSUME NEW j \in Jobs, row'[j] = row[j]
    PROVE  LifeStep(j)
  BY DEF LifeStep

\* No other step is possible, for any job.
LEMMA LifeSteps ==
    ASSUME Regime, TypeInv, Exclusive, [Next]_vars, NEW j \in Jobs
    PROVE  LifeStep(j)
  <1> USE DEF TypeInv, TypeOK, Plumbing
  <1>0. row[j] \in Rows /\ Sound(row[j])
    BY DEF Exclusive
  <1>1. ASSUME NEW w \in Workers, NEW k \in Jobs, Claim(w, k) PROVE LifeStep(j)
    <2>1. row' = [row EXCEPT ![k] = Claimed(@, w)] /\ row[k].state = "queued"
      BY <1>1 DEF Claim
    <2>2. CASE j = k
      <3>1. row'[j] = Claimed(row[j], w)
        BY <2>1, <2>2
      <3> QED BY <1>0, <2>1, <2>2, <3>1, RowOpLeases DEF LifeStep, Moves
    <2>3. CASE j # k
      BY <2>1, <2>3, Idles
    <2> QED BY <2>2, <2>3
  <1>2. ASSUME NEW w \in Workers, Heartbeat(w) PROVE LifeStep(j)
    <2>1. row'[j] = [row[j] EXCEPT !.lease = "live"] \/ row'[j] = row[j]
      BY <1>2 DEF Heartbeat
    <2> QED BY <1>0, <2>1 DEF LifeStep, Rows
  <1>3. ASSUME NEW d \in Deliveries,
               StartRead(d) \/ ResultRead(d) \/ ReadDependents(d) \/ Drop(d)
        PROVE  LifeStep(j)
    <2>1. UNCHANGED row
      BY <1>3 DEF StartRead, ResultRead, ReadDependents, Drop
    <2> QED BY <2>1, Idles
  <1>4. ASSUME NEW d \in Deliveries, StartCommit(d) PROVE LifeStep(j)
    <2>1. phase[d] = "starting"
      BY <1>4 DEF StartCommit
    <2>2. seen[d] = row[job[d]] /\ row[job[d]].state = "claimed"
      BY <2>1 DEF Exclusive, Working, InHand, InApi, Executing
    <2>3. /\ OthersKeep(job[d]) /\ row'[job[d]].state = "running"
          /\ row'[job[d]].attempts = row[job[d]].attempts + 1
      BY <1>4, <2>2, StartEffect
    <2>4. CASE j = job[d]
      BY <1>4, <2>2, <2>3, <2>4 DEF LifeStep
    <2>5. CASE j # job[d]
      BY <2>3, <2>5, Idles DEF OthersKeep
    <2> QED BY <2>4, <2>5
  <1>5. ASSUME NEW d \in Deliveries, Complete(d) PROVE LifeStep(j)
    <2>1. phase[d] = "releasing"
      BY <1>5 DEF Complete
    <2>2. /\ seen[d] = row[job[d]] /\ row[job[d]].state = "running"
          /\ row[job[d]].dep = None /\ kids[d] = {k \in Jobs : row[k].dep = job[d]}
      BY <2>1 DEF Exclusive, Working, InHand, InApi, Executing
    <2>3. /\ row'[job[d]].state = "completed" /\ row'[job[d]].attempts = row[job[d]].attempts
          /\ j # job[d] =>
               IF row[j].dep = job[d]
               THEN /\ row'[j].state = IF j \in ripe[d] THEN "queued" ELSE row[j].state
                    /\ row'[j].attempts = row[j].attempts
               ELSE row'[j] = row[j]
      BY <1>5, <2>2, CompleteEffect
    <2>4. CASE j = job[d]
      BY <1>5, <2>2, <2>3, <2>4 DEF LifeStep, Moves
    <2>5. CASE j # job[d] /\ row[j].dep = job[d]
      <3>1. row[j].state = "scheduled"
        BY <1>0, <2>1, <2>5, JobsFinite DEF Sound
      <3> QED BY <2>3, <2>5, <3>1 DEF LifeStep, Moves
    <2>6. CASE j # job[d] /\ row[j].dep # job[d]
      BY <2>3, <2>6, Idles
    <2> QED BY <2>4, <2>5, <2>6
  <1>6. ASSUME NEW d \in Deliveries, DeadLetter(d) \/ ScheduleRetry(d) PROVE LifeStep(j)
    <2>1. phase[d] = "failing"
      BY <1>6 DEF DeadLetter, ScheduleRetry
    <2>2. seen[d] = row[job[d]] /\ row[job[d]].state = "running"
      BY <2>1 DEF Exclusive, Working, InHand, InApi, Executing
    <2>3. /\ OthersKeep(job[d])
          /\ row'[job[d]].state = (IF Exhausted(d) THEN "dead" ELSE "scheduled")
          /\ row'[job[d]].attempts = row[job[d]].attempts
      BY <1>6, <2>2, FailEffect
    <2>4. CASE j = job[d]
      <3>1. Exhausted(d) <=> row[j].attempts >= MaxAttempts
        BY <2>2, <2>4 DEF Exhausted
      <3>2. row[j].attempts \in Nat
        BY <1>0 DEF Rows
      <3>3. CASE DeadLetter(d)
        <4>1. Exhausted(d)
          BY <3>3 DEF DeadLetter
        <4> QED BY <2>2, <2>3, <2>4, <3>1, <3>3, <4>1 DEF LifeStep, Moves
      <3>4. CASE ScheduleRetry(d)
        <4>1. ~Exhausted(d)
          BY <3>4 DEF ScheduleRetry
        <4>2. row[j].attempts < MaxAttempts
          BY <3>1, <3>2, <4>1, BoundsAssumption
        <4> QED BY <2>2, <2>3, <2>4, <3>4, <4>1, <4>2 DEF LifeStep, Moves
      <3> QED BY <1>6, <3>3, <3>4
    <2>5. CASE j # job[d]
      BY <2>3, <2>5, Idles DEF OthersKeep
    <2> QED BY <2>4, <2>5
  <1>7. CASE Promote
    <2>1. CASE j \in Promotable
      <3>1. row'[j] = [row[j] EXCEPT !.state = "queued"] /\ row[j].state = "scheduled"
        BY <1>7, <2>1 DEF Promote, Promotable
      <3> QED BY <1>0, <3>1 DEF LifeStep, Moves, Rows
    <2>2. CASE j \notin Promotable
      BY <1>7, <2>2, Idles DEF Promote
    <2> QED BY <2>1, <2>2
  <1>8. CASE Reap
    <2>1. CASE j \in Expired
      <3>1. /\ row'[j] = Requeued(row[j])
            /\ row[j].state \in ACTIVE_STATES /\ row[j].lease = "lapsed"
        BY <1>8, <2>1 DEF Reap, Expired
      <3>2. \A d \in Deliveries : job[d] = j => phase[d] \notin InHand
        BY <3>1 DEF Exclusive, Working
      <3>3. Moves(j, row[j].state, "queued")
        <4>1. Requeued(row[j]).state = "queued" /\ Requeued(row[j]).attempts = row[j].attempts
          BY <1>0 DEF Requeued, Rows
        <4> QED BY <3>1, <4>1 DEF Moves
      <3> QED BY <3>1, <3>2, <3>3 DEF LifeStep
    <2>2. CASE j \notin Expired
      BY <1>8, <2>2, Idles DEF Reap
    <2> QED BY <2>1, <2>2
  <1>9. ASSUME NEW k \in Jobs, Ripen(k) \/ Lapse(k) PROVE LifeStep(j)
    <2>1. CASE j # k
      <3>1. row'[j] = row[j]
        BY <1>9, <2>1 DEF Ripen, Lapse
      <3> QED BY <3>1, Idles
    <2>2. CASE j = k /\ Ripen(k)
      <3>1. row'[j] = [row[j] EXCEPT !.due = TRUE]
        BY <2>2 DEF Ripen
      <3> QED BY <1>0, <3>1 DEF LifeStep, Rows
    <2>3. CASE j = k /\ Lapse(k)
      <3>1. row'[j] = [row[j] EXCEPT !.lease = "lapsed"]
        BY <2>3 DEF Lapse
      <3> QED BY <1>0, <3>1 DEF LifeStep, Rows
    <2> QED BY <1>9, <2>1, <2>2, <2>3
  <1>10. ASSUME (\E w \in Mortal : Crash(w)) \/ UNCHANGED vars PROVE LifeStep(j)
    <2>1. UNCHANGED row
      BY <1>10 DEF Crash, vars
    <2> QED BY <2>1, Idles
  <1> QED BY <1>1, <1>2, <1>3, <1>4, <1>5, <1>6, <1>7, <1>8, <1>9, <1>10
          DEF Next, DeliveryStep, Regime

\* A step of d that takes it out of the running phases ends it or loses it.
LEMMA Leaving ==
    ASSUME TypeInv, [Next]_vars, NEW d \in Deliveries,
           phase[d] \in Executing, phase'[d] \notin Executing
    PROVE  phase'[d] = "lost" \/ Complete(d) \/ DeadLetter(d) \/ ScheduleRetry(d)
  <1> USE DEF TypeInv, TypeOK, Plumbing, Executing
  <1>1. ASSUME NEW w \in Workers, NEW k \in Jobs, Claim(w, k) PROVE phase'[d] = phase[d]
    <2>1. used + 1 \in Deliveries /\ phase[used + 1] = "unused"
      BY <1>1, BoundsAssumption DEF Claim, Deliveries
    <2> QED BY <1>1, <2>1 DEF Claim
  <1>2. ASSUME NEW e \in Deliveries, StartRead(e) \/ StartCommit(e)
        PROVE  phase'[d] = phase[d]
    BY <1>2 DEF StartRead, StartCommit
  <1>3. ASSUME NEW e \in Deliveries, ResultRead(e) \/ ReadDependents(e)
        PROVE  phase'[d] \in Executing
    BY <1>3 DEF ResultRead, ReadDependents
  <1>4. ASSUME NEW e \in Deliveries,
               Complete(e) \/ DeadLetter(e) \/ ScheduleRetry(e) \/ Drop(e)
        PROVE  d = e /\ (Drop(e) => phase'[d] = "lost")
    BY <1>4 DEF Complete, DeadLetter, ScheduleRetry, Drop
  <1>5. ASSUME NEW w \in Mortal, Crash(w) PROVE phase'[d] = "lost"
    BY <1>5 DEF Crash
  <1>6. ASSUME \/ \E w \in Workers : Heartbeat(w)
               \/ Promote \/ Reap
               \/ \E u \in Users : UserStep(u)
               \/ \E j \in Jobs : Ripen(j) \/ Lapse(j)
               \/ UNCHANGED vars
        PROVE  UNCHANGED phase
    BY <1>6 DEF Heartbeat, Promote, Reap, UserStep, CancelRead, CancelCommit,
                RetryRead, RetryCommit, Ripen, Lapse, vars
  <1> QED BY <1>1, <1>2, <1>3, <1>4, <1>5, <1>6 DEF Next, DeliveryStep

\* A lost delivery stays lost, and stays a delivery of its job.
LEMMA LostIsFinal ==
    ASSUME TypeInv, [Next]_vars, NEW d \in Deliveries, phase[d] = "lost"
    PROVE  phase'[d] = "lost" /\ job'[d] = job[d]
  <1> USE DEF TypeInv, TypeOK, Plumbing
  <1>1. ASSUME NEW w \in Workers, NEW k \in Jobs, Claim(w, k) PROVE phase'[d] = phase[d]
    <2>1. used + 1 \in Deliveries /\ phase[used + 1] = "unused"
      BY <1>1, BoundsAssumption DEF Claim, Deliveries
    <2> QED BY <1>1, <2>1 DEF Claim
  <1>2. ASSUME NEW e \in Deliveries, DeliveryStep(e) \/ Drop(e)
        PROVE  phase'[d] = phase[d]
    <2>1. CASE StartRead(e) \/ StartCommit(e) \/ ResultRead(e) \/ ReadDependents(e)
      BY <2>1 DEF StartRead, StartCommit, ResultRead, ReadDependents
    <2>2. CASE Complete(e) \/ DeadLetter(e) \/ ScheduleRetry(e) \/ Drop(e)
      BY <2>2 DEF Complete, DeadLetter, ScheduleRetry, Drop, InApi
    <2> QED BY <1>2, <2>1, <2>2 DEF DeliveryStep
  <1>3. ASSUME \/ \E w \in Mortal : Crash(w)
               \/ \E w \in Workers : Heartbeat(w)
               \/ Promote \/ Reap
               \/ \E u \in Users : UserStep(u)
               \/ \E j \in Jobs : Ripen(j) \/ Lapse(j)
               \/ UNCHANGED vars
        PROVE  phase'[d] = phase[d]
    BY <1>3 DEF Crash, Heartbeat, Promote, Reap, UserStep, CancelRead, CancelCommit,
                RetryRead, RetryCommit, Ripen, Lapse, vars
  <1>4. phase'[d] = phase[d]
    BY <1>1, <1>2, <1>3 DEF Next
  <1> QED BY <1>4, DeliveryStep_Keeps

----------------------------------------------------------------------------
(* Attempts.                                                                *)

\* Only a start opens an execution row.
LEMMA ExecsStep ==
    ASSUME TypeInv, [Next]_vars, NEW j \in Jobs,
           ~ \E d \in Deliveries : job[d] = j /\ StartCommit(d)
    PROVE  Execs(j)' = Execs(j)
  <1> USE DEF TypeInv, TypeOK, Plumbing
  <1>1. ASSUME NEW w \in Workers, NEW k \in Jobs, Claim(w, k) PROVE Execs(j)' = Execs(j)
    <2>1. used + 1 \in Deliveries /\ phase[used + 1] = "unused" /\ exec[used + 1] = "none"
      BY <1>1, BoundsAssumption DEF Claim, Deliveries
    <2>2. UNCHANGED exec /\ \A d \in Deliveries : d # used + 1 => job'[d] = job[d]
      BY <1>1, <2>1 DEF Claim
    <2> QED BY <2>1, <2>2 DEF Execs
  <1>2. ASSUME NEW d \in Deliveries, StartCommit(d) PROVE Execs(j)' = Execs(j)
    <2>1. /\ UNCHANGED job /\ job[d] # j
          /\ \A e \in Deliveries : e # d => exec'[e] = exec[e]
      BY <1>2 DEF StartCommit
    <2> QED BY <2>1 DEF Execs
  <1>3. ASSUME NEW d \in Deliveries, Complete(d) \/ DeadLetter(d) \/ ScheduleRetry(d)
        PROVE  Execs(j)' = Execs(j)
    <2>1. /\ UNCHANGED job /\ exec[d] # "none" /\ exec'[d] # "none"
          /\ \A e \in Deliveries : e # d => exec'[e] = exec[e]
      BY <1>3 DEF Complete, DeadLetter, ScheduleRetry
    <2> QED BY <2>1 DEF Execs
  <1>4. ASSUME \/ \E d \in Deliveries : \/ StartRead(d) \/ ResultRead(d)
                                        \/ ReadDependents(d) \/ Drop(d)
               \/ \E w \in Workers : Heartbeat(w)
               \/ Promote \/ Reap
               \/ \E u \in Users : UserStep(u)
               \/ \E k \in Jobs : Ripen(k) \/ Lapse(k)
               \/ \E w \in Mortal : Crash(w)
               \/ UNCHANGED vars
        PROVE  Execs(j)' = Execs(j)
    <2>1. UNCHANGED <<job, exec>>
      BY <1>4 DEF StartRead, ResultRead, ReadDependents, Drop, Heartbeat, Promote, Reap,
                  UserStep, CancelRead, CancelCommit, RetryRead, RetryCommit, Ripen,
                  Lapse, Crash, vars
    <2> QED BY <2>1 DEF Execs
  <1> QED BY <1>1, <1>2, <1>3, <1>4 DEF Next, DeliveryStep

\* Initially there are neither attempts nor executions.
LEMMA ExactInit == Init => AttemptsExact
  <1> SUFFICES ASSUME Init, NEW j \in Jobs PROVE row[j].attempts = Cardinality(Execs(j))
    BY DEF AttemptsExact
  <1>1. Execs(j) = {}
    BY DEF Init, Execs
  <1> QED BY <1>1, FS_EmptySet DEF Init, NewRow

\* Counter and executions grow together.
LEMMA ExactNext ==
    ASSUME Regime, TypeInv, Exclusive, AttemptsExact, [Next]_vars
    PROVE  AttemptsExact'
  <1> SUFFICES ASSUME NEW j \in Jobs PROVE row'[j].attempts = Cardinality(Execs(j)')
    BY DEF AttemptsExact, Execs
  <1>0. row[j].attempts = Cardinality(Execs(j)) /\ LifeStep(j)
    BY LifeSteps DEF AttemptsExact
  <1>1. CASE \E d \in Deliveries : job[d] = j /\ StartCommit(d)
    <2>1. PICK d \in Deliveries : job[d] = j /\ StartCommit(d)
      BY <1>1
    <2>2. phase[d] = "starting"
      BY <2>1 DEF StartCommit
    <2>3. seen[d] = row[j]
      BY <2>1, <2>2 DEF Exclusive, Working, InHand, InApi
    <2>4. row'[j].attempts = row[j].attempts + 1
      BY <2>1, <2>3, StartEffect
    <2>5. Cardinality(Execs(j)') = Cardinality(Execs(j)) + 1
      BY <2>1, StartAddsExec
    <2> QED BY <1>0, <2>4, <2>5
  <1>2. CASE ~ \E d \in Deliveries : job[d] = j /\ StartCommit(d)
    <2>1. Execs(j)' = Execs(j)
      BY <1>2, ExecsStep
    <2>2. row'[j].attempts = row[j].attempts
      BY <1>0, <1>2 DEF LifeStep, Moves
    <2> QED BY <1>0, <2>1, <2>2
  <1> QED BY <1>1, <1>2

\* The attempt counter is the number of executions: no increment is lost
\* between the read and the commit of start_execution.
THEOREM AttemptsAreExact == ASSUME Regime PROVE Spec => []AttemptsExact
  <1>1. TimelyInv /\ AttemptsExact /\ [Next]_vars => AttemptsExact'
    BY ExactNext DEF TimelyInv
  <1> QED BY <1>1, ExactInit, TimelyAlways, PTL DEF Spec

----------------------------------------------------------------------------
(* Dead letters.                                                            *)

OneLetter ==
    \A j \in Jobs : IF row[j].state = "dead" THEN \E d \in dlq : DeadLetters(j) = {d}
                                           ELSE DeadLetters(j) = {}

\* Only fail_job writes an entry, for the job it gives up.
LEMMA LettersStep ==
    ASSUME TypeInv, [Next]_vars, NEW j \in Jobs
    PROVE  \/ /\ DeadLetters(j)' = DeadLetters(j)
              /\ ~ \E d \in Deliveries : job[d] = j /\ DeadLetter(d)
           \/ \E d \in Deliveries : /\ job[d] = j /\ DeadLetter(d) /\ d \in dlq'
                                   /\ DeadLetters(j)' = DeadLetters(j) \cup {d}
  <1> USE DEF TypeInv, TypeOK, Plumbing
  <1>1. \A d \in dlq : job'[d] = job[d]
    BY DeliveryStep_Keeps
  <1>2. ASSUME UNCHANGED dlq PROVE DeadLetters(j)' = DeadLetters(j)
    BY <1>1, <1>2 DEF DeadLetters
  <1>3. ASSUME NEW d \in Deliveries, DeadLetter(d)
        PROVE  /\ job[d] = j => d \in dlq' /\ DeadLetters(j)' = DeadLetters(j) \cup {d}
               /\ job[d] # j => DeadLetters(j)' = DeadLetters(j)
    <2>1. dlq' = dlq \cup {d} /\ UNCHANGED job
      BY <1>3 DEF DeadLetter, Letters
    <2> QED BY <2>1 DEF DeadLetters
  <1>4. ASSUME ~ \E d \in Deliveries : DeadLetter(d) PROVE UNCHANGED dlq
    BY <1>4 DEF Next, vars, Claim, Heartbeat, DeliveryStep, StartRead, StartCommit, ResultRead,
           ReadDependents, Complete, ScheduleRetry, Drop, Promote, Reap, UserStep,
           CancelRead, CancelCommit, RetryRead, RetryCommit, Ripen, Lapse, Crash
  <1>5. CASE \E d \in Deliveries : job[d] = j /\ DeadLetter(d)
    BY <1>3, <1>5
  <1>6. CASE ~ \E d \in Deliveries : job[d] = j /\ DeadLetter(d)
    BY <1>2, <1>3, <1>4, <1>6
  <1> QED BY <1>5, <1>6

\* Initially no job is dead and no letter written.
LEMMA OneLetterInit == Init => OneLetter
  BY DEF Init, OneLetter, DeadLetters, NewRow

\* A job dies once, and writes its letter when it does.
LEMMA OneLetterNext ==
    ASSUME Regime, TypeInv, Exclusive, OneLetter, [Next]_vars
    PROVE  OneLetter'
  <1> SUFFICES ASSUME NEW j \in Jobs
               PROVE  IF row'[j].state = "dead" THEN \E d \in dlq' : DeadLetters(j)' = {d}
                                                ELSE DeadLetters(j)' = {}
    BY DEF OneLetter, DeadLetters
  <1>0. LifeStep(j)
    BY LifeSteps
  <1>1. ASSUME NEW d \in Deliveries, job[d] = j, DeadLetter(d)
        PROVE  row[j].state = "running" /\ row'[j].state = "dead"
    <2>1. phase[d] = "failing" /\ Exhausted(d)
      BY <1>1 DEF DeadLetter
    <2>2. seen[d] = row[job[d]] /\ row[j].state = "running"
      BY <1>1, <2>1 DEF Exclusive, Working, InHand, InApi, Executing
    <2> QED BY <1>1, <2>1, <2>2, FailEffect
  <1>2. CASE \E d \in Deliveries : /\ job[d] = j /\ DeadLetter(d) /\ d \in dlq'
                                   /\ DeadLetters(j)' = DeadLetters(j) \cup {d}
    <2>1. PICK d \in Deliveries : /\ job[d] = j /\ DeadLetter(d) /\ d \in dlq'
                                  /\ DeadLetters(j)' = DeadLetters(j) \cup {d}
      BY <1>2
    <2>2. DeadLetters(j) = {}
      BY <1>1, <2>1 DEF OneLetter
    <2>3. DeadLetters(j)' = {d} /\ d \in dlq' /\ row'[j].state = "dead"
      BY <1>1, <2>1, <2>2
    <2> QED BY <2>3
  <1>3. CASE ~ \E d \in Deliveries : job[d] = j /\ DeadLetter(d)
    <2>1. DeadLetters(j)' = DeadLetters(j)
      BY <1>3, LettersStep
    <2>2. row'[j].state = "dead" <=> row[j].state = "dead"
      BY <1>0, <1>3 DEF LifeStep, Moves, ACTIVE_STATES
    <2>3. dlq \subseteq dlq'
      BY DEF Next, vars, Claim, Heartbeat, DeliveryStep, StartRead, StartCommit, ResultRead,
             ReadDependents, Complete, DeadLetter, ScheduleRetry, Drop, Promote, Reap,
             UserStep, CancelRead, CancelCommit, RetryRead, RetryCommit, Ripen, Lapse, Crash
    <2> QED BY <2>1, <2>2, <2>3 DEF OneLetter
  <1> QED BY <1>2, <1>3, LettersStep

\* In every reachable state of the regime.
LEMMA OneLetterAlways == ASSUME Regime PROVE Spec => []OneLetter
  <1>1. TimelyInv /\ OneLetter /\ [Next]_vars => OneLetter'
    BY OneLetterNext DEF TimelyInv
  <1> QED BY <1>1, OneLetterInit, TimelyAlways, PTL DEF Spec

\* A job is dead-lettered at most once, and exactly when it is DEAD.
THEOREM DeadLettersAreOne == ASSUME Regime PROVE Spec => []OneDeadLetter
  <1>1. OneLetter => OneDeadLetter
    <2> SUFFICES ASSUME OneLetter, NEW j \in Jobs
                 PROVE  Cardinality(DeadLetters(j)) = (IF row[j].state = "dead" THEN 1 ELSE 0)
      BY DEF OneDeadLetter
    <2>1. CASE row[j].state = "dead"
      <3>1. PICK d \in dlq : DeadLetters(j) = {d}
        BY <2>1 DEF OneLetter
      <3> QED BY <2>1, <3>1, FS_Singleton
    <2>2. CASE row[j].state # "dead"
      BY <2>2, FS_EmptySet DEF OneLetter
    <2> QED BY <2>1, <2>2
  <1> QED BY <1>1, OneLetterAlways, PTL

----------------------------------------------------------------------------
(* The bound on attempts.  A job that is waiting, claimed, or left behind   *)
(* by the delivery that ran it has an attempt to spare, or one that was     *)
(* never reported; only a job being executed may have used its last.        *)

BeingExecuted(j) == \E d \in Deliveries : job[d] = j /\ phase[d] \in Executing

ToBeExecuted(j) ==
    \/ row[j].state \in {"queued", "scheduled", "claimed"}
    \/ row[j].state = "running" /\ ~BeingExecuted(j)

Budget ==
    \A j \in Jobs :
       /\ row[j].attempts <= MaxAttempts + Cardinality(Unreported(j))
       /\ ToBeExecuted(j) => row[j].attempts < MaxAttempts + Cardinality(Unreported(j))

\* The attempts whose result got lost only become more; one more when a
\* delivery of the job is lost.
LEMMA UnreportedGrows ==
    ASSUME TypeInv, [Next]_vars, NEW j \in Jobs
    PROVE  /\ Cardinality(Unreported(j)) \in Nat /\ Cardinality(Unreported(j)') \in Nat
           /\ Cardinality(Unreported(j)) <= Cardinality(Unreported(j)')
           /\ \A d \in Deliveries :
                 job[d] = j /\ phase[d] \notin {"unused", "lost"} /\ phase'[d] = "lost" =>
                   Cardinality(Unreported(j)) + 1 <= Cardinality(Unreported(j)')
  <1>1. IsFiniteSet(Deliveries)
    BY FS_Interval, BoundsAssumption DEF Deliveries
  <1>2. Unreported(j) \subseteq Deliveries /\ Unreported(j)' \subseteq Deliveries
    BY DEF Unreported
  <1>3. Unreported(j) \subseteq Unreported(j)'
    BY LostIsFinal DEF Unreported
  <1>4. IsFiniteSet(Unreported(j)) /\ IsFiniteSet(Unreported(j)')
    BY <1>1, <1>2, FS_Subset
  <1>5. Cardinality(Unreported(j)) <= Cardinality(Unreported(j)')
    BY <1>3, <1>4, FS_Subset
  <1>6. ASSUME NEW d \in Deliveries, job[d] = j, phase[d] \notin {"unused", "lost"},
               phase'[d] = "lost"
        PROVE  Cardinality(Unreported(j)) + 1 <= Cardinality(Unreported(j)')
    <2>1. d \notin Unreported(j)
      BY <1>6 DEF Unreported
    <2>2. d \in Unreported(j)'
      BY <1>6, DeliveryStep_Keeps DEF Unreported
    <2>3. Unreported(j) \cup {d} \subseteq Unreported(j)' /\ IsFiniteSet(Unreported(j) \cup {d})
      BY <1>3, <1>4, <2>2, FS_AddElement
    <2>4. Cardinality(Unreported(j) \cup {d}) = Cardinality(Unreported(j)) + 1
      BY <1>4, <2>1, FS_AddElement
    <2>5. Cardinality(Unreported(j) \cup {d}) <= Cardinality(Unreported(j)')
      BY <1>4, <2>3, FS_Subset
    <2> QED BY <2>4, <2>5
  <1> QED BY <1>4, <1>5, <1>6, FS_CardinalityType

\* Initially no attempt has been made, and at least one may be.
LEMMA BudgetInit == Init => Budget
  <1> SUFFICES ASSUME Init, NEW j \in Jobs
               PROVE  /\ row[j].attempts <= MaxAttempts + Cardinality(Unreported(j))
                      /\ row[j].attempts < MaxAttempts + Cardinality(Unreported(j))
    BY DEF Budget
  <1>1. Unreported(j) = {}
    BY DEF Init, Unreported
  <1> QED BY <1>1, FS_EmptySet, BoundsAssumption DEF Init, NewRow

\* Every step leaves a job that is to be executed an attempt.
LEMMA BudgetNext ==
    ASSUME Regime, TypeInv, Exclusive, Budget, [Next]_vars
    PROVE  Budget'
  <1> SUFFICES ASSUME NEW j \in Jobs
               PROVE  /\ row'[j].attempts <= MaxAttempts + Cardinality(Unreported(j)')
                      /\ ToBeExecuted(j)' =>
                           row'[j].attempts < MaxAttempts + Cardinality(Unreported(j)')
    BY DEF Budget, Unreported, ToBeExecuted, BeingExecuted
  <1> DEFINE U == Cardinality(Unreported(j))
             V == Cardinality(Unreported(j)')
  <1>0. /\ U \in Nat /\ V \in Nat /\ U <= V /\ MaxAttempts \in Nat
        /\ row[j].attempts \in Nat /\ row[j].attempts <= MaxAttempts + U
        /\ ToBeExecuted(j) => row[j].attempts < MaxAttempts + U
    BY UnreportedGrows, BoundsAssumption DEF Budget, TypeInv, TypeOK, Rows
  <1>1. ASSUME NEW d \in Deliveries, job[d] = j, phase[d] \notin {"unused", "lost"},
               phase'[d] = "lost"
        PROVE  U + 1 <= V
    BY <1>1, UnreportedGrows
  <1> HIDE DEF U, V
  <1>2. ASSUME row'[j].attempts = row[j].attempts, ToBeExecuted(j) PROVE
               /\ row'[j].attempts <= MaxAttempts + V
               /\ row'[j].attempts < MaxAttempts + V
    BY <1>0, <1>2
  <1>3. ASSUME row'[j].attempts = row[j].attempts, ~ToBeExecuted(j)'
        PROVE  row'[j].attempts <= MaxAttempts + V
    BY <1>0, <1>3
  <1>4. CASE row'[j].state = row[j].state /\ row'[j].attempts = row[j].attempts
    <2>1. CASE ToBeExecuted(j) \/ ~ToBeExecuted(j)'
      BY <1>2, <1>3, <1>4, <2>1 DEF U, V
    <2>2. CASE ~ToBeExecuted(j) /\ ToBeExecuted(j)'
      <3>1. PICK d \in Deliveries : job[d] = j /\ phase[d] \in Executing
        BY <1>4, <2>2 DEF ToBeExecuted, BeingExecuted
      <3>2. row[j].state = "running" /\ phase'[d] \notin Executing
        <4>1. job'[d] = job[d]
          BY <3>1, DeliveryStep_Keeps DEF Executing
        <4> QED BY <1>4, <2>2, <3>1, <4>1 DEF ToBeExecuted, BeingExecuted
      <3>3. seen[d] = row[job[d]] \/ phase[d] = "running"
        BY <3>1 DEF Exclusive, Working, InHand, Executing, InApi
      <3>4. ~Complete(d) /\ ~DeadLetter(d) /\ ~ScheduleRetry(d)
        <4>1. ASSUME Complete(d) PROVE FALSE
          <5>1. phase[d] = "releasing"
            BY <4>1 DEF Complete
          <5>2. /\ seen[d] = row[job[d]] /\ row[job[d]].dep = None
                /\ kids[d] = {k \in Jobs : row[k].dep = job[d]}
            BY <5>1 DEF Exclusive, Working, InHand, Executing, InApi
          <5> QED BY <1>4, <3>1, <3>2, <4>1, <5>2, CompleteEffect
        <4>2. ASSUME DeadLetter(d) \/ ScheduleRetry(d) PROVE FALSE
          <5>1. phase[d] = "failing"
            BY <4>2 DEF DeadLetter, ScheduleRetry
          <5> QED BY <1>4, <3>1, <3>2, <3>3, <4>2, <5>1, FailEffect
        <4> QED BY <4>1, <4>2
      <3>5. phase'[d] = "lost" /\ phase[d] \notin {"unused", "lost"}
        BY <3>1, <3>2, <3>4, Leaving DEF Executing
      <3>6. U + 1 <= V
        BY <1>1, <3>1, <3>5
      <3>7. row'[j].attempts < MaxAttempts + V
        BY <1>0, <1>4, <3>6
      <3> QED BY <1>0, <1>4, <3>7 DEF U, V
    <2> QED BY <2>1, <2>2
  <1>5. CASE Moves(j, "queued", "claimed") \/ Moves(j, "scheduled", "queued")
    <2>1. ToBeExecuted(j) /\ row'[j].attempts = row[j].attempts
      BY <1>5 DEF Moves, ToBeExecuted
    <2> QED BY <1>2, <2>1 DEF U, V
  <1>6. CASE \E s \in ACTIVE_STATES : /\ Moves(j, s, "queued")
                                      /\ \A d \in Deliveries : job[d] = j => phase[d] \notin InHand
    <2>1. ToBeExecuted(j) /\ row'[j].attempts = row[j].attempts
      BY <1>6 DEF Moves, ToBeExecuted, BeingExecuted, InHand, ACTIVE_STATES
    <2> QED BY <1>2, <2>1 DEF U, V
  <1>7. ASSUME NEW d \in Deliveries, job[d] = j, StartCommit(d), row[j].state = "claimed",
               row'[j].state = "running", row'[j].attempts = row[j].attempts + 1
        PROVE  /\ row'[j].attempts <= MaxAttempts + V
               /\ ToBeExecuted(j)' => row'[j].attempts < MaxAttempts + V
    <2>1. row[j].attempts < MaxAttempts + U
      BY <1>0, <1>7 DEF ToBeExecuted
    <2>2. row'[j].attempts <= MaxAttempts + V
      BY <1>0, <1>7, <2>1
    <2>3. phase[d] = "starting" /\ job'[d] = j /\ phase'[d] \in {"running", "lost"}
      BY <1>7 DEF StartCommit, TypeInv, TypeOK
    <2>4. CASE phase'[d] = "running"
      <3>1. ~ToBeExecuted(j)'
        BY <1>7, <2>3, <2>4 DEF ToBeExecuted, BeingExecuted, Executing
      <3> QED BY <2>2, <3>1
    <2>5. CASE phase'[d] = "lost"
      <3>1. U + 1 <= V
        BY <1>1, <1>7, <2>3, <2>5
      <3>2. row'[j].attempts < MaxAttempts + V
        BY <1>0, <1>7, <2>1, <3>1
      <3> QED BY <2>2, <3>2
    <2> QED BY <2>3, <2>4, <2>5
  <1>8. CASE Moves(j, "running", "completed") \/ Moves(j, "running", "dead")
    <2>1. row'[j].attempts = row[j].attempts /\ ~ToBeExecuted(j)'
      BY <1>8 DEF Moves, ToBeExecuted
    <2> QED BY <1>3, <2>1 DEF U, V
  <1>9. CASE Moves(j, "running", "scheduled") /\ row[j].attempts < MaxAttempts
    <2>1. row'[j].attempts = row[j].attempts
      BY <1>9 DEF Moves
    <2>2. row'[j].attempts < MaxAttempts + V /\ row'[j].attempts <= MaxAttempts + V
      BY <1>0, <1>9, <2>1
    <2> QED BY <2>2 DEF U, V
  <1>10. LifeStep(j)
    BY LifeSteps
  <1> QED BY <1>4, <1>5, <1>6, <1>7, <1>8, <1>9, <1>10 DEF LifeStep, U, V

\* A job is executed more often than max_attempts only for attempts whose
\* result never arrived.
THEOREM AttemptsAreBounded == ASSUME Regime PROVE Spec => []AttemptsWithinMax
  <1>1. TimelyInv /\ Budget /\ [Next]_vars => Budget'
    BY BudgetNext DEF TimelyInv
  <1>2. Budget => AttemptsWithinMax
    BY DEF Budget, AttemptsWithinMax
  <1> QED BY <1>1, <1>2, BudgetInit, TimelyAlways, PTL DEF Spec

----------------------------------------------------------------------------
(* Consequences.                                                            *)

\* A job that has completed or died stays so, and is not executed again.
FinishedForGood ==
    [][\A j \in Jobs : row[j].state \in {"completed", "dead"} =>
          row'[j].state = row[j].state /\ Execs(j)' = Execs(j)]_vars

\* What is finished is never executed again, although the reaper, the scheduler
\* and late handlers go on writing rows: no handler is left that could.
THEOREM FinishedStaysFinished == ASSUME Regime PROVE Spec => FinishedForGood
  <1>1. ASSUME Regime, TimelyInv, [Next]_vars, NEW j \in Jobs,
               row[j].state \in {"completed", "dead"}
        PROVE  row'[j].state = row[j].state /\ Execs(j)' = Execs(j)
    <2>1. ASSUME NEW d \in Deliveries, job[d] = j, StartCommit(d) PROVE FALSE
      <3>1. phase[d] = "starting"
        BY <2>1 DEF StartCommit
      <3>2. row[j].state = "claimed"
        BY <2>1, <3>1, <1>1 DEF TimelyInv, Exclusive, Working, InHand, Executing
      <3> QED BY <1>1, <3>2
    <2>2. Execs(j)' = Execs(j)
      BY <1>1, <2>1, ExecsStep DEF TimelyInv
    <2>3. LifeStep(j)
      BY <1>1, LifeSteps DEF TimelyInv
    <2>4. row'[j].state = row[j].state
      BY <1>1, <2>1, <2>3 DEF LifeStep, Moves, ACTIVE_STATES
    <2> QED BY <2>2, <2>4
  <1>2. ASSUME Regime
        PROVE  TimelyInv /\ [Next]_vars =>
                 [\A j \in Jobs : row[j].state \in {"completed", "dead"} =>
                     row'[j].state = row[j].state /\ Execs(j)' = Execs(j)]_vars
    BY <1>1, <1>2
  <1> QED BY <1>2, TimelyAlways, PTL DEF Spec, FinishedForGood

\* A job has at most max_attempts executions.
ExecutionsWithinMax == \A j \in Jobs : Cardinality(Execs(j)) <= MaxAttempts

\* Where no request is lost and no worker dies, no delivery is lost.
Reported == /\ \A d \in Deliveries : phase[d] # "lost"
            /\ \A w \in Workers : alive[w]

\* Only crashes and losses lose a delivery.
LEMMA ReportedNext ==
    ASSUME ~Lossy, Mortal = {}, TypeInv, Reported, [Next]_vars
    PROVE  Reported'
  <1> USE DEF TypeInv, TypeOK, Plumbing, Reported
  <1>1. ASSUME NEW w \in Workers, NEW k \in Jobs, Claim(w, k) PROVE Reported'
    <2>1. used + 1 \in Deliveries
      BY <1>1, BoundsAssumption DEF Claim, Deliveries
    <2>2. phase' = [phase EXCEPT ![used + 1] = "held"] /\ UNCHANGED alive
      BY <1>1 DEF Claim
    <2> QED BY <2>1, <2>2
  <1>2. ASSUME NEW d \in Deliveries, StartCommit(d) PROVE Reported'
    <2>1. by[d] \in Workers
      BY <1>2 DEF StartCommit
    <2>2. phase' = [phase EXCEPT ![d] = "running"] /\ UNCHANGED alive
      BY <1>2, <2>1 DEF StartCommit
    <2> QED BY <2>2
  <1>3. ASSUME NEW d \in Deliveries,
               \/ StartRead(d) \/ ResultRead(d) \/ ReadDependents(d)
               \/ Complete(d) \/ DeadLetter(d) \/ ScheduleRetry(d)
        PROVE  Reported'
    <2>1. /\ UNCHANGED alive
          /\ \E p \in Phases \ {"lost"} : phase' = [phase EXCEPT ![d] = p]
      BY <1>3 DEF StartRead, ResultRead, ReadDependents, Complete, DeadLetter,
                  ScheduleRetry, Phases
    <2> QED BY <2>1
  <1>4. ASSUME \/ \E w \in Workers : Heartbeat(w)
               \/ Promote \/ Reap
               \/ \E u \in Users : UserStep(u)
               \/ \E j \in Jobs : Ripen(j) \/ Lapse(j)
               \/ UNCHANGED vars
        PROVE  Reported'
    <2>1. UNCHANGED <<phase, alive>>
      BY <1>4 DEF Heartbeat, Promote, Reap, UserStep, CancelRead, CancelCommit,
                  RetryRead, RetryCommit, Ripen, Lapse, vars
    <2> QED BY <2>1
  <1>5. \A d \in Deliveries : ~Drop(d)
    BY DEF Drop
  <1> QED BY <1>1, <1>2, <1>3, <1>4, <1>5 DEF Next, DeliveryStep

\* max_attempts is exact where nothing fails but handlers: no job is executed
\* more often, however reads, commits, passes and retries interleave.
THEOREM ExecutionsAreBounded ==
    ASSUME Regime, ~Lossy, Mortal = {}
    PROVE  Spec => []ExecutionsWithinMax
  <1>1. TypeInv /\ Reported /\ [Next]_vars => Reported'
    BY ReportedNext
  <1>2. Init => Reported
    BY DEF Init, Reported
  <1>3. Reported /\ AttemptsExact /\ AttemptsWithinMax => ExecutionsWithinMax
    <2> SUFFICES ASSUME Reported, AttemptsExact, AttemptsWithinMax, NEW j \in Jobs
                 PROVE  Cardinality(Execs(j)) <= MaxAttempts
      BY DEF ExecutionsWithinMax
    <2>1. Unreported(j) = {}
      BY DEF Unreported, Reported
    <2>2. row[j].attempts <= MaxAttempts + 0
      BY <2>1, FS_EmptySet DEF AttemptsWithinMax
    <2> QED BY <2>2, BoundsAssumption DEF AttemptsExact
  <1>4. TimelyInv => TypeInv
    BY DEF TimelyInv
  <1> QED BY <1>1, <1>2, <1>3, <1>4, TimelyAlways, AttemptsAreExact, AttemptsAreBounded, PTL
          DEF Spec

----------------------------------------------------------------------------
(* Refinement.  The columns a client sees, and the steps that change them:  *)
(* a claim, the commits of the handlers, the scheduler's passes.            *)

States  == [j \in Jobs |-> row[j].state]
Begun   == [j \in Jobs |-> row[j].attempts]
Holders == [j \in Jobs |-> IF row[j].state \in ACTIVE_STATES THEN row[j].owner ELSE None]
Waits   == [j \in Jobs |-> row[j].dep]
DeadJobs   == {job[d] : d \in dlq}

\* A row that differs in no column the client sees.
Alike(k) ==
    /\ row'[k].state = row[k].state /\ row'[k].attempts = row[k].attempts
    /\ row'[k].owner = row[k].owner /\ row'[k].dep = row[k].dep

\* The dead jobs, in a step.
LEMMA DeadStep ==
    ASSUME TypeInv, [Next]_vars
    PROVE  /\ (~ \E d \in Deliveries : DeadLetter(d)) => DeadJobs' = DeadJobs
           /\ \A d \in Deliveries : DeadLetter(d) => DeadJobs' = DeadJobs \cup {job[d]}
  <1> USE DEF TypeInv, TypeOK, Plumbing
  <1>1. \A d \in dlq : job'[d] = job[d]
    BY DeliveryStep_Keeps
  <1>2. ASSUME UNCHANGED dlq PROVE DeadJobs' = DeadJobs
    BY <1>1, <1>2 DEF DeadJobs
  <1>3. ASSUME ~ \E d \in Deliveries : DeadLetter(d) PROVE UNCHANGED dlq
    BY <1>3 DEF Next, vars, Claim, Heartbeat, DeliveryStep, StartRead, StartCommit, ResultRead,
           ReadDependents, Complete, ScheduleRetry, Drop, Promote, Reap, UserStep,
           CancelRead, CancelCommit, RetryRead, RetryCommit, Ripen, Lapse, Crash
  <1>4. ASSUME NEW d \in Deliveries, DeadLetter(d) PROVE DeadJobs' = DeadJobs \cup {job[d]}
    <2>1. dlq' = dlq \cup {d} /\ UNCHANGED job
      BY <1>4 DEF DeadLetter, Letters
    <2> QED BY <2>1 DEF DeadJobs
  <1> QED BY <1>2, <1>4, <1>3

\* A step after which all rows are alike, and the same jobs dead.
LEMMA Stutter ==
    ASSUME \A k \in Jobs : Alike(k), DeadJobs' = DeadJobs
    PROVE  UNCHANGED Service!vars
  BY DEF Alike, Service!vars, DeadJobs

\* A step that changes neither rows nor dead letters.
LEMMA RowsStutter ==
    ASSUME UNCHANGED row, DeadJobs' = DeadJobs
    PROVE  UNCHANGED Service!vars
  BY Stutter DEF Alike

\* Initially.
LEMMA ServiceInit == Init => Service!Init
  <1> SUFFICES ASSUME Init PROVE Service!Init
    OBVIOUS
  <1>1. PICK due \in [Jobs -> BOOLEAN] : row = [j \in Jobs |-> NewRow(j, due[j])]
    BY DEF Init
  <1>2. \A j \in Jobs : /\ row[j].state \in {"queued", "scheduled"}
                        /\ row[j].attempts = 0 /\ row[j].dep = Parent[j]
                        /\ row[j].dep # None => row[j].state = "scheduled"
    BY <1>1 DEF NewRow
  <1>3. Waits = Parent
    BY <1>2, ParentAssumption DEF Waits
  <1>4. Holders = [j \in Jobs |-> None]
    BY <1>2 DEF Holders, ACTIVE_STATES
  <1>5. DeadJobs = {}
    BY DEF Init, DeadJobs
  <1> QED BY <1>2, <1>3, <1>4, <1>5 DEF Service!Init, Waits, Holders, DeadJobs

\* A claim is a hand-out.
LEMMA ClaimHands ==
    ASSUME TypeInv, Exclusive, NEW w \in Workers, NEW j \in Jobs, Claim(w, j), DeadJobs' = DeadJobs
    PROVE  Service!Hand(j, w)
  <1>1. /\ row \in [Jobs -> Rows] /\ row[j].state = "queued"
        /\ row' = [row EXCEPT ![j] = Claimed(@, w)]
    BY DEF Claim, TypeInv, TypeOK
  <1>2. row'[j] = Claimed(row[j], w) /\ \A k \in Jobs : k # j => row'[k] = row[k]
    BY <1>1
  <1>3. /\ row'[j].state = "claimed" /\ row'[j].owner = w
        /\ row'[j].attempts = row[j].attempts /\ row'[j].dep = row[j].dep
    <2>1. row[j] \in Rows
      BY <1>1
    <2>2. /\ Claimed(row[j], w).state = "claimed" /\ Claimed(row[j], w).owner = w
          /\ Claimed(row[j], w).attempts = row[j].attempts
          /\ Claimed(row[j], w).dep = row[j].dep
      BY <2>1 DEF Claimed, Rows
    <2> QED BY <1>2, <2>2
  <1>4. row[j].dep = None
    BY <1>1 DEF Exclusive, Sound
  <1>5. States' = [States EXCEPT ![j] = "claimed"]
    BY <1>2, <1>3 DEF States
  <1>6. Holders' = [Holders EXCEPT ![j] = w]
    BY <1>2, <1>3 DEF Holders, ACTIVE_STATES
  <1>7. UNCHANGED <<Begun, Waits, DeadJobs>>
    BY <1>2, <1>3 DEF Begun, Waits
  <1> QED BY <1>1, <1>4, <1>5, <1>6, <1>7 DEF Service!Hand, States, Begun, Holders, Waits, DeadJobs

\* The start's commit begins an attempt.
LEMMA StartBegins ==
    ASSUME TypeInv, Exclusive, NEW d \in Deliveries, StartCommit(d), DeadJobs' = DeadJobs
    PROVE  \E j \in Jobs : Service!Begin(j)
  <1>1. phase[d] = "starting"
    BY DEF StartCommit
  <1>2. seen[d] = row[job[d]] /\ row[job[d]].state = "claimed"
    BY <1>1 DEF Exclusive, Working, InHand, InApi, Executing
  <1>3. PICK j \in Jobs : j = job[d]
    BY <1>2, StartEffect
  <1>4. /\ OthersKeep(j) /\ row'[j].state = "running"
        /\ row'[j].attempts = row[j].attempts + 1 /\ row'[j].owner = row[j].owner
        /\ row'[j].dep = row[j].dep
    BY <1>2, <1>3, StartEffect
  <1>5. States' = [States EXCEPT ![j] = "running"]
    BY <1>4 DEF States, OthersKeep
  <1>6. Begun' = [Begun EXCEPT ![j] = @ + 1]
    BY <1>4 DEF Begun, OthersKeep
  <1>7. UNCHANGED <<Holders, Waits, DeadJobs>>
    BY <1>2, <1>3, <1>4 DEF Holders, Waits, OthersKeep, ACTIVE_STATES
  <1>8. Service!Begin(j)
    BY <1>2, <1>3, <1>5, <1>6, <1>7
       DEF Service!Begin, States, Begun, Holders, Waits, DeadJobs
  <1> QED BY <1>8

\* The commit of a success frees the dependents with it.
LEMMA CompleteSucceedsAll ==
    ASSUME TypeInv, Exclusive, NEW d \in Deliveries, Complete(d), DeadJobs' = DeadJobs
    PROVE  \E j \in Jobs, S \in SUBSET Jobs : Service!Succeed(j, S)
  <1>1. phase[d] = "releasing"
    BY DEF Complete
  <1>2. /\ seen[d] = row[job[d]] /\ row[job[d]].state = "running" /\ row[job[d]].dep = None
        /\ kids[d] = {k \in Jobs : row[k].dep = job[d]} /\ ripe[d] \subseteq kids[d]
    BY <1>1 DEF Exclusive, Working, InHand, InApi, Executing
  <1>3. PICK j \in Jobs : j = job[d]
    BY <1>2, CompleteEffect
  <1>4. /\ row'[j].state = "completed" /\ row'[j].dep = None
        /\ row'[j].attempts = row[j].attempts
        /\ \A k \in Jobs : k # j =>
             IF row[k].dep = j
             THEN /\ row'[k].state = IF k \in ripe[d] THEN "queued" ELSE row[k].state
                  /\ row'[k].attempts = row[k].attempts /\ row'[k].dep = None
             ELSE row'[k] = row[k]
    BY <1>2, <1>3, CompleteEffect
  <1>5. j # None /\ \A k \in ripe[d] : k \in Jobs /\ row[k].dep = j /\ k # j
    BY <1>2, <1>3, JobsFinite
  <1>6. PICK S \in SUBSET Jobs : S = ripe[d]
    BY <1>5
  <1>7. \A k \in Jobs : row[k].dep = j => row[k].state = "scheduled"
    BY <1>5 DEF Exclusive, Sound
  <1>8. States' = [k \in Jobs |-> IF k = j THEN "completed"
                                  ELSE IF k \in S THEN "queued" ELSE States[k]]
    BY <1>4, <1>5, <1>6 DEF States
  <1>9. Waits' = [k \in Jobs |-> IF Waits[k] = j THEN None ELSE Waits[k]]
    <2>1. row[j].dep # j
      BY <1>2, <1>3, <1>5
    <2> QED BY <1>2, <1>3, <1>4, <2>1 DEF Waits
  <1>10. Holders' = [Holders EXCEPT ![j] = None]
    <2>1. \A k \in Jobs : k # j => Holders'[k] = Holders[k]
      BY <1>4, <1>7 DEF Holders, ACTIVE_STATES
    <2>2. Holders'[j] = None
      BY <1>4 DEF Holders, ACTIVE_STATES
    <2> QED BY <2>1, <2>2 DEF Holders
  <1>11. UNCHANGED <<Begun, DeadJobs>>
    BY <1>4 DEF Begun
  <1>12. Service!Succeed(j, S)
    BY <1>2, <1>3, <1>5, <1>8, <1>9, <1>10, <1>11, <1>6
       DEF Service!Succeed, States, Begun, Holders, Waits, DeadJobs
  <1> QED BY <1>12

\* The commit of a failure is a retry, or the end.
LEMMA FailFails ==
    ASSUME TypeInv, Exclusive, [Next]_vars, NEW d \in Deliveries, DeadLetter(d) \/ ScheduleRetry(d)
    PROVE  \E j \in Jobs : Service!FailAgain(j) \/ Service!GiveUp(j)
  <1>1. phase[d] = "failing"
    BY DEF DeadLetter, ScheduleRetry
  <1>2. seen[d] = row[job[d]] /\ row[job[d]].state = "running"
    BY <1>1 DEF Exclusive, Working, InHand, InApi, Executing
  <1>3. PICK j \in Jobs : j = job[d]
    BY <1>2, FailEffect
  <1>4. /\ OthersKeep(j)
        /\ row'[j].state = (IF Exhausted(d) THEN "dead" ELSE "scheduled")
        /\ row'[j].attempts = row[j].attempts /\ row'[j].dep = row[j].dep
    BY <1>2, <1>3, FailEffect
  <1>5. Exhausted(d) <=> row[j].attempts >= MaxAttempts
    BY <1>2, <1>3 DEF Exhausted
  <1>6. Holders' = [Holders EXCEPT ![j] = None]
    BY <1>4 DEF Holders, OthersKeep, ACTIVE_STATES
  <1>7. UNCHANGED <<Begun, Waits>>
    BY <1>4 DEF Begun, Waits, OthersKeep
  <1>8. States' = [States EXCEPT ![j] = IF Exhausted(d) THEN "dead" ELSE "scheduled"]
    BY <1>4 DEF States, OthersKeep
  <1>9. CASE DeadLetter(d)
    <2>1. Exhausted(d) /\ DeadJobs' = DeadJobs \cup {j}
      BY <1>3, <1>9, DeadStep DEF DeadLetter
    <2>2. Service!GiveUp(j)
      BY <1>2, <1>3, <1>5, <1>6, <1>7, <1>8, <2>1
         DEF Service!GiveUp, States, Begun, Holders, Waits, DeadJobs
    <2> QED BY <2>2
  <1>10. CASE ScheduleRetry(d)
    <2>1. ~Exhausted(d) /\ \A e \in Deliveries : ~DeadLetter(e)
      <3>1. ~Exhausted(d) /\ UNCHANGED dlq /\ phase'[d] = "done"
        BY <1>10 DEF ScheduleRetry, TypeInv, TypeOK
      <3>2. ASSUME NEW e \in Deliveries, DeadLetter(e) PROVE e = d
        BY <1>1, <3>1, <3>2 DEF DeadLetter, TypeInv, TypeOK
      <3> QED BY <3>1, <3>2 DEF DeadLetter
    <2>2. DeadJobs' = DeadJobs /\ row[j].attempts < MaxAttempts
      <3>1. row[j].attempts \in Nat
        BY DEF TypeInv, TypeOK, Rows
      <3> QED BY <1>5, <2>1, <3>1, DeadStep, BoundsAssumption
    <2>3. Service!FailAgain(j)
      BY <1>2, <1>3, <1>6, <1>7, <1>8, <2>1, <2>2
         DEF Service!FailAgain, States, Begun, Holders, Waits, DeadJobs
    <2> QED BY <2>3
  <1> QED BY <1>9, <1>10

\* Promotion is the arrival of run_at.
LEMMA PromotePromotes ==
    ASSUME TypeInv, Promote, DeadJobs' = DeadJobs
    PROVE  \E S \in SUBSET Jobs : Service!Promote(S)
  <1>1. row \in [Jobs -> Rows] /\ Promotable \subseteq Jobs
    BY DEF TypeInv, TypeOK, Promotable
  <1>2. PICK S \in SUBSET Jobs : S = Promotable
    BY <1>1
  <1>3. \A j \in Jobs : row'[j] = IF j \in S THEN [row[j] EXCEPT !.state = "queued"]
                                                     ELSE row[j]
    BY <1>2 DEF Promote
  <1>4. \A j \in Jobs : /\ row'[j].state = IF j \in S THEN "queued" ELSE row[j].state
                        /\ row'[j].attempts = row[j].attempts /\ row'[j].dep = row[j].dep
    BY <1>1, <1>3 DEF Rows
  <1>5. \A j \in Promotable : row[j].state = "scheduled" /\ row[j].dep = None
    BY DEF Promotable
  <1>6. \A j \in Jobs : row'[j] = row[j] \/ (row'[j].state = "queued" /\ row[j].state = "scheduled")
    BY <1>2, <1>3, <1>4, <1>5
  <1>7. UNCHANGED Holders
    BY <1>6 DEF Holders, ACTIVE_STATES
  <1>8. States' = [j \in Jobs |-> IF j \in S THEN "queued" ELSE States[j]]
    BY <1>4 DEF States
  <1>9. UNCHANGED <<Begun, Waits>>
    BY <1>4 DEF Begun, Waits
  <1>10. Service!Promote(S)
    BY <1>2, <1>1, <1>5, <1>7, <1>8, <1>9
          DEF Service!Promote, States, Begun, Holders, Waits, DeadJobs
  <1> QED BY <1>10

\* Reaping takes jobs back.
LEMMA ReapTakesBack ==
    ASSUME TypeInv, Reap, DeadJobs' = DeadJobs
    PROVE  \E S \in SUBSET Jobs : Service!TakeBack(S)
  <1>1. row \in [Jobs -> Rows] /\ Expired \subseteq Jobs
    BY DEF TypeInv, TypeOK, Expired
  <1>2. PICK S \in SUBSET Jobs : S = Expired
    BY <1>1
  <1>3. \A j \in Jobs : row'[j] = IF j \in S THEN Requeued(row[j]) ELSE row[j]
    BY <1>2 DEF Reap
  <1>4. \A r \in Rows : /\ Requeued(r).state = "queued" /\ Requeued(r).attempts = r.attempts
                        /\ Requeued(r).dep = r.dep
    BY DEF Requeued, Rows
  <1>5. \A j \in Jobs : /\ row'[j].state = IF j \in S THEN "queued" ELSE row[j].state
                        /\ row'[j].attempts = row[j].attempts /\ row'[j].dep = row[j].dep
    BY <1>1, <1>3, <1>4
  <1>6. Holders' = [j \in Jobs |-> IF j \in S THEN None ELSE Holders[j]]
    BY <1>3, <1>5 DEF Holders, ACTIVE_STATES
  <1>7. \A j \in Expired : row[j].state \in ACTIVE_STATES
    BY DEF Expired
  <1>8. States' = [j \in Jobs |-> IF j \in S THEN "queued" ELSE States[j]]
    BY <1>5 DEF States
  <1>9. UNCHANGED <<Begun, Waits>>
    BY <1>5 DEF Begun, Waits
  <1>10. Service!TakeBack(S)
    BY <1>2, <1>1, <1>6, <1>7, <1>8, <1>9
          DEF Service!TakeBack, Service!ACTIVE_STATES, ACTIVE_STATES, States, Begun,
             Holders, Waits, DeadJobs
  <1> QED BY <1>10

\* Every step is a step of the service, or invisible.
LEMMA ServiceNext ==
    ASSUME Regime, TypeInv, Exclusive, [Next]_vars
    PROVE  Service!Next \/ UNCHANGED Service!vars
  <1>0. ASSUME ~ \E d \in Deliveries : DeadLetter(d) PROVE DeadJobs' = DeadJobs
    BY <1>0, DeadStep
  <1>1. CASE \E d \in Deliveries : DeadLetter(d)
    BY <1>1, FailFails DEF Service!Next
  <1>2. ASSUME ~ \E d \in Deliveries : DeadLetter(d)
        PROVE  Service!Next \/ UNCHANGED Service!vars
    <2>0. DeadJobs' = DeadJobs
      BY <1>0, <1>2
    <2>1. ASSUME NEW w \in Workers, NEW j \in Jobs, Claim(w, j)
          PROVE  Service!Next \/ UNCHANGED Service!vars
      <3>1. Service!Hand(j, w)
        BY <2>0, <2>1, ClaimHands
      <3> QED BY <3>1 DEF Service!Next
    <2>2. ASSUME NEW d \in Deliveries, StartCommit(d) PROVE Service!Next \/ UNCHANGED Service!vars
      <3>1. \E j \in Jobs : Service!Begin(j)
        BY <2>0, <2>2, StartBegins
      <3> QED BY <3>1 DEF Service!Next
    <2>3. ASSUME NEW d \in Deliveries, Complete(d) PROVE Service!Next \/ UNCHANGED Service!vars
      <3>1. \E j \in Jobs, S \in SUBSET Jobs : Service!Succeed(j, S)
        BY <2>0, <2>3, CompleteSucceedsAll
      <3> QED BY <3>1 DEF Service!Next
    <2>4. ASSUME NEW d \in Deliveries, ScheduleRetry(d) PROVE Service!Next \/ UNCHANGED Service!vars
      BY <2>4, FailFails DEF Service!Next
    <2>5. CASE Promote
      <3>1. \E S \in SUBSET Jobs : Service!Promote(S)
        BY <2>0, <2>5, PromotePromotes
      <3> QED BY <3>1 DEF Service!Next
    <2>6. CASE Reap
      <3>1. \E S \in SUBSET Jobs : Service!TakeBack(S)
        BY <2>0, <2>6, ReapTakesBack
      <3> QED BY <3>1 DEF Service!Next
    <2>7. ASSUME NEW w \in Workers, Heartbeat(w) PROVE UNCHANGED Service!vars
      <3>1. ASSUME NEW k \in Jobs PROVE Alike(k)
        <4>1. row[k] \in Rows /\ (row'[k] = row[k] \/ row'[k] = [row[k] EXCEPT !.lease = "live"])
          BY <2>7 DEF Heartbeat, TypeInv, TypeOK
        <4> QED BY <4>1 DEF Alike, Rows
      <3> QED BY <2>0, <3>1, Stutter
    <2>8. ASSUME NEW j \in Jobs, Ripen(j) \/ Lapse(j) PROVE UNCHANGED Service!vars
      <3>1. ASSUME NEW k \in Jobs PROVE Alike(k)
        <4>1. row[k] \in Rows /\ row \in [Jobs -> Rows]
          BY DEF TypeInv, TypeOK
        <4>2. CASE k # j
          <5>1. row'[k] = row[k]
            BY <2>8, <4>1, <4>2 DEF Ripen, Lapse
          <5> QED BY <5>1 DEF Alike
        <4>3. CASE k = j /\ Ripen(j)
          <5>1. row'[k] = [row[k] EXCEPT !.due = TRUE]
            BY <4>1, <4>3 DEF Ripen
          <5> QED BY <4>1, <5>1 DEF Alike, Rows
        <4>4. CASE k = j /\ Lapse(j)
          <5>1. row'[k] = [row[k] EXCEPT !.lease = "lapsed"]
            BY <4>1, <4>4 DEF Lapse
          <5> QED BY <4>1, <5>1 DEF Alike, Rows
        <4> QED BY <2>8, <4>2, <4>3, <4>4
      <3> QED BY <2>0, <3>1, Stutter
    <2>9. ASSUME \/ \E d \in Deliveries : \/ StartRead(d) \/ ResultRead(d)
                                          \/ ReadDependents(d) \/ Drop(d)
                 \/ \E w \in Mortal : Crash(w)
                 \/ UNCHANGED vars
          PROVE  UNCHANGED Service!vars
      <3>1. UNCHANGED row
        BY <2>9 DEF StartRead, ResultRead, ReadDependents, Drop, Crash, vars
      <3> QED BY <2>0, <3>1, RowsStutter
    <2> QED BY <1>2, <2>1, <2>2, <2>3, <2>4, <2>5, <2>6, <2>7, <2>8, <2>9
            DEF Next, DeliveryStep, Regime
  <1> QED BY <1>1, <1>2

\* In a timely system nobody interferes with, the handlers' reads and commits,
\* crashes and lost requests included, are steps of the life that enums.py and
\* ARCHITECTURE.md draw.
THEOREM LifecycleIsService == ASSUME Regime PROVE Spec => ImplementsJobService
  <1>1. TimelyInv /\ [Next]_vars => [Service!Next]_(Service!vars)
    BY ServiceNext DEF TimelyInv
  <1> QED BY <1>1, ServiceInit, TimelyAlways, PTL DEF Spec, ImplementsJobService, Service!Spec
=============================================================================
