----------------------- MODULE SchedulerProcessProofs -----------------------
(* Theorems about SchedulerProcess for any schedules, cron expressions,     *)
(* operators, workers, jobs, timeout, and number of faults; for any finite  *)
(* number of schedulers where the theorem does not say otherwise.           *)
EXTENDS SchedulerProcess, FiniteSetTheorems, TLAPS

----------------------------------------------------------------------------
(* Every step is a step of the schedules' tables or leaves them alone, and  *)
(* likewise for the workers' tables.                                        *)

CronStep ==
    \/ ApiStep
    \/ \E x \in Schedules : Elapse(x)
    \/ \E s \in Schedulers : Load(s) \/ Fire(s) \/ RollBack(s)

RegistryStep ==
    WorkerStep \/ Tick \/ PromoteDue \/ ReapDeadWorkers \/ ReapExpiredLeases

\* A step of the system seen in either table alone.
LEMMA Projection ==
    ASSUME [Next]_vars
    PROVE  [CronStep]_cronVars /\ [RegistryStep]_registryVars
  <1>1. ASSUME NEW s \in Schedulers, TickStep(s)
        PROVE  [CronStep]_cronVars /\ [RegistryStep]_registryVars
    BY <1>1 DEF TickStep, PromotePass, LoadPass, FirePass, FireFails, WorkersPass,
                LeasesPass, FireRaises, CronStep, RegistryStep
  <1>2. ASSUME NEW s \in Schedulers, Fault(s) \/ Restart(s)
        PROVE  [CronStep]_cronVars /\ [RegistryStep]_registryVars
    BY <1>2 DEF Fault, Restart, CronStep
  <1>3. ASSUME UNCHANGED vars
        PROVE  [CronStep]_cronVars /\ [RegistryStep]_registryVars
    BY <1>3 DEF vars
  <1> QED BY <1>1, <1>2, <1>3 DEF Next, CronStep, RegistryStep

----------------------------------------------------------------------------
(* Type correctness.                                                        *)

\* The empty pass is well-typed.
LEMMA NoPassType == NoPass \in Passes
  BY DatesAssumption DEF NoPass, Passes

\* The schedules' tables keep their types.
LEMMA CronTypeNext ==
    ASSUME CronTypeOK, [CronStep]_cronVars
    PROVE  CronTypeOK'
  <1> USE DatesAssumption, SchedulesAssumption DEF CronTypeOK
  <1>1. ASSUME NEW x \in Schedules, Elapse(x) PROVE CronTypeOK'
    BY <1>1 DEF Elapse, rowVars
  <1>2. ASSUME NEW x \in Schedules, CreateSchedule(x) PROVE CronTypeOK'
    BY <1>2 DEF CreateSchedule
  <1>3. ASSUME NEW o \in Operators, NEW x \in Schedules, ToggleRead(o, x) PROVE CronTypeOK'
    BY <1>3 DEF ToggleRead, rowVars
  <1>4. ASSUME NEW o \in Operators, ToggleCommit(o) PROVE CronTypeOK'
    <2>1. toggle[o].of \in Schedules
      BY <1>4 DEF ToggleCommit
    <2>2. toggle' \in [Operators -> [of : Schedules \cup {None}, seen : BOOLEAN]]
      BY <1>4 DEF ToggleCommit, NoToggle
    <2>3. on' \in [Schedules -> BOOLEAN] /\ quiet' \in [Schedules -> Nat]
      BY <1>4, <2>1 DEF ToggleCommit
    <2> QED BY <1>4, <2>2, <2>3 DEF ToggleCommit
  <1>5. ASSUME NEW s \in Schedulers, Load(s) PROVE CronTypeOK'
    <2>1. [open |-> TRUE, now |-> slot, due |-> DueNow] \in Passes
      BY DEF Passes, DueNow
    <2>2. pass' \in [Schedulers -> Passes]
      BY <1>5, <2>1 DEF Load
    <2> QED BY <1>5, <2>2 DEF Load, rowVars
  <1>6. ASSUME NEW s \in Schedulers, RollBack(s) PROVE CronTypeOK'
    BY <1>6, NoPassType DEF RollBack, rowVars
  <1>7. ASSUME NEW s \in Schedulers, Fire(s) PROVE CronTypeOK'
    <2>1. pass[s].now \in [Schedules -> 0 .. MaxSlots]
      BY DEF Passes
    <2>2. jobs' \in [Schedules -> Nat] /\ last' \in [Schedules -> 0 .. MaxSlots]
      BY <1>7, <2>1 DEF Fire
    <2>3. next' \in [Schedules -> 0 .. MaxSlots + 1]
      BY <1>7, <2>1 DEF Fire, NextAfter
    <2> QED BY <1>7, <2>2, <2>3, NoPassType DEF Fire
  <1>8. ASSUME UNCHANGED cronVars PROVE CronTypeOK'
    BY <1>8 DEF cronVars
  <1> QED BY <1>1, <1>2, <1>3, <1>4, <1>5, <1>6, <1>7, <1>8 DEF CronStep, ApiStep

\* Ages stay within their cap, and keep their order.
LEMMA AgedBounds ==
    ASSUME NEW m \in 0 .. Timeout + 1, NEW n \in 0 .. Timeout + 1
    PROVE  Aged(m) \in 0 .. Timeout + 1 /\ (m <= n => Aged(m) <= Aged(n))
  BY TimeoutAssumption DEF Aged

\* The workers' tables keep their types.
LEMMA RegistryTypeNext ==
    ASSUME RegistryTypeOK, [RegistryStep]_registryVars
    PROVE  RegistryTypeOK'
  <1> USE TimeoutAssumption, WorkerAssumption DEF RegistryTypeOK, WorkerStatus
  <1>1. ASSUME NEW w \in Workers, RegisterWorker(w) PROVE RegistryTypeOK'
    BY <1>1 DEF RegisterWorker, jobVars
  <1>10. ASSUME NEW w \in Workers, CrashWorker(w) PROVE RegistryTypeOK'
    BY <1>10 DEF CrashWorker, jobVars
  <1>2. ASSUME NEW w \in Workers, HeartbeatRead(w) PROVE RegistryTypeOK'
    BY <1>2 DEF HeartbeatRead, jobVars
  <1>3. ASSUME NEW w \in Workers, HeartbeatCommit(w) PROVE RegistryTypeOK'
    BY <1>3 DEF HeartbeatCommit, StatusAfter
  <1>4. ASSUME NEW w \in Workers, NEW j \in Jobs, ClaimJob(w, j) PROVE RegistryTypeOK'
    BY <1>4 DEF ClaimJob
  <1>5. ASSUME NEW j \in Jobs, ReportResult(j) PROVE RegistryTypeOK'
    BY <1>5 DEF ReportResult
  <1>6. ASSUME Tick PROVE RegistryTypeOK'
    <2>1. \A n \in 0 .. Timeout + 1 : Aged(n) \in 0 .. Timeout + 1
      BY AgedBounds
    <2> QED BY <1>6, <2>1 DEF Tick
  <1>7. ASSUME PromoteDue \/ ReapDeadWorkers PROVE RegistryTypeOK'
    BY <1>7 DEF PromoteDue, ReapDeadWorkers, jobVars
  <1>8. ASSUME ReapExpiredLeases PROVE RegistryTypeOK'
    BY <1>8 DEF ReapExpiredLeases, Expired
  <1>9. ASSUME UNCHANGED registryVars PROVE RegistryTypeOK'
    BY <1>9 DEF registryVars
  <1> QED BY <1>1, <1>2, <1>3, <1>4, <1>5, <1>6, <1>7, <1>8, <1>9, <1>10
          DEF RegistryStep, WorkerStep

\* A pass of fire_due_cron is open exactly between its two steps.
ProcessOK ==
    /\ at \in [Schedulers -> {"promote", "load", "fire", "workers", "leases", "down"}]
    /\ \A s \in Schedulers : pass[s].open <=> at[s] = "fire"
    /\ faults \in 0 .. MaxFaults

\* The loop of a scheduler and its transaction keep step.
LEMMA ProcessNext ==
    ASSUME CronTypeOK, ProcessOK, [Next]_vars
    PROVE  ProcessOK'
  <1> USE FaultsAssumption DEF ProcessOK, CronTypeOK, Pass
  <1>1. ASSUME NEW s \in Schedulers, PromotePass(s) \/ WorkersPass(s) \/ LeasesPass(s) \/ Restart(s)
        PROVE  ProcessOK'
    BY <1>1 DEF PromotePass, WorkersPass, LeasesPass, Restart, cronVars
  <1>2. ASSUME NEW s \in Schedulers, LoadPass(s) PROVE ProcessOK'
    BY <1>2 DEF LoadPass, Load
  <1>3. ASSUME NEW s \in Schedulers, FirePass(s) PROVE ProcessOK'
    BY <1>3 DEF FirePass, Fire, NoPass
  <1>4. ASSUME NEW s \in Schedulers, FireFails(s) PROVE ProcessOK'
    BY <1>4 DEF FireFails, FireRaises, RollBack, NoPass
  <1>5. ASSUME NEW s \in Schedulers, Fault(s) PROVE ProcessOK'
    BY <1>5 DEF Fault, RollBack, NoPass
  <1>6. ASSUME UNCHANGED <<processVars, pass>> PROVE ProcessOK'
    BY <1>6 DEF processVars
  <1>7. ASSUME \/ ApiStep /\ UNCHANGED <<registryVars, processVars>>
               \/ \E x \in Schedules : Elapse(x) /\ UNCHANGED <<registryVars, processVars>>
               \/ WorkerStep /\ UNCHANGED <<cronVars, processVars>>
               \/ Tick /\ UNCHANGED <<cronVars, processVars>>
               \/ UNCHANGED vars
        PROVE  UNCHANGED <<processVars, pass>>
    BY <1>7 DEF ApiStep, Elapse, CreateSchedule, ToggleRead, ToggleCommit, cronVars, vars
  <1> QED BY <1>1, <1>2, <1>3, <1>4, <1>5, <1>6, <1>7 DEF Next, TickStep

\* TypeOK by tables.
LEMMA TypeSplit == TypeOK <=> CronTypeOK /\ RegistryTypeOK /\ ProcessOK
  BY DEF TypeOK, ProcessOK

\* Initial states are well-typed.
LEMMA TypeInit == Init => TypeOK
  <1> SUFFICES ASSUME Init PROVE TypeOK
    OBVIOUS
  <1>1. CronTypeOK
    BY NoPassType, DatesAssumption DEF Init, CronInit, CronTypeOK, NoToggle
  <1>2. RegistryTypeOK
    BY TimeoutAssumption, WorkerAssumption DEF Init, RegistryInit, RegistryTypeOK, WorkerStatus
  <1>3. ProcessOK
    BY FaultsAssumption DEF Init, CronInit, ProcessOK, NoPass
  <1> QED BY <1>1, <1>2, <1>3, TypeSplit

\* All steps keep the types.
LEMMA TypeNext == TypeOK /\ [Next]_vars => TypeOK'
  <1> SUFFICES ASSUME TypeOK, [Next]_vars PROVE TypeOK'
    OBVIOUS
  <1>1. CronTypeOK /\ RegistryTypeOK /\ ProcessOK
    BY TypeSplit
  <1>2. CronTypeOK' /\ RegistryTypeOK' /\ ProcessOK'
    BY <1>1, Projection, CronTypeNext, RegistryTypeNext, ProcessNext
  <1> QED BY <1>2 DEF TypeOK, ProcessOK

\* The variables of all three modules keep their types, jobs have a holder
\* while they are active, and a pass is open while the loop is in it.
THEOREM TypeCorrect == Spec => []TypeOK
  <1> QED BY TypeInit, TypeNext, PTL DEF Spec

----------------------------------------------------------------------------
(* One scheduler fires each date once.  The row alone does not say so: what *)
(* an open pass has loaded must still be due when it commits.               *)

Single == \A s, t \in Schedulers : s = t

Ahead ==
    /\ \A x \in Schedules : last[x] < next[x] \/ (next[x] = 0 /\ last[x] = 0)
    /\ \A s \in Schedulers : \A x \in pass[s].due :
         Exists(x) /\ next[x] <= pass[s].now[x]

\* With one scheduler nothing moves a date that an open pass has loaded.
LEMMA AheadNext ==
    ASSUME Single, CronTypeOK, Ahead, [CronStep]_cronVars
    PROVE  Ahead'
  <1> USE SchedulesAssumption, DatesAssumption DEF CronTypeOK, Ahead, Exists, Passes
  <1>1. ASSUME NEW x \in Schedules, CreateSchedule(x) PROVE Ahead'
    <2>1. \A s \in Schedulers : x \notin pass[s].due
      BY <1>1 DEF CreateSchedule
    <2>2. \A y \in Schedules : next'[y] = IF y = x THEN slot[x] + 1 ELSE next[y]
      BY <1>1 DEF CreateSchedule
    <2>3. last[x] = 0 /\ UNCHANGED <<last, pass>>
      BY <1>1 DEF CreateSchedule
    <2>4. \A y \in Schedules : last'[y] < next'[y] \/ (next'[y] = 0 /\ last'[y] = 0)
      BY <2>2, <2>3
    <2>5. \A s \in Schedulers : \A y \in pass[s].due : y \in Schedules /\ y # x
      BY <2>1
    <2>6. \A s \in Schedulers : \A y \in pass'[s].due :
            next'[y] > 0 /\ next'[y] <= pass'[s].now[y]
      BY <2>2, <2>3, <2>5
    <2> QED BY <2>4, <2>6
  <1>2. ASSUME NEW s \in Schedulers, Load(s) PROVE Ahead'
    <2>1. UNCHANGED <<next, last>>
      BY <1>2 DEF Load, rowVars
    <2>2. pass'[s].due = DueNow /\ pass'[s].now = slot
      BY <1>2 DEF Load
    <2>3. \A t \in Schedulers : t = s
      BY DEF Single
    <2>4. \A t \in Schedulers : \A x \in pass'[t].due :
            next'[x] > 0 /\ next'[x] <= pass'[t].now[x]
      BY <2>1, <2>2, <2>3 DEF DueNow
    <2> QED BY <2>1, <2>4
  <1>3. ASSUME NEW s \in Schedulers, Fire(s) PROVE Ahead'
    <2>1. \A t \in Schedulers : pass'[t].due = {}
      BY <1>3 DEF Fire, NoPass, Single
    <2>2. ASSUME NEW x \in Schedules
          PROVE  last'[x] < next'[x] \/ (next'[x] = 0 /\ last'[x] = 0)
      <3>1. CASE x \in pass[s].due
        BY <1>3, <3>1 DEF Fire, NextAfter
      <3>2. CASE x \notin pass[s].due
        BY <1>3, <3>2 DEF Fire
      <3> QED BY <3>1, <3>2
    <2> QED BY <2>1, <2>2
  <1>4. ASSUME NEW s \in Schedulers, RollBack(s) PROVE Ahead'
    BY <1>4 DEF RollBack, rowVars, NoPass
  <1>5. ASSUME UNCHANGED <<next, last, pass>> PROVE Ahead'
    BY <1>5
  <1>6. ASSUME \/ \E x \in Schedules : Elapse(x)
               \/ \E o \in Operators : ToggleCommit(o) \/ \E x \in Schedules : ToggleRead(o, x)
               \/ UNCHANGED cronVars
        PROVE  UNCHANGED <<next, last, pass>>
    BY <1>6 DEF Elapse, ToggleCommit, ToggleRead, rowVars, cronVars
  <1> QED BY <1>1, <1>2, <1>3, <1>4, <1>5, <1>6 DEF CronStep, ApiStep

\* What a step does to the dates that have fired.
LEMMA FiresOnce ==
    ASSUME CronTypeOK, Ahead, [CronStep]_cronVars
    PROVE  \A x \in Schedules : jobs'[x] # jobs[x] => last'[x] > last[x]
  <1> USE DEF CronTypeOK, Ahead, Exists, Passes
  <1>1. ASSUME NEW s \in Schedulers, Fire(s)
        PROVE  \A x \in Schedules : jobs'[x] # jobs[x] => last'[x] > last[x]
    <2> SUFFICES ASSUME NEW x \in Schedules, jobs'[x] # jobs[x]
                 PROVE  last'[x] > last[x]
      OBVIOUS
    <2>1. x \in pass[s].due /\ last'[x] = pass[s].now[x]
      BY <1>1 DEF Fire
    <2>2. last[x] < next[x] /\ next[x] <= pass[s].now[x]
      BY <2>1
    <2> QED BY <2>1, <2>2, DatesAssumption
  <1>2. ASSUME ~ \E s \in Schedulers : Fire(s)
        PROVE  UNCHANGED jobs
    BY <1>2 DEF CronStep, ApiStep, Elapse, CreateSchedule, ToggleRead, ToggleCommit,
                Load, RollBack, rowVars, cronVars
  <1> QED BY <1>1, <1>2

\* A single scheduler fires no date of a schedule twice, whatever fails or
\* crashes between loading the due rows and committing their jobs.
THEOREM DatesFireOnce == ASSUME Single PROVE Spec => OncePerDate
  <1>1. Init => Ahead
    BY DEF Init, CronInit, Ahead, Exists, NoPass
  <1>2. TypeOK /\ Ahead /\ [Next]_vars => Ahead'
    BY Projection, TypeSplit, AheadNext
  <1>3. TypeOK /\ Ahead /\ [Next]_vars =>
          [\A x \in Schedules : jobs'[x] # jobs[x] => last'[x] > last[x]]_cronVars
    BY Projection, TypeSplit, FiresOnce
  <1> QED BY <1>1, <1>2, <1>3, TypeInit, TypeNext, PTL DEF Spec, OncePerDate

----------------------------------------------------------------------------
(* Switching off.  A schedule that is off may still be due in passes opened *)
(* before; each of them makes at most one more job.                         *)

HeldBy(p, x) == {s \in Schedulers : x \in p[s].due}

Quiet ==
    \A x \in Schedules : ~on[x] =>
        jobs[x] + Cardinality(HeldBy(pass, x)) <= quiet[x] + Cardinality(Schedulers)

\* Fewer passes hold a schedule when one of them lets go of it.
LEMMA HeldCounts ==
    ASSUME NEW p, NEW q, NEW x, HeldBy(p, x) \subseteq HeldBy(q, x)
    PROVE  /\ Cardinality(HeldBy(p, x)) \in Nat /\ Cardinality(HeldBy(q, x)) \in Nat
           /\ Cardinality(Schedulers) \in Nat
           /\ Cardinality(HeldBy(p, x)) <= Cardinality(HeldBy(q, x))
           /\ Cardinality(HeldBy(q, x)) <= Cardinality(Schedulers)
           /\ \A s \in HeldBy(q, x) : s \notin HeldBy(p, x) =>
                Cardinality(HeldBy(p, x)) + 1 <= Cardinality(HeldBy(q, x))
  <1> DEFINE P == HeldBy(p, x)
             Q == HeldBy(q, x)
  <1>1. IsFiniteSet(Schedulers) /\ Q \subseteq Schedulers
    BY SchedulesAssumption DEF HeldBy
  <1>2. IsFiniteSet(Q) /\ Cardinality(Q) <= Cardinality(Schedulers)
    BY <1>1, FS_Subset
  <1>3. IsFiniteSet(P) /\ Cardinality(P) <= Cardinality(Q)
    BY <1>2, FS_Subset
  <1>4. Cardinality(P) \in Nat /\ Cardinality(Q) \in Nat /\ Cardinality(Schedulers) \in Nat
    BY <1>1, <1>2, <1>3, FS_CardinalityType
  <1>5. ASSUME NEW s \in Q, s \notin P PROVE Cardinality(P) + 1 <= Cardinality(Q)
    <2>1. P \cup {s} \subseteq Q
      BY <1>5
    <2>2. Cardinality(P \cup {s}) = Cardinality(P) + 1
      BY <1>3, <1>5, FS_AddElement
    <2>3. Cardinality(P \cup {s}) <= Cardinality(Q)
      BY <1>2, <2>1, FS_Subset
    <2> QED BY <2>2, <2>3
  <1> QED BY <1>2, <1>3, <1>4, <1>5

\* The argument common to the steps: while a schedule stays off, its jobs and
\* the passes that hold it do not grow together.
LEMMA QuietKept ==
    ASSUME CronTypeOK, Quiet, UNCHANGED quiet,
           \A x \in Schedules : ~on'[x] =>
             /\ ~on[x]
             /\ HeldBy(pass', x) \subseteq HeldBy(pass, x)
             /\ \/ jobs'[x] = jobs[x]
                \/ /\ jobs'[x] = jobs[x] + 1
                   /\ \E s \in HeldBy(pass, x) : s \notin HeldBy(pass', x)
    PROVE  Quiet'
  <1> SUFFICES ASSUME NEW x \in Schedules, ~on'[x]
               PROVE  jobs'[x] + Cardinality(HeldBy(pass', x))
                        <= quiet'[x] + Cardinality(Schedulers)
    BY DEF Quiet
  <1>1. jobs[x] \in Nat /\ quiet[x] \in Nat /\ quiet'[x] = quiet[x]
    BY DEF CronTypeOK
  <1>2. jobs[x] + Cardinality(HeldBy(pass, x)) <= quiet[x] + Cardinality(Schedulers)
    BY DEF Quiet
  <1>3. HeldBy(pass', x) \subseteq HeldBy(pass, x)
    OBVIOUS
  <1>4. CASE jobs'[x] = jobs[x]
    BY <1>1, <1>2, <1>3, <1>4, HeldCounts
  <1>5. CASE jobs'[x] = jobs[x] + 1 /\ \E s \in HeldBy(pass, x) : s \notin HeldBy(pass', x)
    BY <1>1, <1>2, <1>3, <1>5, HeldCounts
  <1> QED BY <1>4, <1>5

\* No step makes a schedule that is off owe more jobs.
LEMMA QuietNext ==
    ASSUME CronTypeOK, Quiet, [CronStep]_cronVars
    PROVE  Quiet'
  <1> USE DEF CronTypeOK
  <1>1. ASSUME NEW x \in Schedules, CreateSchedule(x) PROVE Quiet'
    <2>1. UNCHANGED <<jobs, quiet, pass>> /\ \A y \in Schedules : ~on'[y] => ~on[y]
      BY <1>1 DEF CreateSchedule
    <2> QED BY <2>1, QuietKept
  <1>2. ASSUME NEW o \in Operators, ToggleCommit(o) PROVE Quiet'
    <2> DEFINE x == toggle[o].of
    <2>1. x \in Schedules /\ UNCHANGED <<jobs, pass>>
      BY <1>2 DEF ToggleCommit
    <2>2. CASE on[x] /\ toggle[o].seen
      <3>1. /\ quiet'[x] = jobs[x]
            /\ \A y \in Schedules : y # x => quiet'[y] = quiet[y] /\ on'[y] = on[y]
        BY <1>2, <2>1, <2>2 DEF ToggleCommit
      <3>2. /\ Cardinality(HeldBy(pass, x)) \in Nat /\ Cardinality(Schedulers) \in Nat
            /\ Cardinality(HeldBy(pass, x)) <= Cardinality(Schedulers)
        BY HeldCounts
      <3>3. jobs[x] + Cardinality(HeldBy(pass, x)) <= quiet'[x] + Cardinality(Schedulers)
        BY <2>1, <3>1, <3>2
      <3>4. ASSUME NEW y \in Schedules, ~on'[y]
            PROVE  jobs[y] + Cardinality(HeldBy(pass, y)) <= quiet'[y] + Cardinality(Schedulers)
        BY <3>1, <3>3, <3>4 DEF Quiet
      <3> QED BY <2>1, <3>4 DEF Quiet
    <2>3. CASE ~(on[x] /\ toggle[o].seen)
      <3>1. UNCHANGED quiet /\ \A y \in Schedules : ~on'[y] => ~on[y]
        BY <1>2, <2>1, <2>3 DEF ToggleCommit
      <3> QED BY <2>1, <3>1, QuietKept
    <2> QED BY <2>2, <2>3
  <1>3. ASSUME NEW s \in Schedulers, Load(s) PROVE Quiet'
    <2>1. UNCHANGED <<on, jobs, quiet>>
      BY <1>3 DEF Load, rowVars
    <2>2. \A t \in Schedulers : pass'[t].due = IF t = s THEN DueNow ELSE pass[t].due
      BY <1>3 DEF Load
    <2>3. \A x \in Schedules : ~on[x] => HeldBy(pass', x) \subseteq HeldBy(pass, x)
      BY <2>2 DEF DueNow, HeldBy
    <2> QED BY <2>1, <2>3, QuietKept
  <1>4. ASSUME NEW s \in Schedulers, Fire(s) PROVE Quiet'
    <2>1. /\ UNCHANGED <<on, quiet>>
          /\ \A x \in Schedules :
               jobs'[x] = IF x \in pass[s].due THEN jobs[x] + 1 ELSE jobs[x]
      BY <1>4 DEF Fire
    <2>2. \A t \in Schedulers : pass'[t].due = IF t = s THEN {} ELSE pass[t].due
      BY <1>4 DEF Fire, NoPass
    <2>3. \A x \in Schedules : HeldBy(pass', x) \subseteq HeldBy(pass, x)
      BY <2>2 DEF HeldBy
    <2>4. \A x \in Schedules : x \in pass[s].due =>
            s \in HeldBy(pass, x) /\ s \notin HeldBy(pass', x)
      BY <2>2 DEF HeldBy
    <2>5. \A x \in Schedules : ~on'[x] =>
             /\ ~on[x]
             /\ HeldBy(pass', x) \subseteq HeldBy(pass, x)
             /\ \/ jobs'[x] = jobs[x]
                \/ /\ jobs'[x] = jobs[x] + 1
                   /\ \E t \in HeldBy(pass, x) : t \notin HeldBy(pass', x)
      BY <2>1, <2>3, <2>4
    <2> QED BY <2>1, <2>5, QuietKept
  <1>5. ASSUME NEW s \in Schedulers, RollBack(s) PROVE Quiet'
    <2>1. UNCHANGED <<on, jobs, quiet>>
      BY <1>5 DEF RollBack, rowVars
    <2>2. \A x \in Schedules : HeldBy(pass', x) \subseteq HeldBy(pass, x)
      BY <1>5 DEF RollBack, NoPass, HeldBy
    <2> QED BY <2>1, <2>2, QuietKept
  <1>6. ASSUME \/ \E x \in Schedules : Elapse(x)
               \/ \E o \in Operators, x \in Schedules : ToggleRead(o, x)
               \/ UNCHANGED cronVars
        PROVE  Quiet'
    <2>1. UNCHANGED <<on, jobs, quiet, pass>>
      BY <1>6 DEF Elapse, ToggleRead, rowVars, cronVars
    <2> QED BY <2>1, QuietKept
  <1> QED BY <1>1, <1>2, <1>3, <1>4, <1>5, <1>6 DEF CronStep, ApiStep

\* A schedule that is switched off makes at most one more job for every
\* scheduler, that of a pass under way.
THEOREM OffStaysQuiet == Spec => []OffMeansQuiet
  <1>1. Init => Quiet
    <2> SUFFICES ASSUME Init PROVE Quiet
      OBVIOUS
    <2>1. \A x \in Schedules : jobs[x] = 0 /\ quiet[x] = 0
      BY DEF Init, CronInit
    <2>2. \A x \in Schedules : /\ Cardinality(HeldBy(pass, x)) \in Nat
                               /\ Cardinality(Schedulers) \in Nat
                               /\ Cardinality(HeldBy(pass, x)) <= Cardinality(Schedulers)
      BY HeldCounts
    <2> QED BY <2>1, <2>2 DEF Quiet
  <1>2. TypeOK /\ Quiet /\ [Next]_vars => Quiet'
    BY Projection, TypeSplit, QuietNext
  <1>3. TypeOK /\ Quiet => OffMeansQuiet
    <2> SUFFICES ASSUME TypeOK, Quiet, NEW x \in Schedules, ~on[x]
                 PROVE  jobs[x] <= quiet[x] + Cardinality(Schedulers)
      BY DEF OffMeansQuiet
    <2>1. Cardinality(HeldBy(pass, x)) \in Nat /\ Cardinality(Schedulers) \in Nat
      BY HeldCounts
    <2>2. jobs[x] \in Nat /\ quiet[x] \in Nat
      BY DEF TypeOK, CronTypeOK
    <2>3. jobs[x] + Cardinality(HeldBy(pass, x)) <= quiet[x] + Cardinality(Schedulers)
      BY DEF Quiet
    <2> QED BY <2>1, <2>2, <2>3
  <1> QED BY <1>1, <1>2, <1>3, TypeInit, TypeNext, PTL DEF Spec

----------------------------------------------------------------------------
(* Leases.  A job's lease is never older than the last heartbeat of its     *)
(* holder, which is a registered worker.                                    *)

Leashed ==
    /\ \A w \in Workers : up[w] \/ beat[w] # "none" => status[w] # "none"
    /\ \A j \in Jobs : jstate[j] = "active" =>
         status[holder[j]] # "none" /\ since[j] <= age[holder[j]]

\* Leases and heartbeats are renewed together and age together.
LEMMA LeashedNext ==
    ASSUME RegistryTypeOK, Leashed, [RegistryStep]_registryVars
    PROVE  Leashed'
  <1> USE TimeoutAssumption, WorkerAssumption DEF RegistryTypeOK, Leashed, WorkerStatus
  <1>1. ASSUME NEW w \in Workers, RegisterWorker(w) PROVE Leashed'
    BY <1>1 DEF RegisterWorker, jobVars
  <1>2. ASSUME NEW w \in Workers, CrashWorker(w) PROVE Leashed'
    BY <1>2 DEF CrashWorker, jobVars
  <1>3. ASSUME NEW w \in Workers, HeartbeatRead(w) PROVE Leashed'
    BY <1>3 DEF HeartbeatRead, jobVars
  <1>4. ASSUME NEW w \in Workers, HeartbeatCommit(w) PROVE Leashed'
    BY <1>4 DEF HeartbeatCommit, Renewed, Owned, StatusAfter
  <1>5. ASSUME NEW w \in Workers, NEW j \in Jobs, ClaimJob(w, j) PROVE Leashed'
    BY <1>5 DEF ClaimJob
  <1>6. ASSUME NEW j \in Jobs, ReportResult(j) PROVE Leashed'
    BY <1>6 DEF ReportResult
  <1>7. ASSUME Tick PROVE Leashed'
    <2>1. \A j \in Jobs : jstate[j] = "active" =>
            /\ holder[j] \in Workers
            /\ since'[j] = Aged(since[j]) /\ age'[holder[j]] = Aged(age[holder[j]])
      BY <1>7 DEF Tick
    <2>2. \A j \in Jobs : jstate[j] = "active" => since'[j] <= age'[holder[j]]
      BY <2>1, AgedBounds
    <2> QED BY <1>7, <2>2 DEF Tick
  <1>8. ASSUME PromoteDue \/ ReapDeadWorkers PROVE Leashed'
    BY <1>8 DEF PromoteDue, ReapDeadWorkers, jobVars
  <1>9. ASSUME ReapExpiredLeases PROVE Leashed'
    BY <1>9 DEF ReapExpiredLeases
  <1>10. ASSUME UNCHANGED registryVars PROVE Leashed'
    BY <1>10 DEF registryVars
  <1> QED BY <1>1, <1>2, <1>3, <1>4, <1>5, <1>6, <1>7, <1>8, <1>9, <1>10
          DEF RegistryStep, WorkerStep

\* reap_expired_leases takes no job from a worker that counts as alive.
THEOREM AliveKeepJobs == Spec => []ShownAliveKeepsJobs
  <1>1. Init => Leashed
    BY DEF Init, RegistryInit, Leashed
  <1>2. TypeOK /\ Leashed /\ [Next]_vars => Leashed'
    BY Projection, TypeSplit, LeashedNext
  <1>3. TypeOK /\ Leashed => ShownAliveKeepsJobs
    BY TimeoutAssumption
       DEF TypeOK, RegistryTypeOK, Leashed, ShownAliveKeepsJobs, ShownAlive
  <1> QED BY <1>1, <1>2, <1>3, TypeInit, TypeNext, PTL DEF Spec
=============================================================================
