------------------------ MODULE TimelyLifecycleProofs ------------------------
(* Theorems about JobLifecycle in a timely system without operators: leases *)
(* pass only when their owner is gone and no request on the job is under    *)
(* way.  Then each job is in at most one worker's hands, and what a handler *)
(* has loaded is still the row when it commits.  For any number of jobs,    *)
(* workers, crashes, attempts and deliveries, with or without losses.       *)
EXTENDS JobLifecycleProofs

Regime == Timely /\ Users = {}

----------------------------------------------------------------------------
(* The inductive invariant.                                                 *)

Executing == {"running", "completing", "releasing", "failing"}
InHand    == {"held", "starting"} \cup Executing

\* The row of a delivery in a worker's hands: it is the worker's, under lease,
\* in the state the delivery has reached; the worker lives while it has the
\* job; and a handler's snapshots are up to date.
Working(d) ==
    /\ row[job[d]].owner = by[d] /\ row[job[d]].lease = "live"
    /\ row[job[d]].state = IF phase[d] \in Executing THEN "running" ELSE "claimed"
    /\ phase[d] \in {"held", "running"} => alive[by[d]]
    /\ phase[d] \in InApi => seen[d] = row[job[d]]
    /\ phase[d] = "releasing" => /\ kids[d] = {k \in Jobs : row[k].dep = job[d]}
                                 /\ ripe[d] \subseteq kids[d]

\* Nobody cancels, an active job has a lease, a job that waits for its parent
\* has not begun.
Sound(r) ==
    /\ r.state \in {"queued", "scheduled", "claimed", "running", "completed", "dead"}
    /\ r.state \in ACTIVE_STATES => r.lease # "none"
    /\ r.dep # None => r.state = "scheduled"

Exclusive ==
    /\ \A d \in Deliveries : phase[d] \in InHand => Working(d)
    /\ \A d, e \in Deliveries :
         phase[d] \in InHand /\ phase[e] \in InHand /\ job[d] = job[e] => d = e
    /\ \A d \in Deliveries : phase[d] # "unused" => row[job[d]].dep = None
    /\ \A j \in Jobs : Sound(row[j])

TimelyInv == TypeInv /\ Exclusive

----------------------------------------------------------------------------
(* What the transactions do to the columns.                                 *)

\* A row operation's columns besides those of RowOpColumns.
LEMMA RowOpLeases ==
    ASSUME NEW r \in Rows, NEW w \in Workers, NEW b \in BOOLEAN
    PROVE  /\ Claimed(r, w).state = "claimed" /\ Claimed(r, w).owner = w
           /\ Claimed(r, w).lease = "live" /\ Claimed(r, w).dep = r.dep
           /\ Claimed(r, w).attempts = r.attempts
           /\ Requeued(r).state = "queued" /\ Requeued(r).dep = r.dep
           /\ Requeued(r).attempts = r.attempts
           /\ Started(r).owner = r.owner /\ Started(r).lease = r.lease
           /\ Released(r, b).state = (IF b THEN "queued" ELSE r.state)
           /\ Released(r, b).attempts = r.attempts /\ Released(r, b).dep = None
           /\ Released(r, b).lease = r.lease
  BY DEF Rows, Claimed, Requeued, Started, Released

\* A flush over an unchanged row writes what the handler computed.
LEMMA FlushFresh ==
    ASSUME NEW r \in Rows, NEW n \in Rows
    PROVE  /\ Flush(r, r, n).state = n.state /\ Flush(r, r, n).attempts = n.attempts
           /\ Flush(r, r, n).owner = n.owner /\ Flush(r, r, n).lease = n.lease
           /\ Flush(r, r, n).dep = n.dep
  BY DEF Flush, Merge

OthersKeep(j) == \A k \in Jobs : k # j => row'[k] = row[k]

\* start_execution, on the row as it is.
LEMMA StartEffect ==
    ASSUME TypeInv, NEW d \in Deliveries, seen[d] = row[job[d]], StartCommit(d)
    PROVE  /\ job[d] \in Jobs /\ OthersKeep(job[d])
           /\ row'[job[d]].state = "running"
           /\ row'[job[d]].attempts = row[job[d]].attempts + 1
           /\ row'[job[d]].owner = row[job[d]].owner
           /\ row'[job[d]].lease = row[job[d]].lease
           /\ row'[job[d]].dep = row[job[d]].dep
  <1>1. job[d] \in Jobs /\ row[job[d]] \in Rows
    BY DEF StartCommit, TypeInv, TypeOK, Plumbing
  <1>2. row'[job[d]] = Flush(row[job[d]], row[job[d]], Started(row[job[d]])) /\ OthersKeep(job[d])
    BY <1>1 DEF StartCommit, TypeInv, TypeOK, OthersKeep
  <1>3. Started(row[job[d]]) \in Rows
    BY <1>1, RowOps
  <1>4. /\ Started(row[job[d]]).state = "running"
        /\ Started(row[job[d]]).attempts = row[job[d]].attempts + 1
        /\ Started(row[job[d]]).dep = row[job[d]].dep
        /\ Started(row[job[d]]).owner = row[job[d]].owner
        /\ Started(row[job[d]]).lease = row[job[d]].lease
    BY <1>1 DEF Started, Rows
  <1> QED BY <1>1, <1>2, <1>3, <1>4, FlushFresh

\* fail_job, either way.
LEMMA FailEffect ==
    ASSUME TypeInv, NEW d \in Deliveries, seen[d] = row[job[d]],
           DeadLetter(d) \/ ScheduleRetry(d)
    PROVE  /\ job[d] \in Jobs /\ OthersKeep(job[d])
           /\ row'[job[d]].state = (IF Exhausted(d) THEN "dead" ELSE "scheduled")
           /\ row'[job[d]].attempts = row[job[d]].attempts
           /\ row'[job[d]].dep = row[job[d]].dep
  <1> DEFINE j == job[d]
  <1>1. j \in Jobs /\ row[j] \in Rows
    BY DEF DeadLetter, ScheduleRetry, TypeInv, TypeOK, Plumbing
  <1>2. Dead(row[j]) \in Rows /\ Retrying(row[j]) \in Rows
    BY <1>1, RowOps
  <1>3. CASE DeadLetter(d)
    <2>1. row'[j] = Flush(row[j], row[j], Dead(row[j])) /\ OthersKeep(j) /\ Exhausted(d)
      BY <1>1, <1>3 DEF DeadLetter, TypeInv, TypeOK, OthersKeep
    <2> QED BY <1>1, <1>2, <2>1, FlushFresh, RowOpColumns
  <1>4. CASE ScheduleRetry(d)
    <2>1. PICK b \in BOOLEAN :
            row' = [row EXCEPT ![job[d]] = [Flush(@, seen[d], Retrying(seen[d])) EXCEPT !.due = b]]
      BY <1>4 DEF ScheduleRetry
    <2>2. /\ row'[j] = [Flush(row[j], row[j], Retrying(row[j])) EXCEPT !.due = b]
          /\ OthersKeep(j) /\ ~Exhausted(d)
      BY <1>1, <1>4, <2>1 DEF ScheduleRetry, TypeInv, TypeOK, OthersKeep
    <2>3. /\ row'[j].state = Flush(row[j], row[j], Retrying(row[j])).state
          /\ row'[j].attempts = Flush(row[j], row[j], Retrying(row[j])).attempts
          /\ row'[j].dep = Flush(row[j], row[j], Retrying(row[j])).dep
      BY <2>2 DEF Flush
    <2> QED BY <1>1, <1>2, <2>2, <2>3, FlushFresh, RowOpColumns
  <1> QED BY <1>3, <1>4

\* complete_job: the job and its waiting dependents.
LEMMA CompleteEffect ==
    ASSUME TypeInv, NEW d \in Deliveries, seen[d] = row[job[d]],
           kids[d] = {k \in Jobs : row[k].dep = job[d]}, row[job[d]].dep = None,
           Complete(d)
    PROVE  /\ job[d] \in Jobs
           /\ row'[job[d]].state = "completed" /\ row'[job[d]].dep = None
           /\ row'[job[d]].attempts = row[job[d]].attempts
           /\ \A k \in Jobs : k # job[d] =>
                IF row[k].dep = job[d]
                THEN /\ row'[k].state = IF k \in ripe[d] THEN "queued" ELSE row[k].state
                     /\ row'[k].attempts = row[k].attempts /\ row'[k].dep = None
                     /\ row'[k].lease = row[k].lease
                ELSE row'[k] = row[k]
  <1> DEFINE j == job[d]
  <1>1. j \in Jobs /\ \A k \in Jobs : row[k] \in Rows
    BY DEF Complete, TypeInv, TypeOK, Plumbing
  <1>2. Finished(row[j]) \in Rows
    BY <1>1, RowOps
  <1>3. row'[j] = Flush(row[j], row[j], Finished(row[j]))
    BY <1>1 DEF Complete
  <1>4. \A k \in Jobs : k # j =>
          row'[k] = IF row[k].dep = j THEN Released(row[k], k \in ripe[d]) ELSE row[k]
    BY DEF Complete
  <1>5. ASSUME NEW k \in Jobs, k # j, row[k].dep = j
        PROVE  /\ row'[k].state = IF k \in ripe[d] THEN "queued" ELSE row[k].state
               /\ row'[k].attempts = row[k].attempts /\ row'[k].dep = None
               /\ row'[k].lease = row[k].lease
    <2>1. /\ row'[k] = Released(row[k], k \in ripe[d])
          /\ row[k] \in Rows /\ (k \in ripe[d]) \in BOOLEAN
      BY <1>1, <1>4, <1>5
    <2> QED BY <2>1 DEF Released, Rows
  <1> QED BY <1>1, <1>2, <1>3, <1>4, <1>5, FlushFresh, RowOpColumns

----------------------------------------------------------------------------
(* The steps.                                                               *)

\* A step that moves no delivery, and writes only rows nobody works on.
LEMMA Steady ==
    ASSUME TypeInv, Exclusive, UNCHANGED <<phase, job, by, seen, kids, ripe, alive>>,
           \A j \in Jobs :
              \/ row'[j] = row[j]
              \/ /\ \A d \in Deliveries : job[d] = j => phase[d] \notin InHand
                 /\ row'[j].dep = row[j].dep /\ Sound(row'[j])
    PROVE  Exclusive'
  <1> USE DEF TypeInv, TypeOK, Plumbing, Exclusive
  <1>1. \A j \in Jobs : row'[j].dep = row[j].dep /\ Sound(row'[j])
    OBVIOUS
  <1>2. ASSUME NEW d \in Deliveries, phase'[d] \in InHand PROVE Working(d)'
    <2>1. phase[d] \in InHand /\ Working(d) /\ job[d] \in Jobs
      BY <1>2 DEF InHand, Executing
    <2>2. row'[job[d]] = row[job[d]]
      BY <2>1
    <2> QED BY <1>1, <2>1, <2>2 DEF Working
  <1>3. \A d \in Deliveries : phase'[d] # "unused" => job'[d] \in Jobs /\ row'[job'[d]].dep = None
    BY <1>1
  <1> QED BY <1>1, <1>2, <1>3

\* A step that takes one delivery further, rewrites its job's row, and may
\* free the jobs that wait for that job.
LEMMA Advance ==
    ASSUME TypeInv, Exclusive, UNCHANGED <<job, by, alive>>,
           NEW d \in Deliveries, phase[d] \in InHand, phase'[d] # "unused",
           phase'[d] \in InHand => Working(d)',
           \A e \in Deliveries : e # d =>
              /\ phase'[e] = phase[e] /\ seen'[e] = seen[e]
              /\ kids'[e] = kids[e] /\ ripe'[e] = ripe[e],
           row'[job[d]].dep = None, Sound(row'[job[d]]),
           \A k \in Jobs : k # job[d] =>
              \/ row'[k] = row[k]
              \/ row[k].dep = job[d] /\ row'[k].dep = None /\ Sound(row'[k])
    PROVE  Exclusive'
  <1> USE DEF TypeInv, TypeOK, Plumbing, Exclusive
  <1>0. job[d] \in Jobs /\ job[d] # None
    BY JobsFinite DEF InHand, Executing
  <1>1. \A k \in Jobs : Sound(row'[k])
    BY <1>0
  <1>2. \A e \in Deliveries : e # d /\ phase[e] # "unused" /\ job[e] # job[d] =>
          job[e] \in Jobs /\ row'[job[e]] = row[job[e]]
    BY <1>0
  <1>3. ASSUME NEW e \in Deliveries, e # d, phase'[e] \in InHand PROVE Working(e)'
    <2>1. phase[e] \in InHand /\ Working(e) /\ phase[e] # "unused"
      BY <1>3 DEF InHand, Executing
    <2>2. job[e] # job[d] /\ job[e] # None
      BY <1>2, <1>3, <2>1, JobsFinite
    <2>3. job[e] \in Jobs /\ row'[job[e]] = row[job[e]]
      BY <1>2, <1>3, <2>1, <2>2
    <2>4. \A k \in Jobs : row'[k].dep = job[e] <=> row[k].dep = job[e]
      <3>1. row[job[d]].dep = None
        BY DEF InHand, Executing
      <3> QED BY <2>2, <3>1
    <2>5. kids'[e] = kids[e] /\ ripe'[e] = ripe[e] /\ seen'[e] = seen[e] /\ phase'[e] = phase[e]
      BY <1>3
    <2> QED BY <2>1, <2>3, <2>4, <2>5 DEF Working
  <1>4. \A e \in Deliveries : phase'[e] \in InHand => phase[e] \in InHand
    OBVIOUS
  <1>5. ASSUME NEW e \in Deliveries, phase'[e] # "unused" PROVE row'[job'[e]].dep = None
    <2>1. CASE job[e] = job[d]
      BY <2>1
    <2>2. CASE job[e] # job[d]
      <3>1. e # d /\ phase[e] # "unused"
        BY <1>5, <2>2
      <3> QED BY <1>2, <2>2, <3>1
    <2> QED BY <2>1, <2>2
  <1>6. \A e, f \in Deliveries :
          phase'[e] \in InHand /\ phase'[f] \in InHand /\ job'[e] = job'[f] => e = f
    BY <1>4
  <1> QED BY <1>1, <1>3, <1>5, <1>6

\* Initially nothing is in anybody's hands.
LEMMA ExclusiveInit == Init => Exclusive
  <1> SUFFICES ASSUME Init PROVE Exclusive
    OBVIOUS
  <1>1. \A j \in Jobs : Sound(row[j])
    BY DEF Init, NewRow, Sound, ACTIVE_STATES
  <1> QED BY <1>1 DEF Init, Exclusive, InHand, Executing

\* Each action, under Timely and without operators.
LEMMA ExclusiveNext ==
    ASSUME Regime, TypeInv, Exclusive, [Next]_vars
    PROVE  Exclusive'
  <1> USE DEF TypeInv, TypeOK, Plumbing, Exclusive
  <1>0. TypeInv'
    BY TypeNext
  <1>1. ASSUME NEW w \in Workers, NEW j \in Jobs, Claim(w, j) PROVE Exclusive'
    <2>1. used + 1 \in Deliveries /\ phase[used + 1] = "unused"
      BY <1>1, BoundsAssumption DEF Claim, Deliveries
    <2>2. PICK n \in Deliveries : n = used + 1 /\ phase[n] = "unused"
      BY <2>1
    <2>3. UNCHANGED <<seen, kids, ripe, alive>> /\ alive[w]
      BY <1>1 DEF Claim
    <2>4. job' = [job EXCEPT ![n] = j] /\ by' = [by EXCEPT ![n] = w]
      BY <1>1, <2>2 DEF Claim
    <2>5. PICK p \in {"held", "lost"} : phase' = [phase EXCEPT ![n] = p]
      BY <1>1, <2>2 DEF Claim
    <2>6. job'[n] = j /\ by'[n] = w /\ phase'[n] \in {"held", "lost"}
      BY <2>4, <2>5
    <2>7. \A e \in Deliveries : e # n => /\ job'[e] = job[e] /\ by'[e] = by[e]
                                           /\ phase'[e] = phase[e]
      BY <2>4, <2>5
    <2>8. /\ row[j].state = "queued" /\ row[j] \in Rows
          /\ row'[j] = Claimed(row[j], w)
          /\ \A k \in Jobs : k # j => row'[k] = row[k]
      <3>1. row[j].state = "queued" /\ row' = [row EXCEPT ![j] = Claimed(@, w)]
        BY <1>1 DEF Claim
      <3> QED BY <3>1
    <2>9. /\ row'[j].state = "claimed" /\ row'[j].owner = w /\ row'[j].lease = "live"
          /\ row'[j].dep = row[j].dep
      BY <2>8, RowOpLeases
    <2>10. row[j].dep = None
      BY <2>8 DEF Sound
    <2>11. \A k \in Jobs : row'[k].dep = row[k].dep /\ Sound(row'[k])
      <3>1. Sound(row'[j])
        BY <2>9, <2>10 DEF Sound
      <3> QED BY <2>8, <2>9, <3>1
    <2>12. ASSUME NEW e \in Deliveries, e # n, phase'[e] \in InHand
          PROVE  Working(e)' /\ job'[e] # j
      <3>1. phase[e] \in InHand /\ Working(e) /\ job[e] \in Jobs
        BY <2>3, <2>6, <2>7, <2>12 DEF InHand, Executing
      <3>2. job[e] # j
        BY <2>8, <3>1 DEF Working
      <3>3. row'[job[e]] = row[job[e]]
        BY <2>8, <3>1, <3>2
      <3>4. \A k \in Jobs : row'[k].dep = row[k].dep
        BY <2>11
      <3> QED BY <2>3, <2>6, <2>7, <2>12, <3>1, <3>2, <3>3, <3>4 DEF Working
    <2>13. phase'[n] \in InHand => Working(n)'
      BY <2>3, <2>6, <2>7, <2>9 DEF Working, InHand, Executing, InApi
    <2>14. \A e \in Deliveries :
              phase'[e] # "unused" => job'[e] \in Jobs /\ row'[job'[e]].dep = None
      BY <1>1, <2>3, <2>6, <2>7, <2>10, <2>11
    <2>15. \A e, f \in Deliveries :
             phase'[e] \in InHand /\ phase'[f] \in InHand /\ job'[e] = job'[f] => e = f
      BY <2>3, <2>6, <2>7, <2>12
    <2> QED BY <2>11, <2>12, <2>13, <2>14, <2>15
  <1>2. ASSUME NEW w \in Workers, Heartbeat(w) PROVE Exclusive'
    <2>1. UNCHANGED <<phase, job, by, seen, kids, ripe, alive>>
      BY <1>2 DEF Heartbeat
    <2>2. ASSUME NEW j \in Jobs, row'[j] # row[j]
          PROVE  /\ \A d \in Deliveries : job[d] = j => phase[d] \notin InHand
                 /\ row'[j].dep = row[j].dep /\ Sound(row'[j])
      <3>1. row'[j] = [row[j] EXCEPT !.lease = "live"] /\ row[j] \in Rows
        BY <1>2, <2>2 DEF Heartbeat
      <3>2. row[j].lease # "live"
        BY <2>2, <3>1 DEF Rows
      <3>3. row'[j].dep = row[j].dep /\ row'[j].state = row[j].state /\ row'[j].lease = "live"
        BY <3>1 DEF Rows
      <3> QED BY <3>2, <3>3 DEF Working, Sound
    <2> QED BY <2>1, <2>2, Steady
  <1>3. ASSUME NEW d \in Deliveries, StartRead(d) PROVE Exclusive'
    <2>1. /\ phase[d] = "held" /\ UNCHANGED <<row, job, by, alive, kids, ripe>>
          /\ \A e \in Deliveries : e # d => phase'[e] = phase[e] /\ seen'[e] = seen[e]
          /\ \/ phase'[d] = "starting" /\ seen'[d] = row[job[d]]
             \/ phase'[d] = "done"
      BY <1>3 DEF StartRead
    <2>2. Working(d) /\ phase[d] \in InHand /\ job[d] \in Jobs
      BY <2>1 DEF InHand
    <2>3. phase'[d] \in InHand => Working(d)'
      BY <2>1, <2>2 DEF Working, InHand, Executing
    <2>4. phase'[d] # "unused" /\ row'[job[d]].dep = None /\ Sound(row'[job[d]])
      BY <2>1, <2>2
    <2> QED BY <2>1, <2>2, <2>3, <2>4, Advance
  <1>4. ASSUME NEW d \in Deliveries, StartCommit(d) PROVE Exclusive'
    <2>1. /\ phase[d] = "starting" /\ UNCHANGED <<job, by, alive, kids, ripe>>
          /\ \A e \in Deliveries : e # d => phase'[e] = phase[e] /\ seen'[e] = seen[e]
          /\ phase'[d] \in {"running", "lost"} /\ (phase'[d] = "running" => alive[by[d]])
      BY <1>4 DEF StartCommit
    <2>2. Working(d) /\ phase[d] \in InHand /\ seen[d] = row[job[d]]
      BY <2>1 DEF InHand, InApi, Working
    <2>3. /\ job[d] \in Jobs /\ OthersKeep(job[d])
          /\ row'[job[d]].state = "running"
          /\ row'[job[d]].owner = row[job[d]].owner
          /\ row'[job[d]].lease = row[job[d]].lease
          /\ row'[job[d]].dep = row[job[d]].dep
      BY <1>4, <2>2, StartEffect
    <2>4. phase'[d] \in InHand => Working(d)'
      BY <2>1, <2>2, <2>3 DEF Working, InHand, Executing, InApi
    <2>5. row'[job[d]].dep = None /\ Sound(row'[job[d]])
      BY <2>1, <2>2, <2>3 DEF Working, Sound
    <2> QED BY <2>1, <2>2, <2>3, <2>4, <2>5, Advance DEF OthersKeep
  <1>5. ASSUME NEW d \in Deliveries, ResultRead(d) PROVE Exclusive'
    <2>1. /\ phase[d] = "running" /\ UNCHANGED <<row, job, by, alive, kids, ripe>>
          /\ \A e \in Deliveries : e # d => phase'[e] = phase[e] /\ seen'[e] = seen[e]
          /\ phase'[d] \in {"completing", "failing"} /\ seen'[d] = row[job[d]]
      BY <1>5 DEF ResultRead
    <2>2. Working(d) /\ phase[d] \in InHand /\ job[d] \in Jobs
      BY <2>1 DEF InHand, Executing
    <2>3. phase'[d] \in InHand => Working(d)'
      BY <2>1, <2>2 DEF Working, InHand, Executing
    <2>4. phase'[d] # "unused" /\ row'[job[d]].dep = None /\ Sound(row'[job[d]])
      BY <2>1, <2>2
    <2> QED BY <2>1, <2>2, <2>3, <2>4, Advance
  <1>6. ASSUME NEW d \in Deliveries, ReadDependents(d) PROVE Exclusive'
    <2>1. /\ phase[d] = "completing" /\ UNCHANGED <<row, job, by, alive, seen>>
          /\ \A e \in Deliveries : e # d =>
               phase'[e] = phase[e] /\ kids'[e] = kids[e] /\ ripe'[e] = ripe[e]
          /\ phase'[d] = "releasing" /\ kids'[d] = Waiting(d) /\ ripe'[d] \subseteq kids'[d]
      BY <1>6 DEF ReadDependents
    <2>2. Working(d) /\ phase[d] \in InHand /\ job[d] \in Jobs /\ job[d] # None
      BY <2>1, JobsFinite DEF InHand, Executing
    <2>3. Waiting(d) = {k \in Jobs : row[k].dep = job[d]}
      BY <2>2 DEF Waiting, Sound
    <2>4. Working(d)'
      BY <2>1, <2>2, <2>3 DEF Working, InHand, Executing, InApi
    <2>5. phase'[d] # "unused" /\ row'[job[d]].dep = None /\ Sound(row'[job[d]])
      BY <2>1, <2>2
    <2> QED BY <2>1, <2>2, <2>4, <2>5, Advance
  <1>7. ASSUME NEW d \in Deliveries, Complete(d) PROVE Exclusive'
    <2>1. /\ phase[d] = "releasing" /\ UNCHANGED <<job, by, alive>> /\ phase'[d] = "done"
          /\ \A e \in Deliveries : e # d => /\ phase'[e] = phase[e] /\ seen'[e] = seen[e]
                                           /\ kids'[e] = kids[e] /\ ripe'[e] = ripe[e]
      BY <1>7 DEF Complete
    <2>2. /\ phase[d] \in InHand /\ seen[d] = row[job[d]] /\ row[job[d]].dep = None
          /\ kids[d] = {k \in Jobs : row[k].dep = job[d]} /\ job[d] # None
      BY <2>1, JobsFinite DEF InHand, Executing, InApi, Working
    <2>3. /\ job[d] \in Jobs
          /\ row'[job[d]].state = "completed" /\ row'[job[d]].dep = None
          /\ \A k \in Jobs : k # job[d] =>
               IF row[k].dep = job[d]
               THEN /\ row'[k].state = IF k \in ripe[d] THEN "queued" ELSE row[k].state
                    /\ row'[k].dep = None
               ELSE row'[k] = row[k]
      BY <1>7, <2>2, CompleteEffect
    <2>4. Sound(row'[job[d]])
      BY <2>3 DEF Sound, ACTIVE_STATES
    <2>5. ASSUME NEW k \in Jobs, k # job[d], row[k].dep = job[d]
          PROVE  row'[k].dep = None /\ Sound(row'[k])
      <3>1. row[k].state = "scheduled"
        BY <2>2, <2>5 DEF Sound
      <3> QED BY <2>3, <2>5, <3>1 DEF Sound, ACTIVE_STATES
    <2>6. phase'[d] \notin InHand /\ phase'[d] # "unused"
      BY <2>1 DEF InHand, Executing
    <2> QED BY <2>1, <2>2, <2>3, <2>4, <2>5, <2>6, Advance
  <1>8. ASSUME NEW d \in Deliveries, DeadLetter(d) \/ ScheduleRetry(d) PROVE Exclusive'
    <2>1. /\ phase[d] = "failing" /\ UNCHANGED <<job, by, alive, kids, ripe>> /\ phase'[d] = "done"
          /\ \A e \in Deliveries : e # d => phase'[e] = phase[e] /\ seen'[e] = seen[e]
      BY <1>8 DEF DeadLetter, ScheduleRetry
    <2>2. phase[d] \in InHand /\ seen[d] = row[job[d]] /\ row[job[d]].dep = None
      BY <2>1 DEF InHand, Executing, InApi, Working
    <2>3. /\ job[d] \in Jobs /\ OthersKeep(job[d])
          /\ row'[job[d]].state \in {"dead", "scheduled"}
          /\ row'[job[d]].dep = row[job[d]].dep
      BY <1>8, <2>2, FailEffect
    <2>4. row'[job[d]].dep = None /\ Sound(row'[job[d]])
      BY <2>2, <2>3 DEF Sound, ACTIVE_STATES
    <2>5. phase'[d] \notin InHand /\ phase'[d] # "unused"
      BY <2>1 DEF InHand, Executing
    <2> QED BY <2>1, <2>2, <2>3, <2>4, <2>5, Advance DEF OthersKeep
  <1>9. ASSUME NEW d \in Deliveries, Drop(d) PROVE Exclusive'
    <2>1. /\ phase[d] \in InHand /\ UNCHANGED <<row, job, by, alive>> /\ phase'[d] = "lost"
          /\ \A e \in Deliveries : e # d => /\ phase'[e] = phase[e] /\ seen'[e] = seen[e]
                                           /\ kids'[e] = kids[e] /\ ripe'[e] = ripe[e]
      BY <1>9 DEF Drop, InHand, Executing, InApi
    <2>2. job[d] \in Jobs
      BY <2>1 DEF InHand, Executing
    <2>3. phase'[d] \notin InHand /\ phase'[d] # "unused"
      BY <2>1 DEF InHand, Executing
    <2>4. row'[job[d]].dep = None /\ Sound(row'[job[d]])
      BY <2>1, <2>2 DEF InHand, Executing
    <2> QED BY <2>1, <2>3, <2>4, Advance
  <1>10. ASSUME Promote PROVE Exclusive'
    <2>1. UNCHANGED <<phase, job, by, seen, kids, ripe, alive>>
      BY <1>10 DEF Promote
    <2>2. ASSUME NEW j \in Jobs, row'[j] # row[j]
          PROVE  /\ \A d \in Deliveries : job[d] = j => phase[d] \notin InHand
                 /\ row'[j].dep = row[j].dep /\ Sound(row'[j])
      <3>1. /\ row'[j] = [row[j] EXCEPT !.state = "queued"] /\ row[j] \in Rows
            /\ row[j].state = "scheduled" /\ row[j].dep = None
        BY <1>10, <2>2 DEF Promote, Promotable
      <3>2. row'[j].dep = None /\ row'[j].state = "queued"
        BY <3>1 DEF Rows
      <3> QED BY <3>1, <3>2 DEF Working, Sound, ACTIVE_STATES
    <2> QED BY <2>1, <2>2, Steady
  <1>11. ASSUME Reap PROVE Exclusive'
    <2>1. UNCHANGED <<phase, job, by, seen, kids, ripe, alive>>
      BY <1>11 DEF Reap
    <2>2. ASSUME NEW j \in Jobs, row'[j] # row[j]
          PROVE  /\ \A d \in Deliveries : job[d] = j => phase[d] \notin InHand
                 /\ row'[j].dep = row[j].dep /\ Sound(row'[j])
      <3>1. /\ row'[j] = Requeued(row[j]) /\ row[j] \in Rows
            /\ row[j].state \in ACTIVE_STATES /\ row[j].lease = "lapsed"
        BY <1>11, <2>2 DEF Reap, Expired
      <3>2. row'[j].dep = row[j].dep /\ row'[j].state = "queued"
        BY <3>1 DEF Requeued, Rows
      <3> QED BY <3>1, <3>2 DEF Working, Sound, ACTIVE_STATES
    <2> QED BY <2>1, <2>2, Steady
  <1>12. ASSUME NEW j \in Jobs, Ripen(j) PROVE Exclusive'
    <2>1. /\ UNCHANGED <<phase, job, by, seen, kids, ripe, alive>>
          /\ \A k \in Jobs : k # j => row'[k] = row[k]
          /\ row'[j] = [row[j] EXCEPT !.due = TRUE] /\ row[j] \in Rows
          /\ row[j].state \in {"queued", "scheduled"}
      BY <1>12 DEF Ripen
    <2>2. row'[j].dep = row[j].dep /\ row'[j].state = row[j].state /\ row'[j].lease = row[j].lease
      BY <2>1 DEF Rows
    <2>3. \A d \in Deliveries : job[d] = j => phase[d] \notin InHand
      BY <2>1 DEF Working
    <2>4. Sound(row'[j])
      BY <2>2 DEF Sound
    <2> QED BY <2>1, <2>2, <2>3, <2>4, Steady
  <1>13. ASSUME NEW j \in Jobs, Lapse(j) PROVE Exclusive'
    <2>1. /\ UNCHANGED <<phase, job, by, seen, kids, ripe, alive>>
          /\ \A k \in Jobs : k # j => row'[k] = row[k]
          /\ row'[j] = [row[j] EXCEPT !.lease = "lapsed"] /\ row[j] \in Rows
          /\ row[j].owner # None => ~alive[row[j].owner]
          /\ \A d \in Deliveries : job[d] = j => phase[d] \notin InApi
      BY <1>13 DEF Lapse, Regime
    <2>2. row'[j].dep = row[j].dep /\ row'[j].state = row[j].state /\ row'[j].lease = "lapsed"
      BY <2>1 DEF Rows
    <2>3. ASSUME NEW d \in Deliveries, job[d] = j, phase[d] \in InHand PROVE FALSE
      <3>1. phase[d] \in {"held", "running"}
        BY <2>1, <2>3 DEF InHand, Executing, InApi
      <3>2. alive[by[d]] /\ row[j].owner = by[d] /\ by[d] \in Workers
        BY <2>3, <3>1 DEF Working
      <3> QED BY <2>1, <3>2, WorkersAssumption
    <2>4. Sound(row'[j])
      BY <2>2 DEF Sound
    <2> QED BY <2>1, <2>2, <2>3, <2>4, Steady
  <1>14. ASSUME NEW w \in Mortal, Crash(w) PROVE Exclusive'
    <2>1. UNCHANGED <<row, job, by, seen, kids, ripe>>
      BY <1>14 DEF Crash
    <2>2. \A d \in Deliveries : /\ phase'[d] # "unused" => phase[d] # "unused"
                                /\ phase'[d] \in InHand => phase'[d] = phase[d]
      BY <1>14 DEF Crash, InHand, Executing
    <2>3. ASSUME NEW d \in Deliveries, phase'[d] \in InHand PROVE Working(d)'
      <3>1. phase'[d] = phase[d] /\ Working(d) /\ by[d] \in Workers
        BY <2>2, <2>3 DEF InHand, Executing
      <3>2. phase'[d] \in {"held", "running"} => by[d] # w
        BY <1>14, <3>1 DEF Crash
      <3>3. phase'[d] \in {"held", "running"} => alive'[by[d]]
        BY <1>14, <3>1, <3>2 DEF Crash, Working
      <3> QED BY <2>1, <3>1, <3>3 DEF Working
    <2> QED BY <2>1, <2>2, <2>3
  <1>15. ASSUME UNCHANGED vars PROVE Exclusive'
    <2>1. UNCHANGED <<row, phase, job, by, seen, kids, ripe, alive>>
      BY <1>15 DEF vars
    <2> QED BY <2>1, Steady
  <1> QED
    BY <1>1, <1>2, <1>3, <1>4, <1>5, <1>6, <1>7, <1>8, <1>9, <1>10, <1>11, <1>12,
       <1>13, <1>14, <1>15 DEF Next, DeliveryStep, Regime

\* The invariant holds in every reachable state of the regime.
LEMMA TimelyAlways == ASSUME Regime PROVE Spec => []TimelyInv
  <1>1. TimelyInv /\ [Next]_vars => TimelyInv'
    BY TypeNext, ExclusiveNext DEF TimelyInv
  <1>2. Init => TimelyInv
    BY TypeInit, ExclusiveInit DEF TimelyInv
  <1> QED BY <1>1, <1>2, PTL DEF Spec

\* One worker at a time executes a job.
THEOREM ExecutionIsSingle == ASSUME Regime PROVE Spec => []SingleExecution
  <1>1. TimelyInv => SingleExecution
    BY DEF TimelyInv, Exclusive, SingleExecution, InHand, Executing, InApi
  <1> QED BY <1>1, TimelyAlways, PTL

\* A job in a worker's hands has a lease by which the reaper can find it.
THEOREM ActiveJobsAreLeased == ASSUME Regime PROVE Spec => []ActiveIsLeased
  <1>1. TimelyInv => ActiveIsLeased
    BY DEF TimelyInv, Exclusive, Sound, ActiveIsLeased
  <1> QED BY <1>1, TimelyAlways, PTL

\* A dependent is executed only after its parent succeeded.
THEOREM DependentsWait == ASSUME Regime PROVE Spec => []DependentWaitsForParent
  <1>1. TimelyInv /\ Grounded => DependentWaitsForParent
    <2> SUFFICES ASSUME TimelyInv, Grounded, NEW j \in Jobs, Parent[j] # None,
                        NEW d \in Execs(j)
                 PROVE  Succeeded(Parent[j])
      BY DEF DependentWaitsForParent
    <2>1. d \in Deliveries /\ job[d] = j /\ phase[d] # "unused"
      BY DEF Execs, TimelyInv, TypeInv, Plumbing
    <2>2. row[j].dep = None
      BY <2>1 DEF TimelyInv, Exclusive
    <2> QED BY <2>2 DEF Grounded, ReleasedByParent
  <1> QED BY <1>1, TimelyAlways, GroundedAlways, PTL
=============================================================================
