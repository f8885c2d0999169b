------------------------- MODULE JobLifecycleProofs -------------------------
(* Theorems about JobLifecycle for any number of jobs, workers, operators,  *)
(* attempts and deliveries, with or without losses, crashes and timeliness. *)
EXTENDS JobLifecycle, FiniteSetTheorems, TLAPS

----------------------------------------------------------------------------
(* What the row operations keep.                                            *)

\* A flush of well-typed snapshots leaves a well-typed row, and each column
\* has its current value or the one the handler computed.
LEMMA FlushType ==
    ASSUME NEW c \in Rows, NEW o \in Rows, NEW n \in Rows
    PROVE  /\ Flush(c, o, n) \in Rows
           /\ Flush(c, o, n).state \in {c.state, n.state}
           /\ Flush(c, o, n).attempts \in {c.attempts, n.attempts}
           /\ Flush(c, o, n).dep = Merge(c.dep, o.dep, n.dep)
  BY DEF Flush, Merge, Rows

\* Columns a handler leaves alone survive its flush.
LEMMA FlushColumns ==
    ASSUME NEW c, NEW o, NEW n
    PROVE  /\ Flush(c, o, n).state = Merge(c.state, o.state, n.state)
           /\ Flush(c, o, n).attempts = Merge(c.attempts, o.attempts, n.attempts)
           /\ Flush(c, o, n).dep = Merge(c.dep, o.dep, n.dep)
  BY DEF Flush

\* What a row operation writes to the columns the invariants are about.
LEMMA RowOpColumns ==
    ASSUME NEW r \in Rows
    PROVE  /\ Started(r).state = "running" /\ Started(r).attempts = r.attempts + 1
           /\ Started(r).dep = r.dep
           /\ Finished(r).state = "completed" /\ Finished(r).attempts = r.attempts
           /\ Finished(r).dep = r.dep
           /\ Dead(r).state = "dead" /\ Dead(r).attempts = r.attempts
           /\ Dead(r).dep = r.dep
           /\ Retrying(r).state = "scheduled" /\ Retrying(r).attempts = r.attempts
           /\ Retrying(r).dep = r.dep
           /\ Cancelled(r).state = "cancelled" /\ Cancelled(r).attempts = r.attempts
           /\ Cancelled(r).dep = r.dep
           /\ Retried(r).state = "queued" /\ Retried(r).attempts = 0
           /\ Retried(r).dep = r.dep
  BY DEF Rows, Started, Finished, Dead, Retrying, Cancelled, Retried

\* Every transaction's row operation keeps rows well-typed.
LEMMA RowOps ==
    ASSUME NEW r \in Rows
    PROVE  /\ \A w \in Workers : Claimed(r, w) \in Rows
           /\ Started(r) \in Rows /\ Finished(r) \in Rows /\ Dead(r) \in Rows
           /\ Retrying(r) \in Rows /\ Cancelled(r) \in Rows /\ Retried(r) \in Rows
           /\ Requeued(r) \in Rows
           /\ \A b \in BOOLEAN : Released(r, b) \in Rows
  <1> USE DEF Rows, JobState, Lease
  <1>1. ASSUME NEW w \in Workers PROVE Claimed(r, w) \in Rows
    BY DEF Claimed
  <1>2. Started(r) \in Rows
    <2>1. r.attempts + 1 \in Nat
      OBVIOUS
    <2> QED BY <2>1 DEF Started
  <1>6. Finished(r) \in Rows
    BY DEF Finished
  <1>3. Dead(r) \in Rows /\ Retrying(r) \in Rows
    BY DEF Dead, Retrying
  <1>4. Cancelled(r) \in Rows /\ Retried(r) \in Rows /\ Requeued(r) \in Rows
    BY DEF Cancelled, Retried, Requeued
  <1>5. ASSUME NEW b \in BOOLEAN PROVE Released(r, b) \in Rows
    <2>1. CASE b
      BY <2>1 DEF Released
    <2>2. CASE ~b
      BY <2>2 DEF Released
    <2> QED BY <2>1, <2>2
  <1> QED BY <1>1, <1>2, <1>3, <1>4, <1>5, <1>6

\* So does setting one column.
LEMMA ColumnOps ==
    ASSUME NEW r \in Rows
    PROVE  /\ [r EXCEPT !.state = "queued"] \in Rows
           /\ [r EXCEPT !.lease = "live"] \in Rows
           /\ [r EXCEPT !.lease = "lapsed"] \in Rows
           /\ \A b \in BOOLEAN : [r EXCEPT !.due = b] \in Rows
  BY DEF Rows, JobState, Lease

\* A job as created, and the empty snapshot, are well-typed.
LEMMA BlankType == Blank \in Rows /\ \A j \in Jobs, b \in BOOLEAN : NewRow(j, b) \in Rows
  BY ParentAssumption DEF Blank, NewRow, Rows, JobState, Lease

----------------------------------------------------------------------------
(* Type correctness.  The commits write the row of a delivery's or a        *)
(* request's job, so typing them needs to know that there is one.           *)

Plumbing ==
    /\ \A d \in Deliveries : phase[d] = "unused" => d \notin dlq
    /\ \A d \in Deliveries : d > used => phase[d] = "unused"
    /\ \A d \in Deliveries : phase[d] # "unused" => job[d] \in Jobs /\ by[d] \in Workers
    /\ \A d \in Deliveries :
         /\ phase[d] \in {"unused", "held", "starting"} => exec[d] = "none"
         /\ phase[d] \in {"running", "completing", "releasing", "failing"} => exec[d] = "running"
         /\ phase[d] = "lost" => exec[d] \in {"none", "running"}
    /\ \A u \in Users : usr[u].op # "idle" => usr[u].job \in Jobs

TypeInv == TypeOK /\ Plumbing

\* Initial rows are well typed.
LEMMA TypeInit == Init => TypeInv
  <1> SUFFICES ASSUME Init PROVE TypeInv
    OBVIOUS
  <1> USE DEF Init
  <1>1. row \in [Jobs -> Rows]
    BY BlankType
  <1>2. usr \in [Users -> [op : {"idle", "cancelling", "retrying"},
                           job : Jobs \cup {None}, seen : Rows]]
    BY BlankType DEF Idle
  <1>3. TypeOK
    BY <1>1, <1>2, BlankType, BoundsAssumption DEF TypeOK, Phases, Deliveries
  <1>4. Plumbing
    BY <1>1, <1>2 DEF Plumbing, Idle
  <1> QED BY <1>3, <1>4 DEF TypeInv

\* Every handler leaves the rows well typed, one case per action.
LEMMA TypeNext == TypeInv /\ [Next]_vars => TypeInv'
  <1> SUFFICES ASSUME TypeInv, [Next]_vars PROVE TypeInv'
    OBVIOUS
  <1> USE DEF TypeInv
  <1>1. ASSUME NEW w \in Workers, NEW j \in Jobs, Claim(w, j) PROVE TypeInv'
    <2>1. used + 1 \in Deliveries /\ phase[used + 1] = "unused"
      BY <1>1, BoundsAssumption DEF Claim, Deliveries, TypeOK, Plumbing
    <2>2. row' \in [Jobs -> Rows]
      BY <1>1, RowOps DEF Claim, TypeOK
    <2>3. phase' \in [Deliveries -> Phases] /\ phase'[used + 1] \in {"held", "lost"}
      BY <1>1, <2>1 DEF Claim, TypeOK, Phases
    <2>4. TypeOK'
      BY <1>1, <2>1, <2>2, <2>3, BoundsAssumption DEF Claim, TypeOK
    <2>5. Plumbing'
      BY <1>1, <2>1, <2>3, BoundsAssumption DEF Claim, TypeOK, Plumbing, Deliveries
    <2> QED BY <2>4, <2>5
  <1>2. ASSUME NEW w \in Workers, Heartbeat(w) PROVE TypeInv'
    <2>1. row' \in [Jobs -> Rows]
      BY <1>2, ColumnOps DEF Heartbeat, TypeOK
    <2> QED BY <1>2, <2>1 DEF Heartbeat, TypeOK, Plumbing
  <1>3. ASSUME NEW d \in Deliveries, StartRead(d) PROVE TypeInv'
    <2>1. phase' \in [Deliveries -> Phases] /\ seen' \in [Deliveries -> Rows]
      BY <1>3 DEF StartRead, TypeOK, Phases, Plumbing
    <2>2. TypeOK'
      BY <1>3, <2>1 DEF StartRead, TypeOK
    <2>3. Plumbing'
      BY <1>3, <2>1 DEF StartRead, TypeOK, Plumbing
    <2> QED BY <2>2, <2>3
  <1>4. ASSUME NEW d \in Deliveries, StartCommit(d) PROVE TypeInv'
    <2>1. row' \in [Jobs -> Rows]
      BY <1>4, RowOps, FlushType DEF StartCommit, TypeOK, Plumbing
    <2>2. phase' \in [Deliveries -> Phases] /\ phase'[d] \in {"running", "lost"}
      BY <1>4 DEF StartCommit, TypeOK, Phases
    <2>3. TypeOK'
      BY <1>4, <2>1, <2>2, BlankType DEF StartCommit, TypeOK, ExecutionStatus
    <2>4. Plumbing'
      BY <1>4, <2>2 DEF StartCommit, TypeOK, Plumbing
    <2> QED BY <2>3, <2>4
  <1>5. ASSUME NEW d \in Deliveries, ResultRead(d) PROVE TypeInv'
    <2>1. phase' \in [Deliveries -> Phases] /\ phase'[d] \in {"completing", "failing"}
      BY <1>5 DEF ResultRead, TypeOK, Phases
    <2>2. TypeOK'
      BY <1>5, <2>1 DEF ResultRead, TypeOK, Plumbing
    <2>3. Plumbing'
      BY <1>5, <2>1 DEF ResultRead, TypeOK, Plumbing
    <2> QED BY <2>2, <2>3
  <1>6. ASSUME NEW d \in Deliveries, ReadDependents(d) PROVE TypeInv'
    <2>1. TypeOK'
      BY <1>6 DEF ReadDependents, Waiting, TypeOK, Phases
    <2>2. Plumbing'
      BY <1>6 DEF ReadDependents, TypeOK, Plumbing
    <2> QED BY <2>1, <2>2
  <1>7. ASSUME NEW d \in Deliveries, Complete(d) PROVE TypeInv'
    <2>1. row' \in [Jobs -> Rows]
      <3>1. ASSUME NEW k \in Jobs PROVE row'[k] \in Rows
        <4>1. Flush(row[k], seen[d], Finished(seen[d])) \in Rows
          BY RowOps, FlushType DEF TypeOK
        <4>2. Released(row[k], k \in ripe[d]) \in Rows
          <5>1. row[k] \in Rows /\ (k \in ripe[d]) \in BOOLEAN
            BY DEF TypeOK
          <5> QED BY <5>1, RowOps
        <4> QED BY <1>7, <4>1, <4>2 DEF Complete, TypeOK
      <3> QED BY <1>7, <3>1 DEF Complete
    <2>2. TypeOK'
      BY <1>7, <2>1, BlankType DEF Complete, TypeOK, Phases, ExecutionStatus
    <2>3. Plumbing'
      BY <1>7 DEF Complete, TypeOK, Plumbing
    <2> QED BY <2>2, <2>3
  <1>8. ASSUME NEW d \in Deliveries, DeadLetter(d) PROVE TypeInv'
    <2>1. row' \in [Jobs -> Rows]
      BY <1>8, RowOps, FlushType DEF DeadLetter, TypeOK, Plumbing
    <2>2. TypeOK'
      BY <1>8, <2>1, BlankType DEF DeadLetter, Letters, TypeOK, Phases, ExecutionStatus
    <2>3. Plumbing'
      BY <1>8 DEF DeadLetter, Letters, TypeOK, Plumbing
    <2> QED BY <2>2, <2>3
  <1>9. ASSUME NEW d \in Deliveries, ScheduleRetry(d) PROVE TypeInv'
    <2>1. row' \in [Jobs -> Rows]
      <3>1. PICK due \in BOOLEAN :
              row' = [row EXCEPT ![job[d]] =
                        [Flush(@, seen[d], Retrying(seen[d])) EXCEPT !.due = due]]
        BY <1>9 DEF ScheduleRetry
      <3>2. job[d] \in Jobs
        BY <1>9 DEF ScheduleRetry, Plumbing
      <3>3. Flush(row[job[d]], seen[d], Retrying(seen[d])) \in Rows
        BY <3>2, RowOps, FlushType DEF TypeOK
      <3>4. [Flush(row[job[d]], seen[d], Retrying(seen[d])) EXCEPT !.due = due] \in Rows
        BY <3>3 DEF Rows
      <3> QED BY <3>1, <3>2, <3>4 DEF TypeOK
    <2>2. TypeOK'
      BY <1>9, <2>1, BlankType DEF ScheduleRetry, TypeOK, Phases, ExecutionStatus
    <2>3. Plumbing'
      BY <1>9 DEF ScheduleRetry, TypeOK, Plumbing
    <2> QED BY <2>2, <2>3
  <1>10. ASSUME NEW d \in Deliveries, Drop(d) PROVE TypeInv'
    <2>1. TypeOK'
      BY <1>10, BlankType DEF Drop, TypeOK, Phases
    <2>2. Plumbing'
      BY <1>10 DEF Drop, TypeOK, Plumbing, InApi
    <2> QED BY <2>1, <2>2
  <1>11. CASE Promote
    <2>1. row' \in [Jobs -> Rows]
      BY <1>11, ColumnOps DEF Promote, TypeOK
    <2> QED BY <1>11, <2>1 DEF Promote, TypeOK, Plumbing
  <1>12. CASE Reap
    <2>1. row' \in [Jobs -> Rows]
      BY <1>12, RowOps DEF Reap, TypeOK
    <2> QED BY <1>12, <2>1 DEF Reap, TypeOK, Plumbing
  <1>13. ASSUME NEW u \in Users, UserStep(u) PROVE TypeInv'
    <2>1. ASSUME NEW j \in Jobs, CancelRead(u, j) \/ RetryRead(u, j) PROVE TypeInv'
      <3>1. usr' \in [Users -> [op : {"idle", "cancelling", "retrying"},
                                job : Jobs \cup {None}, seen : Rows]]
        BY <2>1 DEF CancelRead, RetryRead, Request, TypeOK
      <3>2. \A v \in Users : usr'[v].op # "idle" => usr'[v].job \in Jobs
        BY <2>1 DEF CancelRead, RetryRead, Request, TypeOK, Plumbing
      <3> QED BY <2>1, <3>1, <3>2 DEF CancelRead, RetryRead, TypeOK, Plumbing
    <2>2. CASE CancelCommit(u)
      <3>1. row' \in [Jobs -> Rows]
        BY <2>2, RowOps, FlushType DEF CancelCommit, TypeOK, Plumbing
      <3>2. usr' \in [Users -> [op : {"idle", "cancelling", "retrying"},
                                job : Jobs \cup {None}, seen : Rows]]
        BY <2>2, BlankType DEF CancelCommit, Answer, Idle, TypeOK
      <3>3. \A v \in Users : usr'[v].op # "idle" => usr'[v].job \in Jobs
        BY <2>2 DEF CancelCommit, Answer, Idle, TypeOK, Plumbing
      <3> QED BY <2>2, <3>1, <3>2, <3>3 DEF CancelCommit, TypeOK, Plumbing
    <2>3. CASE RetryCommit(u)
      <3>1. row' \in [Jobs -> Rows]
        <4>1. usr[u].job \in Jobs /\ usr[u].seen \in Rows
          BY <2>3 DEF RetryCommit, TypeOK, Plumbing
        <4>2. Flush(row[usr[u].job], usr[u].seen, Retried(usr[u].seen)) \in Rows
          BY <4>1, RowOps, FlushType DEF TypeOK
        <4>3. [Flush(row[usr[u].job], usr[u].seen, Retried(usr[u].seen))
                 EXCEPT !.due = TRUE] \in Rows
          BY <4>2 DEF Rows
        <4> QED BY <2>3, <4>1, <4>3 DEF RetryCommit, TypeOK
      <3>2. usr' \in [Users -> [op : {"idle", "cancelling", "retrying"},
                                job : Jobs \cup {None}, seen : Rows]]
        BY <2>3, BlankType DEF RetryCommit, Answer, Idle, TypeOK
      <3>3. \A v \in Users : usr'[v].op # "idle" => usr'[v].job \in Jobs
        BY <2>3 DEF RetryCommit, Answer, Idle, TypeOK, Plumbing
      <3> QED BY <2>3, <3>1, <3>2, <3>3 DEF RetryCommit, TypeOK, Plumbing
    <2> QED BY <1>13, <2>1, <2>2, <2>3 DEF UserStep
  <1>14. ASSUME NEW j \in Jobs, Ripen(j) \/ Lapse(j) PROVE TypeInv'
    <2>1. row' \in [Jobs -> Rows]
      <3>1. CASE Ripen(j)
        <4>1. [row[j] EXCEPT !.due = TRUE] \in Rows
          BY ColumnOps DEF TypeOK
        <4> QED BY <3>1, <4>1 DEF Ripen, TypeOK
      <3>2. CASE Lapse(j)
        <4>1. [row[j] EXCEPT !.lease = "lapsed"] \in Rows
          BY ColumnOps DEF TypeOK
        <4> QED BY <3>2, <4>1 DEF Lapse, TypeOK
      <3> QED BY <1>14, <3>1, <3>2
    <2> QED BY <1>14, <2>1 DEF Ripen, Lapse, TypeOK, Plumbing
  <1>15. ASSUME NEW w \in Mortal, Crash(w) PROVE TypeInv'
    <2>1. TypeOK'
      BY <1>15, WorkersAssumption DEF Crash, TypeOK, Phases
    <2>2. Plumbing'
      BY <1>15 DEF Crash, TypeOK, Plumbing
    <2> QED BY <2>1, <2>2
  <1>16. CASE UNCHANGED vars
    BY <1>16 DEF vars, TypeOK, Plumbing
  <1> QED
    BY <1>1, <1>2, <1>3, <1>4, <1>5, <1>6, <1>7, <1>8, <1>9, <1>10, <1>11,
       <1>12, <1>13, <1>14, <1>15, <1>16 DEF Next, DeliveryStep

\* Rows, requests and snapshots stay well-typed in every behaviour.
THEOREM TypeCorrect == Spec => []TypeOK
  <1>1. Spec => []TypeInv
    BY TypeInit, TypeNext, PTL DEF Spec
  <1> QED BY <1>1, PTL DEF TypeInv

----------------------------------------------------------------------------
(* What one step may do, whatever the action.                               *)

\* A delivery keeps its job; an execution row, once there, stays, and a
\* succeeded execution stays succeeded.
LEMMA DeliveryStep_Keeps ==
    ASSUME TypeInv, [Next]_vars
    PROVE  \A d \in Deliveries :
             /\ phase[d] # "unused" => job'[d] = job[d]
             /\ exec[d] # "none" => exec'[d] # "none"
             /\ exec[d] = "succeeded" => exec'[d] = "succeeded"
  <1> USE DEF TypeInv, TypeOK, Plumbing
  <1>1. ASSUME NEW w \in Workers, NEW j \in Jobs, Claim(w, j)
        PROVE  \A d \in Deliveries : phase[d] # "unused" => job'[d] = job[d]
    <2>1. used + 1 \in Deliveries /\ phase[used + 1] = "unused"
      BY <1>1, BoundsAssumption DEF Claim, Deliveries
    <2> QED BY <1>1, <2>1 DEF Claim
  <1>2. ASSUME NEW w \in Workers, NEW j \in Jobs, Claim(w, j) PROVE UNCHANGED exec
    BY <1>2 DEF Claim
  <1>3. ASSUME NEW e \in Deliveries, DeliveryStep(e) \/ Drop(e)
        PROVE  /\ UNCHANGED job
               /\ \/ UNCHANGED exec
                  \/ /\ exec[e] \in {"none", "running"}
                     /\ \E x \in {"running", "succeeded", "failed"} :
                          exec' = [exec EXCEPT ![e] = x]
    BY <1>3 DEF DeliveryStep, StartRead, StartCommit, ResultRead, ReadDependents,
                Complete, DeadLetter, ScheduleRetry, Drop
  <1>4. ASSUME \/ \E w \in Workers : Heartbeat(w)
               \/ Promote \/ Reap
               \/ \E u \in Users : UserStep(u)
               \/ \E j \in Jobs : Ripen(j) \/ Lapse(j)
               \/ \E w \in Mortal : Crash(w)
               \/ UNCHANGED vars
        PROVE  UNCHANGED <<job, exec>>
    BY <1>4 DEF Heartbeat, Promote, Reap, UserStep, CancelRead, CancelCommit,
                RetryRead, RetryCommit, Ripen, Lapse, Crash, vars
  <1> QED
    <2>1. CASE \E w \in Workers, j \in Jobs : Claim(w, j)
      BY <2>1, <1>1, <1>2
    <2>2. CASE \E e \in Deliveries : DeliveryStep(e) \/ Drop(e)
      <3>1. PICK e \in Deliveries : DeliveryStep(e) \/ Drop(e)
        BY <2>2
      <3>2. UNCHANGED job
        BY <3>1, <1>3
      <3>3. UNCHANGED exec \/ \E x \in {"running", "succeeded", "failed"} :
                                exec[e] # "succeeded" /\ exec' = [exec EXCEPT ![e] = x]
        BY <3>1, <1>3
      <3> QED BY <3>2, <3>3
    <2> QED BY <2>1, <2>2, <1>4 DEF Next

\* The columns a step can change: attempts only by a start or a manual retry,
\* DEAD only with a dead letter, COMPLETED only by a completion, and the
\* dependency only by the completion that loaded the job as a dependent.
RowStep(j) ==
    /\ \/ row'[j].attempts = row[j].attempts
       \/ row'[j].attempts = 0
       \/ \E d \in Deliveries : /\ StartCommit(d) /\ job[d] = j
                                /\ row'[j].attempts = seen[d].attempts + 1
    /\ row'[j].state = "dead" =>
         row[j].state = "dead" \/ \E d \in Deliveries : DeadLetter(d) /\ job[d] = j
    /\ row'[j].state = "completed" =>
         row[j].state = "completed" \/ \E d \in Deliveries : Complete(d) /\ job[d] = j
    /\ \/ row'[j].dep = row[j].dep
       \/ row'[j].dep = None /\ \E d \in Deliveries : Complete(d) /\ j \in kids[d]

\* What a step can do to one row, the summary the action properties use.
LEMMA RowSteps ==
    ASSUME TypeInv, [Next]_vars, NEW j \in Jobs
    PROVE  RowStep(j)
  <1> USE DEF TypeInv, TypeOK, Plumbing, Rows
  <1>1. ASSUME row'[j] = row[j] PROVE RowStep(j)
    BY <1>1 DEF RowStep
  <1>2. ASSUME NEW w \in Workers, NEW k \in Jobs, Claim(w, k) PROVE RowStep(j)
    BY <1>2 DEF Claim, Claimed, RowStep
  <1>3. ASSUME NEW w \in Workers, Heartbeat(w) PROVE RowStep(j)
    BY <1>3 DEF Heartbeat, RowStep
  <1>4. CASE Promote
    BY <1>4 DEF Promote, RowStep
  <1>5. CASE Reap
    <2>1. CASE j \notin Expired
      BY <1>5, <1>1, <2>1 DEF Reap
    <2>2. CASE j \in Expired
      <3>1. row'[j] = Requeued(row[j]) /\ row[j] \in Rows
        BY <1>5, <2>2 DEF Reap
      <3>2. /\ row'[j].state = "queued" /\ row'[j].attempts = row[j].attempts
            /\ row'[j].dep = row[j].dep
        BY <3>1 DEF Requeued
      <3> QED BY <3>2 DEF RowStep
    <2> QED BY <2>1, <2>2
  <1>6. ASSUME NEW k \in Jobs, Ripen(k) \/ Lapse(k) PROVE RowStep(j)
    BY <1>6 DEF Ripen, Lapse, RowStep
  <1>7. ASSUME NEW d \in Deliveries, StartCommit(d) PROVE RowStep(j)
    <2>1. CASE j # job[d]
      BY <1>7, <1>1, <2>1 DEF StartCommit
    <2>2. CASE j = job[d]
      <3>1. row'[j] = Flush(row[j], seen[d], Started(seen[d]))
        BY <1>7, <2>2 DEF StartCommit
      <3> QED BY <1>7, <2>2, <3>1, FlushColumns, RowOpColumns DEF Merge, RowStep
    <2> QED BY <2>1, <2>2
  <1>8. ASSUME NEW d \in Deliveries, Complete(d) PROVE RowStep(j)
    <2>1. CASE j = job[d]
      <3>1. row'[j] = Flush(row[j], seen[d], Finished(seen[d]))
        BY <1>8, <2>1 DEF Complete
      <3> QED BY <1>8, <2>1, <3>1, FlushColumns, RowOpColumns DEF Merge, RowStep
    <2>2. CASE j # job[d] /\ j \in kids[d]
      <3>1. row'[j] = Released(row[j], j \in ripe[d]) /\ row[j] \in Rows
        BY <1>8, <2>2 DEF Complete
      <3>2. /\ row'[j].state \in {row[j].state, "queued"}
            /\ row'[j].attempts = row[j].attempts /\ row'[j].dep = None
        BY <3>1 DEF Released
      <3> QED BY <1>8, <2>2, <3>2 DEF RowStep
    <2>3. CASE j # job[d] /\ j \notin kids[d]
      BY <1>8, <1>1, <2>3 DEF Complete
    <2> QED BY <2>1, <2>2, <2>3
  <1>9. ASSUME NEW d \in Deliveries, DeadLetter(d) PROVE RowStep(j)
    <2>1. CASE j # job[d]
      BY <1>9, <1>1, <2>1 DEF DeadLetter
    <2>2. CASE j = job[d]
      <3>1. row'[j] = Flush(row[j], seen[d], Dead(seen[d]))
        BY <1>9, <2>2 DEF DeadLetter
      <3> QED BY <1>9, <2>2, <3>1, FlushColumns, RowOpColumns DEF Merge, RowStep
    <2> QED BY <2>1, <2>2
  <1>10. ASSUME NEW d \in Deliveries, ScheduleRetry(d) PROVE RowStep(j)
    <2>1. CASE j # job[d]
      BY <1>10, <1>1, <2>1 DEF ScheduleRetry
    <2>2. CASE j = job[d]
      <3>1. PICK b \in BOOLEAN : row'[j] = [Flush(row[j], seen[d], Retrying(seen[d])) EXCEPT !.due = b]
        BY <1>10, <2>2 DEF ScheduleRetry
      <3>2. /\ row'[j].state = Flush(row[j], seen[d], Retrying(seen[d])).state
            /\ row'[j].attempts = Flush(row[j], seen[d], Retrying(seen[d])).attempts
            /\ row'[j].dep = Flush(row[j], seen[d], Retrying(seen[d])).dep
        BY <3>1 DEF Flush
      <3>3. /\ row'[j].state \in {row[j].state, "scheduled"}
            /\ row'[j].attempts = row[j].attempts /\ row'[j].dep = row[j].dep
        <4>1. /\ Retrying(seen[d]).state = "scheduled"
              /\ Retrying(seen[d]).attempts = seen[d].attempts
              /\ Retrying(seen[d]).dep = seen[d].dep
          BY RowOpColumns
        <4> QED BY <3>2, <4>1, FlushColumns DEF Merge
      <3> QED BY <3>3 DEF RowStep
    <2> QED BY <2>1, <2>2
  <1>11. ASSUME NEW u \in Users, CancelCommit(u) PROVE RowStep(j)
    <2>1. CASE j # usr[u].job
      BY <1>11, <1>1, <2>1 DEF CancelCommit
    <2>2. CASE j = usr[u].job
      <3>1. row'[j] = Flush(row[j], usr[u].seen, Cancelled(usr[u].seen))
        BY <1>11, <2>2 DEF CancelCommit
      <3> QED BY <1>11, <2>2, <3>1, FlushColumns, RowOpColumns DEF Merge, RowStep
    <2> QED BY <2>1, <2>2
  <1>12. ASSUME NEW u \in Users, RetryCommit(u) PROVE RowStep(j)
    <2>1. CASE j # usr[u].job
      BY <1>12, <1>1, <2>1 DEF RetryCommit
    <2>2. CASE j = usr[u].job
      <3>1. PICK b \in BOOLEAN : row'[j] = [Flush(row[j], usr[u].seen, Retried(usr[u].seen)) EXCEPT !.due = b]
        BY <1>12, <2>2 DEF RetryCommit
      <3>2. /\ row'[j].state = Flush(row[j], usr[u].seen, Retried(usr[u].seen)).state
            /\ row'[j].attempts = Flush(row[j], usr[u].seen, Retried(usr[u].seen)).attempts
            /\ row'[j].dep = Flush(row[j], usr[u].seen, Retried(usr[u].seen)).dep
        BY <3>1 DEF Flush
      <3>3. /\ row'[j].state \in {row[j].state, "queued"}
            /\ row'[j].attempts \in {row[j].attempts, 0} /\ row'[j].dep = row[j].dep
        <4>1. usr[u].seen \in Rows
          OBVIOUS
        <4> QED BY <3>2, <4>1, FlushColumns, RowOpColumns DEF Merge
      <3> QED BY <3>3 DEF RowStep
    <2> QED BY <2>1, <2>2
  <1>13. ASSUME \/ \E d \in Deliveries : \/ StartRead(d) \/ ResultRead(d)
                                         \/ ReadDependents(d) \/ Drop(d)
                \/ \E u \in Users, k \in Jobs : CancelRead(u, k) \/ RetryRead(u, k)
                \/ \E w \in Mortal : Crash(w)
                \/ UNCHANGED vars
         PROVE RowStep(j)
    BY <1>13, <1>1 DEF StartRead, ResultRead, ReadDependents, Drop, CancelRead,
                       RetryRead, Crash, vars
  <1> QED BY <1>2, <1>3, <1>4, <1>5, <1>6, <1>7, <1>8, <1>9, <1>10, <1>11,
             <1>12, <1>13 DEF Next, DeliveryStep, UserStep

\* The execution rows of a job only become more.
LEMMA ExecsGrow ==
    ASSUME TypeInv, [Next]_vars, NEW j \in Jobs
    PROVE  /\ Cardinality(Execs(j)) \in Nat
           /\ Cardinality(Execs(j)') \in Nat
           /\ Cardinality(Execs(j)) <= Cardinality(Execs(j)')
           /\ Succeeded(j) => Succeeded(j)'
  <1>1. IsFiniteSet(Deliveries)
    BY FS_Interval, BoundsAssumption DEF Deliveries
  <1>2. Execs(j) \subseteq Deliveries /\ Execs(j)' \subseteq Deliveries
    BY DEF Execs
  <1>3. Execs(j) \subseteq Execs(j)'
    BY DeliveryStep_Keeps DEF Execs, TypeInv, Plumbing
  <1>4. IsFiniteSet(Execs(j)) /\ IsFiniteSet(Execs(j)')
    BY <1>1, <1>2, FS_Subset
  <1>5. Cardinality(Execs(j)) <= Cardinality(Execs(j)')
    BY <1>3, <1>4, FS_Subset
  <1>6. Succeeded(j) => Succeeded(j)'
    BY <1>3, DeliveryStep_Keeps DEF Succeeded, Execs
  <1> QED BY <1>4, <1>5, <1>6, FS_CardinalityType

----------------------------------------------------------------------------
(* Attempts and dead letters.  jobs.attempts is read, incremented in Python *)
(* and written back, so the bound must also hold of every snapshot that a   *)
(* handler or an operator's request still carries.                          *)

Counted ==
    /\ AttemptsCounted
    /\ \A d \in Deliveries :
         phase[d] \in InApi => seen[d].attempts <= Cardinality(Execs(job[d]))
    /\ \A u \in Users :
         usr[u].op # "idle" => usr[u].seen.attempts <= Cardinality(Execs(usr[u].job))
    /\ \A d \in dlq :
         /\ phase[d] # "unused"
         /\ Cardinality(Execs(job[d])) >= MaxAttempts

\* A snapshot in use is an old one, or the row as it is.
LEMMA Snapshots ==
    ASSUME TypeInv, [Next]_vars
    PROVE  /\ \A d \in Deliveries : phase'[d] \in InApi =>
                /\ phase[d] # "unused"
                /\ \/ phase[d] \in InApi /\ seen'[d] = seen[d]
                   \/ seen'[d] = row[job[d]]
           /\ \A u \in Users : usr'[u].op # "idle" =>
                \/ usr[u].op # "idle" /\ usr'[u] = usr[u]
                \/ usr'[u].job \in Jobs /\ usr'[u].seen = row[usr'[u].job]
  <1> USE DEF TypeInv, TypeOK, Plumbing, InApi
  <1>1. ASSUME NEW w \in Workers, NEW j \in Jobs, Claim(w, j)
        PROVE  /\ UNCHANGED <<seen, usr>>
               /\ \A d \in Deliveries : phase'[d] \in InApi => phase[d] \in InApi
    BY <1>1 DEF Claim
  <1>2. ASSUME NEW e \in Deliveries, DeliveryStep(e) \/ Drop(e)
        PROVE  /\ UNCHANGED usr
               /\ \A d \in Deliveries \ {e} : phase'[d] = phase[d] /\ seen'[d] = seen[d]
               /\ phase'[e] \in InApi =>
                    /\ phase[e] # "unused"
                    /\ \/ phase[e] \in InApi /\ seen'[e] = seen[e]
                       \/ seen'[e] = row[job[e]]
    <2>1. CASE StartRead(e)
      BY <2>1 DEF StartRead
    <2>2. CASE StartCommit(e)
      BY <2>2 DEF StartCommit
    <2>3. CASE ResultRead(e)
      BY <2>3 DEF ResultRead
    <2>4. CASE ReadDependents(e)
      BY <2>4 DEF ReadDependents
    <2>5. CASE Complete(e) \/ DeadLetter(e) \/ ScheduleRetry(e) \/ Drop(e)
      BY <2>5 DEF Complete, DeadLetter, ScheduleRetry, Drop
    <2> QED BY <1>2, <2>1, <2>2, <2>3, <2>4, <2>5 DEF DeliveryStep
  <1>3. ASSUME NEW v \in Users, UserStep(v)
        PROVE  /\ UNCHANGED <<phase, seen>>
               /\ \A u \in Users : usr'[u].op # "idle" =>
                    \/ usr[u].op # "idle" /\ usr'[u] = usr[u]
                    \/ usr'[u].job \in Jobs /\ usr'[u].seen = row[usr'[u].job]
    BY <1>3 DEF UserStep, CancelRead, RetryRead, CancelCommit, RetryCommit,
                Request, Answer, Idle
  <1>4. ASSUME \/ \E w \in Workers : Heartbeat(w)
               \/ Promote \/ Reap
               \/ \E j \in Jobs : Ripen(j) \/ Lapse(j)
               \/ UNCHANGED vars
        PROVE  UNCHANGED <<phase, seen, usr>>
    BY <1>4 DEF Heartbeat, Promote, Reap, Ripen, Lapse, vars
  <1>5. ASSUME NEW w \in Mortal, Crash(w)
        PROVE  /\ UNCHANGED <<seen, usr>>
               /\ \A d \in Deliveries : phase'[d] \in InApi => phase[d] \in InApi
    BY <1>5 DEF Crash
  <1> QED
    <2>1. CASE \E e \in Deliveries : DeliveryStep(e) \/ Drop(e)
      <3>1. PICK e \in Deliveries : DeliveryStep(e) \/ Drop(e)
        BY <2>1
      <3> QED BY <3>1, <1>2
    <2>2. CASE \E v \in Users : UserStep(v)
      BY <2>2, <1>3
    <2>3. CASE (\E w \in Workers, j \in Jobs : Claim(w, j)) \/ (\E w \in Mortal : Crash(w))
      BY <2>3, <1>1, <1>5
    <2> QED BY <2>1, <2>2, <2>3, <1>4 DEF Next

\* Opening an execution adds one row for the job.
LEMMA StartAddsExec ==
    ASSUME TypeInv, NEW j \in Jobs, NEW d \in Deliveries, job[d] = j, StartCommit(d)
    PROVE  Cardinality(Execs(j)') = Cardinality(Execs(j)) + 1
  <1>1. d \notin Execs(j)
    BY DEF StartCommit, Execs, TypeInv, Plumbing
  <1>2. Execs(j)' = Execs(j) \cup {d}
    BY DEF StartCommit, Execs, TypeInv, TypeOK
  <1>3. IsFiniteSet(Execs(j))
    <2>1. Execs(j) \subseteq Deliveries /\ IsFiniteSet(Deliveries)
      BY FS_Interval, BoundsAssumption DEF Execs, Deliveries
    <2> QED BY <2>1, FS_Subset
  <1> QED BY <1>1, <1>2, <1>3, FS_AddElement

\* A fresh row agrees with its (empty) execution and log counts.
LEMMA CountedInit == Init => Counted
  <1> SUFFICES ASSUME Init PROVE Counted
    OBVIOUS
  <1>1. ASSUME NEW j \in Jobs PROVE row[j].attempts <= Cardinality(Execs(j))
    <2>1. Execs(j) = {}
      BY DEF Init, Execs
    <2> QED BY <2>1, FS_EmptySet DEF Init, NewRow
  <1> QED BY <1>1 DEF Init, Counted, AttemptsCounted, InApi, Idle

\* Every handler keeps the row in agreement with its counts.
LEMMA CountedNext == TypeInv /\ Counted /\ [Next]_vars => Counted'
  <1> SUFFICES ASSUME TypeInv, Counted, [Next]_vars PROVE Counted'
    OBVIOUS
  <1>1. AttemptsCounted'
    <2> SUFFICES ASSUME NEW j \in Jobs
                 PROVE  row'[j].attempts <= Cardinality(Execs(j)')
      BY DEF AttemptsCounted, Execs
    <2>1. row[j].attempts \in Nat /\ row[j].attempts <= Cardinality(Execs(j))
      BY DEF TypeInv, TypeOK, Rows, Counted, AttemptsCounted
    <2>2. CASE row'[j].attempts = row[j].attempts \/ row'[j].attempts = 0
      BY <2>1, <2>2, ExecsGrow
    <2>3. ASSUME NEW d \in Deliveries, StartCommit(d), job[d] = j,
                 row'[j].attempts = seen[d].attempts + 1
          PROVE  row'[j].attempts <= Cardinality(Execs(j)')
      <3>1. seen[d].attempts <= Cardinality(Execs(j)) /\ seen[d].attempts \in Nat
        BY <2>3 DEF StartCommit, Counted, InApi, TypeInv, TypeOK, Rows
      <3>2. Cardinality(Execs(j)') = Cardinality(Execs(j)) + 1
        BY <2>3, StartAddsExec
      <3> QED BY <2>3, <3>1, <3>2, ExecsGrow
    <2> QED BY <2>2, <2>3, RowSteps DEF RowStep
  <1>2. ASSUME NEW d \in Deliveries, phase'[d] \in InApi
        PROVE  (seen[d].attempts <= Cardinality(Execs(job[d])))'
    <2>1. phase[d] # "unused" /\ job'[d] = job[d] /\ job[d] \in Jobs
      BY <1>2, Snapshots, DeliveryStep_Keeps DEF TypeInv, Plumbing
    <2>2. PICK j \in Jobs : job[d] = j /\ job'[d] = j
      BY <2>1
    <2>3. seen'[d].attempts <= Cardinality(Execs(j))
      BY <1>2, <2>2, Snapshots DEF Counted, AttemptsCounted
    <2>4. seen'[d].attempts \in Nat
      BY TypeNext DEF TypeInv, TypeOK, Rows
    <2>5. seen'[d].attempts <= Cardinality(Execs(j)')
      BY <2>3, <2>4, ExecsGrow
    <2> QED BY <2>2, <2>5 DEF Execs
  <1>3. ASSUME NEW u \in Users, usr'[u].op # "idle"
        PROVE  (usr[u].seen.attempts <= Cardinality(Execs(usr[u].job)))'
    <2>1. PICK j \in Jobs : usr'[u].job = j
      BY <1>3, TypeNext DEF TypeInv, Plumbing
    <2>2. usr'[u].seen.attempts <= Cardinality(Execs(j))
      BY <1>3, <2>1, Snapshots DEF Counted, AttemptsCounted
    <2>3. usr'[u].seen.attempts \in Nat
      BY TypeNext DEF TypeInv, TypeOK, Rows
    <2>4. usr'[u].seen.attempts <= Cardinality(Execs(j)')
      BY <2>2, <2>3, ExecsGrow
    <2> QED BY <2>1, <2>4 DEF Execs
  <1>4. ASSUME NEW d \in dlq'
        PROVE  (phase[d] # "unused" /\ Cardinality(Execs(job[d])) >= MaxAttempts)'
    <2>1. d \in dlq \/ DeadLetter(d)
      <3>1. ASSUME NEW e \in Deliveries, DeadLetter(e) PROVE dlq' = dlq \cup {e}
        BY <3>1 DEF DeadLetter, Letters
      <3>2. dlq' = dlq \/ \E e \in Deliveries : DeadLetter(e)
        BY DEF Next, vars, Claim, Heartbeat, DeliveryStep, StartRead, StartCommit,
               ResultRead, ReadDependents, Complete, ScheduleRetry, Drop, Promote,
               Reap, UserStep, CancelRead, CancelCommit, RetryRead, RetryCommit,
               Ripen, Lapse, Crash
      <3> QED BY <1>4, <3>1, <3>2
    <2>2. d \in Deliveries /\ phase[d] # "unused"
      BY <1>4, <2>1, TypeNext DEF DeadLetter, Counted, TypeInv, TypeOK
    <2>3. PICK j \in Jobs : job[d] = j /\ job'[d] = j
      BY <2>2, DeliveryStep_Keeps DEF TypeInv, Plumbing
    <2>4. Cardinality(Execs(j)) >= MaxAttempts
      <3>1. CASE d \in dlq
        BY <2>3, <3>1 DEF Counted
      <3>2. CASE DeadLetter(d)
        <4>1. seen[d].attempts >= MaxAttempts /\ seen[d].attempts \in Nat
          BY <3>2, <2>2 DEF DeadLetter, Exhausted, TypeInv, TypeOK, Rows
        <4>2. seen[d].attempts <= Cardinality(Execs(j))
          BY <3>2, <2>2, <2>3 DEF DeadLetter, Counted, InApi
        <4> QED BY <4>1, <4>2, ExecsGrow, BoundsAssumption
      <3> QED BY <2>1, <3>1, <3>2
    <2>5. phase'[d] # "unused"
      BY <1>4, TypeNext DEF TypeInv, TypeOK, Plumbing
    <2>6. Cardinality(Execs(j)') >= MaxAttempts
      BY <2>4, ExecsGrow, BoundsAssumption
    <2> QED BY <2>3, <2>5, <2>6 DEF Execs
  <1> QED BY <1>1, <1>2, <1>3, <1>4 DEF Counted

\* The attempt counter never runs ahead of the execution history.
THEOREM AttemptsAreCounted == Spec => []AttemptsCounted
  <1>1. Spec => [](TypeInv /\ Counted)
    BY TypeInit, TypeNext, CountedInit, CountedNext, PTL DEF Spec
  <1> QED BY <1>1, PTL DEF Counted

\* No job is dead-lettered before it has had max_attempts executions.
THEOREM DeadLettersAreEarned == Spec => []DeadLetteredAfterAllAttempts
  <1>1. Spec => [](TypeInv /\ Counted)
    BY TypeInit, TypeNext, CountedInit, CountedNext, PTL DEF Spec
  <1>2. Counted => DeadLetteredAfterAllAttempts
    BY DEF Counted, DeadLetteredAfterAllAttempts
  <1> QED BY <1>1, <1>2, PTL

----------------------------------------------------------------------------
(* DEAD, COMPLETED and released mean what they say.                         *)

Grounded ==
    /\ DeadHasLetter
    /\ CompletedHasSuccess
    /\ \A j \in Jobs : row[j].dep \in {None, Parent[j]}
    /\ \A d \in Deliveries : \A k \in kids[d] :
         phase[d] # "unused" /\ Parent[k] = job[d]
    /\ ReleasedByParent

\* Initially no row claims a history it does not have.
LEMMA GroundedInit == Init => Grounded
  BY DEF Init, NewRow, Grounded, DeadHasLetter, CompletedHasSuccess, ReleasedByParent

\* A completion leaves a succeeded execution of its job.
LEMMA CompleteSucceeds ==
    ASSUME TypeInv, NEW j \in Jobs, NEW d \in Deliveries, Complete(d), job[d] = j
    PROVE  Succeeded(j)'
  BY DEF Complete, Succeeded, Execs, TypeInv, TypeOK

\* A delivery number is used once.
LEMMA PhaseStaysUsed ==
    ASSUME TypeInv, [Next]_vars, NEW d \in Deliveries, phase[d] # "unused"
    PROVE  phase'[d] # "unused"
  <1> USE DEF TypeInv, TypeOK
  <1>1. ASSUME NEW w \in Workers, NEW j \in Jobs, Claim(w, j) PROVE phase'[d] # "unused"
    BY <1>1 DEF Claim
  <1>2. ASSUME NEW e \in Deliveries, StartRead(e) \/ StartCommit(e)
        PROVE  phase'[d] # "unused"
    BY <1>2 DEF StartRead, StartCommit
  <1>3. ASSUME NEW e \in Deliveries,
               \/ ResultRead(e) \/ ReadDependents(e) \/ Complete(e)
               \/ DeadLetter(e) \/ ScheduleRetry(e) \/ Drop(e)
        PROVE  phase'[d] # "unused"
    BY <1>3 DEF ResultRead, ReadDependents, Complete, DeadLetter, ScheduleRetry, Drop
  <1>4. ASSUME NEW w \in Mortal, Crash(w) PROVE phase'[d] # "unused"
    BY <1>4 DEF Crash
  <1>5. ASSUME \/ \E w \in Workers : Heartbeat(w)
               \/ Promote \/ Reap
               \/ \E u \in Users : UserStep(u)
               \/ \E j \in Jobs : Ripen(j) \/ Lapse(j)
               \/ UNCHANGED vars
        PROVE  UNCHANGED phase
    BY <1>5 DEF Heartbeat, Promote, Reap, UserStep, CancelRead, CancelCommit,
                RetryRead, RetryCommit, Ripen, Lapse, vars
  <1> QED BY <1>1, <1>2, <1>3, <1>4, <1>5 DEF Next, DeliveryStep

\* The dependents a handler has loaded are those its own read found.
LEMMA KidsStep ==
    ASSUME TypeInv, [Next]_vars, NEW d \in Deliveries, NEW k \in kids'[d]
    PROVE  k \in kids[d] \/ (/\ phase[d] = "completing" /\ k \in Jobs
                             /\ row[k].dep = job[d])
  <1>1. ASSUME NEW e \in Deliveries, ReadDependents(e)
        PROVE  k \in kids[d] \/ (d = e /\ k \in Waiting(e) /\ phase[e] = "completing")
    BY <1>1 DEF ReadDependents, TypeInv, TypeOK
  <1>2. CASE \E e \in Deliveries : ReadDependents(e)
    BY <1>1, <1>2 DEF Waiting
  <1>3. CASE \E e \in Deliveries : Complete(e) \/ Drop(e)
    BY <1>3 DEF Complete, Drop, TypeInv, TypeOK
  <1>4. CASE UNCHANGED kids
    BY <1>4
  <1>5. \/ \E e \in Deliveries : ReadDependents(e) \/ Complete(e) \/ Drop(e)
        \/ UNCHANGED kids
    BY DEF Next, vars, Claim, Heartbeat, DeliveryStep, StartRead, StartCommit,
           ResultRead, DeadLetter, ScheduleRetry, Promote, Reap, UserStep,
           CancelRead, CancelCommit, RetryRead, RetryCommit, Ripen, Lapse, Crash
  <1> QED BY <1>2, <1>3, <1>4, <1>5

\* Every handler that writes a status leaves the rows that ground it.
LEMMA GroundedNext == TypeInv /\ Counted /\ Grounded /\ [Next]_vars => Grounded'
  <1> SUFFICES ASSUME TypeInv, Counted, Grounded, [Next]_vars PROVE Grounded'
    OBVIOUS
  <1>1. DeadHasLetter'
    <2> SUFFICES ASSUME NEW j \in Jobs, row'[j].state = "dead"
                 PROVE  \E d \in dlq' : job'[d] = j
      BY DEF DeadHasLetter, DeadLetters
    <2>1. CASE row[j].state = "dead"
      <3>1. PICK d \in dlq : job[d] = j
        BY <2>1 DEF Grounded, DeadHasLetter, DeadLetters
      <3>2. d \in dlq'
        BY <3>1 DEF Next, vars, Claim, Heartbeat, DeliveryStep, StartRead, StartCommit,
               ResultRead, ReadDependents, Complete, DeadLetter, ScheduleRetry, Drop,
               Promote, Reap, UserStep, CancelRead, CancelCommit, RetryRead,
               RetryCommit, Ripen, Lapse, Crash
      <3>3. job'[d] = j
        BY <3>1, DeliveryStep_Keeps DEF Counted, TypeInv, TypeOK
      <3> QED BY <3>2, <3>3
    <2>2. ASSUME NEW d \in Deliveries, DeadLetter(d), job[d] = j
          PROVE  \E e \in dlq' : job'[e] = j
      BY <2>2 DEF DeadLetter, Letters
    <2> QED BY <2>1, <2>2, RowSteps DEF RowStep
  <1>2. CompletedHasSuccess'
    <2> SUFFICES ASSUME NEW j \in Jobs, row'[j].state = "completed"
                 PROVE  Succeeded(j)'
      BY DEF CompletedHasSuccess, Succeeded, Execs
    <2>1. CASE row[j].state = "completed"
      BY <2>1, ExecsGrow DEF Grounded, CompletedHasSuccess
    <2>2. ASSUME NEW d \in Deliveries, Complete(d), job[d] = j
          PROVE  Succeeded(j)'
      BY <2>2, CompleteSucceeds
    <2> QED BY <2>1, <2>2, RowSteps DEF RowStep
  <1>3. \A j \in Jobs : row'[j].dep \in {None, Parent[j]}
    BY RowSteps DEF RowStep, Grounded
  <1>4. ASSUME NEW d \in Deliveries, NEW k \in kids'[d]
        PROVE  phase'[d] # "unused" /\ Parent[k] = job'[d]
    <2>1. phase[d] # "unused" /\ Parent[k] = job[d]
      <3>1. CASE k \in kids[d]
        BY <3>1 DEF Grounded
      <3>2. CASE phase[d] = "completing" /\ k \in Jobs /\ row[k].dep = job[d]
        <4>1. job[d] \in Jobs
          BY <3>2 DEF TypeInv, Plumbing
        <4> QED BY <3>2, <4>1, JobsFinite DEF Grounded
      <3> QED BY <3>1, <3>2, KidsStep
    <2>2. job'[d] = job[d] /\ job[d] \in Jobs
      BY <2>1, DeliveryStep_Keeps DEF TypeInv, Plumbing
    <2>3. phase'[d] # "unused"
      BY <2>1, PhaseStaysUsed
    <2> QED BY <2>1, <2>2, <2>3
  <1>5. ReleasedByParent'
    <2> SUFFICES ASSUME NEW j \in Jobs, Parent[j] # None, row'[j].dep = None
                 PROVE  Succeeded(Parent[j])'
      BY DEF ReleasedByParent, Succeeded, Execs
    <2>0. Parent[j] \in Jobs
      BY ParentAssumption
    <2>1. CASE row[j].dep = None
      BY <2>0, <2>1, ExecsGrow DEF Grounded, ReleasedByParent
    <2>2. ASSUME NEW d \in Deliveries, Complete(d), j \in kids[d]
          PROVE  Succeeded(Parent[j])'
      BY <2>0, <2>2, CompleteSucceeds DEF Grounded
    <2> QED BY <2>1, <2>2, RowSteps DEF RowStep
  <1> QED BY <1>1, <1>2, <1>3, <1>4, <1>5 DEF Grounded

\* The strengthened invariant, in every reachable state.
LEMMA GroundedAlways == Spec => [](TypeInv /\ Counted /\ Grounded)
  BY TypeInit, TypeNext, CountedInit, CountedNext, GroundedInit, GroundedNext, PTL
     DEF Spec

\* A DEAD job can always be found, and replayed, in the Dead Letter Queue.
THEOREM DeadJobsHaveLetters == Spec => []DeadHasLetter
  BY GroundedAlways, PTL DEF Grounded

\* A COMPLETED job has a successful execution.
THEOREM CompletedJobsSucceeded == Spec => []CompletedHasSuccess
  BY GroundedAlways, PTL DEF Grounded

\* Only a success of the parent ever releases a dependent.
THEOREM ParentsRelease == Spec => []ReleasedByParent
  BY GroundedAlways, PTL DEF Grounded
=============================================================================
