-------------------------- MODULE SubmissionProofs --------------------------
(* Theorems about Submission: every number of clients, keys and jobs.       *)
EXTENDS Submission, TLAPS

----------------------------------------------------------------------------
(* Type correctness.  Whatever refers to a job refers to one that has been  *)
(* inserted.                                                                *)

Plumbing ==
    /\ \A p \in Ids : kids[p] \subseteq Rows /\ loaded[p] <= n
    /\ \A j \in Ids : job[j].dep \in Rows \cup {None}
    /\ \A j \in Ids : job[j].state = "waiting" => job[j].dep # None
    /\ \A c \in Clients :
         /\ req[c].dep \in Rows \cup {None}
         /\ req[c].op \in {"replaying", "marking"} => req[c].entry \in dlq
         /\ req[c].op = "inserting" => req[c].key # None

TypeInv == TypeOK /\ Plumbing

\* There are no rows at first.
LEMMA TypeInit == Init => TypeInv
  BY NumbersAssumption
  DEF Init, TypeInv, TypeOK, Plumbing, Absent, Idle, Request, Ids, Rows, JobRows

\* Rows are only added, at the end.
LEMMA RowsGrow == ASSUME TypeOK, [Next]_vars
                  PROVE  n' \in n .. MaxJobs
  <1>1. n \in 0 .. MaxJobs /\ MaxJobs \in Nat /\ BatchSize \in Nat
    BY NumbersAssumption DEF TypeOK
  <1>2. CASE UNCHANGED vars
    BY <1>1, <1>2 DEF vars
  <1>3. ASSUME NEW c \in Clients, Batch(c) PROVE n' \in n .. MaxJobs
    BY <1>1, <1>3 DEF Batch
  <1>4. ASSUME NEW c \in Clients, Insert(c) \/ ReplayJob(c) \/ \E p \in Rows \cup {None} : Submit(c, p)
        PROVE  n' \in n .. MaxJobs
    BY <1>1, <1>4 DEF Insert, ReplayJob, Submit, Add
  <1>5. ASSUME UNCHANGED n PROVE n' \in n .. MaxJobs
    BY <1>1, <1>5
  <1>6. ASSUME NEW c \in Clients, NEW k \in Keys, NEW p \in Rows \cup {None},
               LookUp(c, k, p)
        PROVE  UNCHANGED n
    BY <1>6 DEF LookUp, jobVars
  <1>7. ASSUME NEW c \in Clients, NEW e \in dlq, LoadEntry(c, e) PROVE UNCHANGED n
    BY <1>7 DEF LoadEntry, jobVars
  <1>8. ASSUME NEW c \in Clients, MarkReplayed(c) \/ Fail(c) PROVE UNCHANGED n
    BY <1>8 DEF MarkReplayed, Fail, jobVars
  <1>9. ASSUME NEW p \in Rows, JobStep(p)
        PROVE  UNCHANGED n
    BY <1>9 DEF JobStep, Start, Lose, LoadDependents, Complete, FailAttempt, Die, Cancel, Retry
  <1> QED BY <1>2, <1>3, <1>4, <1>5, <1>6, <1>7, <1>8, <1>9 DEF Next

\* A job whose state is written stays a job; only a dependent one may wait.
LEMMA StateType ==
    ASSUME TypeInv, NEW p \in Rows, NEW s \in {"open", "waiting", "completed", "dead", "cancelled"},
           s = "waiting" => job[p].dep # None,
           job' = [job EXCEPT ![p].state = s], UNCHANGED n
    PROVE  /\ job' \in [Ids -> JobRows]
           /\ \A j \in Ids : job'[j].state = "absent" <=> j > n
           /\ \A j \in Ids : job'[j].dep \in Rows \cup {None}
           /\ \A j \in Ids : job'[j].state = "waiting" => job'[j].dep # None
  <1>1. job \in [Ids -> JobRows] /\ p \in Ids /\ n \in Nat /\ p <= n
    BY NumbersAssumption DEF TypeInv, TypeOK, Rows, Ids
  <1>2. job'[p] = [job[p] EXCEPT !.state = s] /\ job[p] \in JobRows
    BY <1>1
  <1>3. job'[p] \in JobRows /\ job'[p].state = s /\ job'[p].dep = job[p].dep
    BY <1>2 DEF JobRows
  <1>4. \A j \in Ids : j # p => job'[j] = job[j]
    BY <1>1
  <1>5. job' \in [Ids -> JobRows]
    BY <1>1, <1>3
  <1>6. ~(p > n)
    BY <1>1 DEF Ids
  <1> QED BY <1>3, <1>4, <1>5, <1>6 DEF TypeInv, TypeOK, Plumbing

\* What the commit of a completion does to one row.
LEMMA CompleteStep ==
    ASSUME TypeInv, NEW p \in Rows, Complete(p), NEW j \in Ids
    PROVE  /\ job[j] \in JobRows /\ job'[j] \in JobRows
           /\ job'[j].key = job[j].key /\ job'[j].of = job[j].of
           /\ j = p => job'[j].state = "completed" /\ job'[j].dep = job[j].dep
           /\ j # p /\ j \in kids[p] => /\ job'[j].dep = None
                                       /\ job'[j].state \in {"open", job[j].state} \ {"waiting"}
           /\ j # p /\ j \notin kids[p] => job'[j] = job[j]
  <1>1. job[j] \in JobRows
    BY DEF TypeInv, TypeOK
  <1>2. PICK Due \in SUBSET kids[p] :
          job' = [i \in Ids |->
                    IF i = p THEN [job[i] EXCEPT !.state = "completed"]
                    ELSE IF i \in kids[p] THEN Released(job[i], i \in Due)
                    ELSE job[i]]
    BY DEF Complete
  <1>3. CASE j = p
    <2>1. job'[j] = [job[j] EXCEPT !.state = "completed"]
      BY <1>2, <1>3
    <2> QED BY <1>1, <1>3, <2>1 DEF JobRows
  <1>4. CASE j # p /\ j \in kids[p]
    <2>1. job'[j] = [job[j] EXCEPT !.state = IF j \in Due \/ @ = "waiting" THEN "open" ELSE @,
                                   !.dep = None]
      BY <1>2, <1>4 DEF Released
    <2>2. \/ job'[j] = [job[j] EXCEPT !.state = "open", !.dep = None]
          \/ job[j].state # "waiting" /\ job'[j] = [job[j] EXCEPT !.state = job[j].state, !.dep = None]
      BY <2>1
    <2>3. job[j].state \in {"absent", "waiting", "open", "completed", "dead", "cancelled"}
      BY <1>1 DEF JobRows
    <2> QED BY <1>1, <1>4, <2>2, <2>3 DEF JobRows
  <1>5. CASE j # p /\ j \notin kids[p]
    BY <1>1, <1>2, <1>5
  <1> QED BY <1>1, <1>3, <1>4, <1>5

\* Each action keeps rows, requests and what they refer to well-typed.
LEMMA TypeNext == TypeInv /\ [Next]_vars => TypeInv'
  <1> SUFFICES ASSUME TypeInv, [Next]_vars PROVE TypeInv'
    OBVIOUS
  <1> USE NumbersAssumption, ClientsAssumption, IdsAssumption
  <1>0. n \in 0 .. MaxJobs /\ n' \in n .. MaxJobs /\ MaxJobs \in Nat
    BY RowsGrow DEF TypeInv, TypeOK
  <1>1. CASE UNCHANGED vars
    BY <1>1 DEF vars, TypeInv, TypeOK, Plumbing, Rows
  <1>2. ASSUME NEW c \in Clients, NEW k \in Keys, NEW p \in Rows \cup {None},
               LookUp(c, k, p)
        PROVE  TypeInv'
    <2>1. UNCHANGED <<n, job, exec, kids, loaded, cancelled, dlq, marked>>
      BY <1>2 DEF LookUp, jobVars
    <2>2. CASE UNCHANGED req
      <3>1. answered' \subseteq Keys \X Ids
        BY <1>2, <1>0 DEF LookUp, TypeInv, TypeOK, Rows, Ids
      <3> QED BY <2>1, <2>2, <3>1 DEF TypeInv, TypeOK, Plumbing, Rows
    <2>3. CASE /\ req' = [req EXCEPT ![c] = Request("inserting", k, p, None)]
               /\ UNCHANGED answered
      <3>1. p \in Ids \cup {None}
        BY <1>0 DEF Rows, Ids
      <3> QED BY <2>1, <2>3, <3>1 DEF Request, TypeInv, TypeOK, Plumbing, Rows
    <2> QED BY <1>2, <2>2, <2>3 DEF LookUp
  <1>3. ASSUME NEW c \in Clients, Insert(c) PROVE TypeInv'
    <2>1. CASE Taken(req[c].key)
      BY <1>3, <2>1 DEF Insert, TypeInv, TypeOK, Plumbing, Rows, Ids, Idle, Request
    <2>2. CASE ~Taken(req[c].key)
      <3>1. n < MaxJobs /\ n' = n + 1 /\ job' = [job EXCEPT ![n + 1] = Row(req[c].key, req[c].dep, None)]
        BY <1>3, <2>2 DEF Insert, Add
      <3>2. Row(req[c].key, req[c].dep, None) \in JobRows
        BY DEF Row, JobRows, TypeInv, TypeOK
      <3>3. TypeOK'
        <4>1. req[c].key \in Keys
          BY <1>3 DEF Insert, TypeInv, TypeOK, Plumbing
        <4> QED BY <1>3, <2>2, <3>1, <3>2, <4>1
                DEF Insert, Row, TypeInv, TypeOK, Rows, Ids, Idle, Request
      <3>4. Plumbing'
        BY <1>3, <2>2, <3>1 DEF Insert, Row, TypeInv, TypeOK, Plumbing, Rows, Ids, Idle, Request
      <3> QED BY <3>3, <3>4 DEF TypeInv
    <2> QED BY <2>1, <2>2
  <1>4. ASSUME NEW c \in Clients, Batch(c) PROVE TypeInv'
    <2>1. Row(None, None, None) \in JobRows /\ Row(None, None, None).state = "open"
          /\ Row(None, None, None).dep = None
      BY DEF Row, JobRows
    <2>2. TypeOK'
      BY <1>4, <2>1 DEF Batch, TypeInv, TypeOK, Rows, Ids
    <2>3. Plumbing'
      BY <1>4, <2>1 DEF Batch, TypeInv, TypeOK, Plumbing, Rows, Ids
    <2> QED BY <2>2, <2>3 DEF TypeInv
  <1>5. ASSUME NEW p \in Rows, LoadDependents(p) PROVE TypeInv'
    <2>2. Rows \subseteq Ids /\ Dependents(p) \subseteq Rows
      BY <1>0 DEF Rows, Ids, Dependents
    <2>3. /\ kids' = [kids EXCEPT ![p] = Dependents(p)]
          /\ loaded' = [loaded EXCEPT ![p] = n]
          /\ exec' = [exec EXCEPT ![p] = "releasing"]
          /\ UNCHANGED <<n, job, cancelled, dlq, marked, req, answered>>
      BY <1>5 DEF LoadDependents
    <2>4. kids' \in [Ids -> SUBSET Ids] /\ loaded' \in [Ids -> 0 .. MaxJobs]
          /\ exec' \in [Ids -> {"none", "running", "releasing"}]
      BY <1>0, <2>2, <2>3 DEF TypeInv, TypeOK
    <2>5. TypeOK'
      BY <2>3, <2>4 DEF TypeInv, TypeOK, Rows
    <2>6. \A q \in Ids : kids'[q] \subseteq Rows /\ loaded'[q] <= n
      BY <1>0, <2>2, <2>3 DEF TypeInv, TypeOK, Plumbing
    <2>7. Plumbing'
      BY <2>3, <2>6 DEF TypeInv, Plumbing, Rows
    <2> QED BY <2>5, <2>7 DEF TypeInv
  <1>6. ASSUME NEW p \in Rows, Complete(p) PROVE TypeInv'
    <2>1. ASSUME NEW j \in Ids
          PROVE /\ job'[j] \in JobRows /\ job'[j].dep \in Rows \cup {None}
                /\ job'[j].state = "absent" <=> j > n
                /\ job'[j].state = "waiting" => job'[j].dep # None
      <3>1. /\ job[j] \in JobRows /\ job[j].dep \in Rows \cup {None}
            /\ job[j].state = "absent" <=> j > n
            /\ job[j].state = "waiting" => job[j].dep # None
        BY DEF TypeInv, TypeOK, Plumbing
      <3>2. p \in Rows /\ ~(p > n) /\ (j \in kids[p] => j \in Rows /\ ~(j > n))
        BY <1>0 DEF TypeInv, Plumbing, Rows, Ids
      <3> QED BY <1>6, <3>1, <3>2, CompleteStep
    <2>2. TypeOK'
      <3>1. job' \in [Ids -> JobRows]
        <4>1. job' = [j \in Ids |-> job'[j]]
          BY <1>6 DEF Complete
        <4> QED BY <2>1, <4>1
      <3> QED BY <1>6, <2>1, <3>1 DEF Complete, TypeInv, TypeOK, Rows, Ids
    <2>3. Plumbing'
      BY <1>6, <2>1 DEF Complete, TypeInv, TypeOK, Plumbing, Rows, Ids
    <2> QED BY <2>2, <2>3 DEF TypeInv
  <1>7. ASSUME NEW p \in Rows, FailAttempt(p) \/ Die(p) \/ Cancel(p) \/ Retry(p) PROVE TypeInv'
    <2>1. PICK s \in {"open", "waiting", "completed", "dead", "cancelled"} :
            (s = "waiting" => job[p].dep # None) /\ job' = [job EXCEPT ![p].state = s]
      BY <1>7 DEF FailAttempt, Die, Cancel, Retry
    <2>2. /\ dlq' \in {dlq, dlq \cup {p}} /\ cancelled' \in {cancelled, cancelled \cup {p}}
          /\ exec' \in {exec, [exec EXCEPT ![p] = "none"]}
          /\ loaded' \in {loaded, [loaded EXCEPT ![p] = 0]}
          /\ UNCHANGED <<n, kids, marked, req, answered>>
      <3>1. CASE FailAttempt(p) \/ Die(p) \/ Cancel(p)
        BY <3>1 DEF FailAttempt, Die, Cancel
      <3>2. CASE Retry(p)
        <4>1. loaded' \in {loaded, [loaded EXCEPT ![p] = 0]}
          BY <3>2 DEF Retry, TypeInv, TypeOK
        <4> QED BY <3>2, <4>1 DEF Retry
      <3> QED BY <1>7, <3>1, <3>2
    <2>3. /\ job' \in [Ids -> JobRows]
          /\ \A j \in Ids : job'[j].state = "absent" <=> j > n
          /\ \A j \in Ids : job'[j].dep \in Rows \cup {None}
          /\ \A j \in Ids : job'[j].state = "waiting" => job'[j].dep # None
      BY <2>1, <2>2, StateType
    <2>4. loaded' \in [Ids -> 0 .. MaxJobs] /\ \A q \in Ids : loaded'[q] <= n
      <3>1. 0 \in 0 .. MaxJobs /\ loaded \in [Ids -> 0 .. MaxJobs]
        BY <1>0 DEF TypeInv, TypeOK
      <3>2. \A q \in Ids : loaded'[q] = loaded[q] \/ loaded'[q] = 0
        BY <2>2, <3>1
      <3> QED BY <1>0, <2>2, <3>1, <3>2 DEF TypeInv, Plumbing
    <2>5. exec' \in [Ids -> {"none", "running", "releasing"}]
      BY <2>2 DEF TypeInv, TypeOK
    <2> QED BY <2>2, <2>3, <2>4, <2>5 DEF TypeInv, TypeOK, Plumbing, Rows
  <1>8. ASSUME NEW p \in Rows, Start(p) \/ Lose(p) PROVE TypeInv'
    <2>1. /\ \E e \in {"none", "running"} : exec' = [exec EXCEPT ![p] = e]
          /\ kids' \in {kids, [kids EXCEPT ![p] = {}]} /\ loaded' \in {loaded, [loaded EXCEPT ![p] = 0]}
          /\ UNCHANGED <<n, job, cancelled, dlq, marked, req, answered>>
      BY <1>8 DEF Start, Lose
    <2>2. 0 \in 0 .. MaxJobs /\ loaded \in [Ids -> 0 .. MaxJobs] /\ kids \in [Ids -> SUBSET Ids]
          /\ exec \in [Ids -> {"none", "running", "releasing"}]
      BY <1>0 DEF TypeInv, TypeOK
    <2>3. /\ loaded' \in [Ids -> 0 .. MaxJobs] /\ kids' \in [Ids -> SUBSET Ids]
          /\ exec' \in [Ids -> {"none", "running", "releasing"}]
      <3>1. loaded' \in [Ids -> 0 .. MaxJobs]
        <4>1. CASE loaded' = loaded
          BY <2>2, <4>1
        <4>2. CASE loaded' = [loaded EXCEPT ![p] = 0]
          BY <2>2, <4>2
        <4> QED BY <2>1, <4>1, <4>2
      <3>2. kids' \in [Ids -> SUBSET Ids]
        <4>1. CASE kids' = kids
          BY <2>2, <4>1
        <4>2. CASE kids' = [kids EXCEPT ![p] = {}]
          BY <2>2, <4>2
        <4> QED BY <2>1, <4>1, <4>2
      <3>3. exec' \in [Ids -> {"none", "running", "releasing"}]
        <4>1. PICK e \in {"none", "running"} : exec' = [exec EXCEPT ![p] = e]
          BY <2>1
        <4> QED BY <2>2, <4>1
      <3> QED BY <3>1, <3>2, <3>3
    <2>4. \A q \in Ids : kids'[q] \subseteq Rows /\ loaded'[q] <= n
      <3>1. \A q \in Ids : (loaded'[q] = loaded[q] \/ loaded'[q] = 0)
                           /\ (kids'[q] = kids[q] \/ kids'[q] = {})
        BY <2>1, <2>2
      <3> QED BY <1>0, <2>2, <3>1 DEF TypeInv, Plumbing
    <2> QED BY <2>1, <2>3, <2>4 DEF TypeInv, TypeOK, Plumbing, Rows
  <1>13. ASSUME NEW c \in Clients, NEW p \in Rows \cup {None}, Submit(c, p) PROVE TypeInv'
    <2>1. Row(None, p, None) \in JobRows
      BY <1>0 DEF Row, JobRows, Rows, Ids
    <2>2. /\ n < MaxJobs /\ n' = n + 1 /\ job' = [job EXCEPT ![n + 1] = Row(None, p, None)]
          /\ UNCHANGED <<exec, kids, loaded, cancelled, dlq, marked, req, answered>>
      BY <1>13 DEF Submit, Add
    <2>3. job' \in [Ids -> JobRows] /\ \A j \in Ids : job'[j].state = "absent" <=> j > n'
      BY <1>0, <2>1, <2>2 DEF TypeInv, TypeOK, Ids, Row
    <2>4. TypeOK'
      BY <1>0, <2>2, <2>3 DEF TypeInv, TypeOK, Rows, Ids
    <2>5. Plumbing'
      BY <1>0, <2>2 DEF Row, TypeInv, TypeOK, Plumbing, Rows, Ids
    <2> QED BY <2>4, <2>5 DEF TypeInv
  <1>9. ASSUME NEW c \in Clients, NEW e \in dlq, LoadEntry(c, e) PROVE TypeInv'
    <2> DEFINE r == [op |-> "replaying", key |-> None, dep |-> None, entry |-> e]
    <2>0. e \in Ids
      BY <1>0 DEF TypeInv, TypeOK, Rows, Ids
    <2>1. /\ r.op = "replaying" /\ r.dep = None /\ r.entry = e
          /\ r \in [op : {"idle", "inserting", "replaying", "marking"},
                   key : Keys \cup {None}, dep : Ids \cup {None}, entry : Ids \cup {None}]
      BY <2>0
    <2>2. req' = [req EXCEPT ![c] = r] /\ UNCHANGED <<n, job, exec, kids, loaded, cancelled, dlq, marked, answered>>
      BY <1>9 DEF LoadEntry, Request, jobVars
    <2> HIDE DEF r
    <2>3. TypeOK'
      BY <2>1, <2>2 DEF TypeInv, TypeOK, Rows
    <2>4. Plumbing'
      BY <2>1, <2>2 DEF TypeInv, TypeOK, Plumbing, Rows
    <2> QED BY <2>3, <2>4 DEF TypeInv
  <1>10. ASSUME NEW c \in Clients, ReplayJob(c) PROVE TypeInv'
    <2>1. Row(None, None, req[c].entry) \in JobRows
      BY DEF Row, JobRows, TypeInv, TypeOK
    <2>2. /\ n < MaxJobs /\ n' = n + 1 /\ job' = [job EXCEPT ![n + 1] = Row(None, None, req[c].entry)]
          /\ req' = [req EXCEPT ![c].op = "marking"]
          /\ UNCHANGED <<exec, kids, loaded, cancelled, dlq, marked, answered>>
      BY <1>10 DEF ReplayJob, Add
    <2>3. job' \in [Ids -> JobRows] /\ \A j \in Ids : job'[j].state = "absent" <=> j > n'
      BY <1>0, <2>1, <2>2 DEF TypeInv, TypeOK, Ids, Row
    <2>4. req' \in [Clients -> [op : {"idle", "inserting", "replaying", "marking"},
                            key : Keys \cup {None}, dep : Ids \cup {None},
                            entry : Ids \cup {None}]]
      BY <2>2 DEF TypeInv, TypeOK
    <2>5. TypeOK'
      BY <1>0, <2>2, <2>3, <2>4 DEF TypeInv, TypeOK, Rows, Ids
    <2>6. Plumbing'
      BY <1>10 DEF ReplayJob, Add, Row, TypeInv, TypeOK, Plumbing, Rows, Ids
    <2> QED BY <2>5, <2>6 DEF TypeInv
  <1>11. ASSUME NEW c \in Clients, MarkReplayed(c) PROVE TypeInv'
    BY <1>11 DEF MarkReplayed, jobVars, TypeInv, TypeOK, Plumbing, Rows, Idle, Request
  <1>12. ASSUME NEW c \in Clients, Fail(c) PROVE TypeInv'
    BY <1>12 DEF Fail, jobVars, TypeInv, TypeOK, Plumbing, Rows, Idle, Request
  <1> QED
    BY <1>1, <1>2, <1>3, <1>4, <1>5, <1>6, <1>7, <1>8, <1>9, <1>10, <1>11, <1>12, <1>13
    DEF Next, JobStep

\* Rows, requests and entries stay well-typed in every behaviour.
THEOREM TypeCorrect == Spec => []TypeOK
  <1>1. Spec => []TypeInv
    BY TypeInit, TypeNext, PTL DEF Spec
  <1> QED BY <1>1, PTL DEF TypeInv

----------------------------------------------------------------------------
(* What a step does to the rows there are, and which rows it adds.          *)

\* A job keeps its key and the dead letter it replays; a waiting one waits for
\* the parent it had, and has been waiting unless an execution of it failed.
LEMMA RowsKeep ==
    ASSUME TypeInv, [Next]_vars, NEW j \in Rows
    PROVE  /\ job'[j].key = job[j].key /\ job'[j].of = job[j].of
           /\ job'[j].state = "waiting" =>
                /\ job'[j].dep = job[j].dep
                /\ job[j].state = "waiting" \/ FailAttempt(j)
  <1> DEFINE Kept == /\ job'[j].key = job[j].key /\ job'[j].of = job[j].of
                     /\ job'[j].state = "waiting" =>
                          /\ job'[j].dep = job[j].dep
                          /\ job[j].state = "waiting" \/ FailAttempt(j)
  <1>0. j \in Ids /\ j # n + 1 /\ job[j] \in JobRows /\ job \in [Ids -> JobRows] /\ n \in Nat
    BY NumbersAssumption DEF TypeInv, TypeOK, Rows, Ids
  <1>1. CASE UNCHANGED job
    BY <1>1
  <1>2. ASSUME NEW r, Add(r) PROVE job'[j] = job[j]
    BY <1>0, <1>2 DEF Add
  <1>3. ASSUME NEW c \in Clients, Insert(c) \/ ReplayJob(c) \/ \E p \in Rows \cup {None} : Submit(c, p)
        PROVE  UNCHANGED job \/ job'[j] = job[j]
    BY <1>2, <1>3 DEF Insert, ReplayJob, Submit
  <1>4. ASSUME NEW c \in Clients, Batch(c) PROVE job'[j] = job[j]
    <2>1. ~(j \in n + 1 .. n + BatchSize)
      BY <1>0 DEF Rows
    <2> QED BY <1>0, <1>4, <2>1 DEF Batch
  <1>5. ASSUME NEW p \in Rows, NEW s, s # "waiting" \/ FailAttempt(p), job' = [job EXCEPT ![p].state = s]
        PROVE  Kept
    <2>1. CASE j = p
      <3>1. job'[j] = [job[j] EXCEPT !.state = s]
        BY <1>0, <1>5, <2>1
      <3> QED BY <1>0, <1>5, <3>1 DEF JobRows
    <2>2. CASE j # p
      BY <1>0, <1>5, <2>2
    <2> QED BY <2>1, <2>2
  <1>6. ASSUME NEW p \in Rows, Die(p) \/ Cancel(p) \/ Retry(p) \/ FailAttempt(p) PROVE Kept
    <2>1. PICK s : /\ job' = [job EXCEPT ![p].state = s]
                   /\ s # "waiting" \/ FailAttempt(p)
      BY <1>6 DEF Die, Cancel, Retry, FailAttempt
    <2> QED BY <1>5, <2>1
  <1>12. ASSUME NEW p \in Rows, Start(p) \/ Lose(p) \/ LoadDependents(p) PROVE UNCHANGED job
    BY <1>12 DEF Start, Lose, LoadDependents
  <1>7. ASSUME NEW p \in Rows, Complete(p) PROVE Kept
    <2>1. job'[j].state = "waiting" => job'[j] = job[j]
      BY <1>0, <1>7, CompleteStep
    <2> QED BY <1>0, <1>7, <2>1, CompleteStep
  <1>8. ASSUME NEW c \in Clients, NEW k \in Keys, NEW p \in Rows \cup {None},
               LookUp(c, k, p)
        PROVE  UNCHANGED job
    BY <1>8 DEF LookUp, jobVars
  <1>9. ASSUME NEW c \in Clients, NEW e \in dlq, LoadEntry(c, e) PROVE UNCHANGED job
    BY <1>9 DEF LoadEntry, jobVars
  <1>10. ASSUME NEW c \in Clients, MarkReplayed(c) \/ Fail(c) PROVE UNCHANGED job
    BY <1>10 DEF MarkReplayed, Fail, jobVars
  <1>11. CASE UNCHANGED vars
    BY <1>1, <1>11 DEF vars
  <1> QED BY <1>1, <1>3, <1>4, <1>6, <1>7, <1>8, <1>9, <1>10, <1>11, <1>12 DEF Next, JobStep

\* A new job is open or waiting; it has a key only from an insert that the
\* constraint let pass.
LEMMA NewRows ==
    ASSUME TypeInv, [Next]_vars, NEW j \in Rows', j \notin Rows
    PROVE  /\ j > n /\ job'[j].state \in {"open", "waiting"}
           /\ \/ job'[j].key = None
              \/ j = n + 1 /\ n' = n + 1 /\ ~Taken(job'[j].key)
  <1>0. j \in Ids /\ j > n /\ n \in Nat /\ n + 1 \in Nat /\ job \in [Ids -> JobRows]
        /\ n' \in n .. MaxJobs /\ ~UNCHANGED n
    BY NumbersAssumption, RowsGrow DEF TypeInv, TypeOK, Rows, Ids
  <1>1. ASSUME NEW r, Add(r) PROVE j = n + 1 /\ n' = n + 1 /\ job'[j] = r
    <2>1. j = n + 1 /\ n' = n + 1
      BY <1>0, <1>1 DEF Add, Rows
    <2> QED BY <1>0, <1>1, <2>1 DEF Add
  <1>2. ASSUME NEW c \in Clients, Insert(c)
        PROVE  /\ job'[j].state \in {"open", "waiting"}
               /\ j = n + 1 /\ n' = n + 1 /\ ~Taken(job'[j].key)
    BY <1>0, <1>1, <1>2 DEF Insert, Row
  <1>3. ASSUME NEW c \in Clients, ReplayJob(c)
        PROVE  job'[j].state \in {"open", "waiting"} /\ job'[j].key = None
    BY <1>1, <1>3 DEF ReplayJob, Row
  <1>11. ASSUME NEW c \in Clients, NEW p \in Rows \cup {None}, Submit(c, p)
         PROVE  job'[j].state \in {"open", "waiting"} /\ job'[j].key = None
    BY <1>1, <1>11 DEF Submit, Row
  <1>4. ASSUME NEW c \in Clients, Batch(c)
        PROVE  job'[j].state \in {"open", "waiting"} /\ job'[j].key = None
    <2>1. j \in n + 1 .. n + BatchSize
      BY <1>0, <1>4, NumbersAssumption DEF Batch, Rows
    <2> QED BY <1>0, <1>4, <2>1 DEF Batch, Row
  <1>5. ASSUME NEW c \in Clients, NEW k \in Keys, NEW p \in Rows \cup {None},
               LookUp(c, k, p)
        PROVE  UNCHANGED n
    BY <1>5 DEF LookUp, jobVars
  <1>6. ASSUME NEW c \in Clients, NEW e \in dlq, LoadEntry(c, e) PROVE UNCHANGED n
    BY <1>6 DEF LoadEntry, jobVars
  <1>7. ASSUME NEW c \in Clients, MarkReplayed(c) \/ Fail(c) PROVE UNCHANGED n
    BY <1>7 DEF MarkReplayed, Fail, jobVars
  <1>8. ASSUME NEW p \in Rows, JobStep(p)
        PROVE  UNCHANGED n
    BY <1>8 DEF JobStep, Start, Lose, LoadDependents, Complete, FailAttempt, Die, Cancel, Retry
  <1>9. ASSUME UNCHANGED vars PROVE UNCHANGED n
    BY <1>9 DEF vars
  <1>10. \/ \E c \in Clients : Insert(c) \/ ReplayJob(c) \/ Batch(c)
                                 \/ \E p \in Rows \cup {None} : Submit(c, p)
         \/ UNCHANGED n
    BY <1>5, <1>6, <1>7, <1>8, <1>9 DEF Next
  <1> QED BY <1>0, <1>2, <1>3, <1>4, <1>10, <1>11

----------------------------------------------------------------------------
(* Idempotency.  The answers given so far point at rows that have the key,  *)
(* and no two rows have the same key.                                       *)

Keyed ==
    /\ \A a \in answered : a[2] \in Rows /\ job[a[2]].key = a[1]
    /\ \A i, j \in Rows : job[i].key # None /\ job[i].key = job[j].key => i = j

\* Every new answer names a row that has the key.
LEMMA Answers ==
    ASSUME TypeInv, [Next]_vars, NEW a \in answered', a \notin answered
    PROVE  a[2] \in Rows' /\ job'[a[2]].key = a[1]
  <1>0. n \in Nat /\ n + 1 \in Nat /\ job \in [Ids -> JobRows]
    BY NumbersAssumption DEF TypeInv, TypeOK
  <1>1. ASSUME NEW c \in Clients, NEW k \in Keys, NEW p \in Rows \cup {None},
               LookUp(c, k, p)
        PROVE  a[2] \in Rows' /\ job'[a[2]].key = a[1]
    <2>1. PICK i \in Rows : job[i].key = k /\ answered' = answered \cup {<<k, i>>}
      BY <1>1 DEF LookUp
    <2> QED BY <1>1, <2>1 DEF LookUp, jobVars, Rows
  <1>2. ASSUME NEW c \in Clients, Insert(c)
        PROVE  a[2] \in Rows' /\ job'[a[2]].key = a[1]
    <2>1. /\ n < MaxJobs /\ n' = n + 1 /\ job' = [job EXCEPT ![n + 1] = Row(req[c].key, req[c].dep, None)]
          /\ answered' = answered \cup {<<req[c].key, n + 1>>}
      BY <1>2 DEF Insert, Add
    <2>2. a[1] = req[c].key /\ a[2] = n + 1
      BY <2>1
    <2>3. n + 1 \in Rows' /\ n + 1 \in Ids
      BY <1>0, <2>1, NumbersAssumption DEF Rows, Ids
    <2>4. job'[n + 1].key = req[c].key
      BY <1>0, <2>1, <2>3 DEF Row
    <2> QED BY <2>2, <2>3, <2>4
  <1>3. ASSUME UNCHANGED answered PROVE FALSE
    BY <1>3
  <1>4. ASSUME NEW c \in Clients,
               Batch(c) \/ ReplayJob(c) \/ MarkReplayed(c) \/ Fail(c) \/ (\E e \in dlq : LoadEntry(c, e))
               \/ \E p \in Rows \cup {None} : Submit(c, p)
        PROVE  UNCHANGED answered
    BY <1>4 DEF Batch, Submit, ReplayJob, MarkReplayed, Fail, LoadEntry
  <1>5. ASSUME NEW p \in Rows, JobStep(p)
        PROVE  UNCHANGED answered
    BY <1>5 DEF JobStep, Start, Lose, LoadDependents, Complete, FailAttempt, Die, Cancel, Retry
  <1>6. CASE UNCHANGED vars
    BY <1>6 DEF vars
  <1> QED BY <1>1, <1>2, <1>3, <1>4, <1>5, <1>6 DEF Next

\* Keys stay unique: the constraint is tested in the inserting transaction.
LEMMA KeyedNext == TypeInv /\ Keyed /\ [Next]_vars => Keyed'
  <1> SUFFICES ASSUME TypeInv, Keyed, [Next]_vars PROVE Keyed'
    OBVIOUS
  <1>0. n \in Nat /\ n' \in Nat /\ n <= n' /\ Rows \subseteq Rows'
    BY NumbersAssumption, RowsGrow DEF TypeInv, TypeOK, Rows
  <1>1. ASSUME NEW a \in answered' PROVE a[2] \in Rows' /\ job'[a[2]].key = a[1]
    BY <1>0, <1>1, Answers, RowsKeep DEF Keyed
  <1>2. ASSUME NEW i \in Rows', NEW j \in Rows', job'[i].key # None, job'[i].key = job'[j].key
        PROVE  i = j
    <2>1. CASE i \in Rows /\ j \in Rows
      BY <1>2, <2>1, RowsKeep DEF Keyed
    <2>2. CASE i \notin Rows /\ j \notin Rows
      BY <1>2, <2>2, NewRows
    <2>3. CASE i \in Rows /\ j \notin Rows
      BY <1>2, <2>3, RowsKeep, NewRows DEF Taken
    <2>4. CASE i \notin Rows /\ j \in Rows
      BY <1>2, <2>4, RowsKeep, NewRows DEF Taken
    <2> QED BY <2>1, <2>2, <2>3, <2>4
  <1> QED BY <1>1, <1>2 DEF Keyed

\* A retried submission collapses to the job it created, whatever the number
\* of clients and the interleaving of their requests.
THEOREM SubmissionsCollapse == Spec => []OneJobPerKey
  <1>1. Init => Keyed
    BY NumbersAssumption DEF Init, Keyed, Rows
  <1>2. TypeInv /\ Keyed => OneJobPerKey
    <2> SUFFICES ASSUME TypeInv, Keyed, NEW a \in answered, NEW b \in answered, a[1] = b[1]
                 PROVE  a[2] = b[2]
      BY DEF OneJobPerKey
    <2>1. a[1] # None
      BY ClientsAssumption DEF TypeInv, TypeOK
    <2> QED BY <2>1 DEF Keyed
  <1> QED BY <1>1, <1>2, TypeInit, TypeNext, KeyedNext, PTL DEF Spec

----------------------------------------------------------------------------
(* Replays: a request that is about to mark an entry has inserted its job.  *)

Replays ==
    /\ MarkedHasFreshJob
    /\ \A c \in Clients : req[c].op = "marking" => \E j \in Rows : job[j].of = req[c].entry

\* Only the request that inserted the fresh job gets to mark the entry.
LEMMA MarkingStep ==
    ASSUME TypeInv, [Next]_vars, NEW c \in Clients, req'[c].op = "marking"
    PROVE  \/ req[c].op = "marking" /\ req'[c].entry = req[c].entry
           \/ \E j \in Rows' : job'[j].of = req'[c].entry
  <1>0. n \in Nat /\ n + 1 \in Nat /\ job \in [Ids -> JobRows] /\ MaxJobs \in Nat
        /\ req \in [Clients -> [op : {"idle", "inserting", "replaying", "marking"},
                            key : Keys \cup {None}, dep : Ids \cup {None},
                            entry : Ids \cup {None}]]
    BY NumbersAssumption DEF TypeInv, TypeOK
  <1>1. CASE UNCHANGED req
    BY <1>1
  <1>2. ASSUME NEW d \in Clients, NEW r, req' = [req EXCEPT ![d] = r], r.op # "marking"
        PROVE  req'[c] = req[c]
    BY <1>0, <1>2
  <1>3. ASSUME NEW d \in Clients, NEW k \in Keys, NEW p \in Rows \cup {None},
               LookUp(d, k, p)
        PROVE  req'[c] = req[c]
    BY <1>0, <1>3 DEF LookUp, Request
  <1>4. ASSUME NEW d \in Clients, Insert(d) \/ MarkReplayed(d) \/ Fail(d)
        PROVE  req'[c] = req[c]
    BY <1>2, <1>4 DEF Insert, MarkReplayed, Fail, Idle, Request
  <1>5. ASSUME NEW d \in Clients, NEW e \in dlq, LoadEntry(d, e) PROVE req'[c] = req[c]
    BY <1>2, <1>5 DEF LoadEntry, Request
  <1>6. ASSUME NEW d \in Clients, ReplayJob(d)
        PROVE  req'[c] = req[c] \/ \E j \in Rows' : job'[j].of = req'[c].entry
    <2>1. /\ n < MaxJobs /\ n' = n + 1 /\ job' = [job EXCEPT ![n + 1] = Row(None, None, req[d].entry)]
          /\ req' = [req EXCEPT ![d].op = "marking"]
      BY <1>6 DEF ReplayJob, Add
    <2>2. CASE c # d
      BY <1>0, <2>1, <2>2
    <2>3. CASE c = d
      <3>1. n + 1 \in Ids /\ n + 1 \in Rows'
        BY <1>0, <2>1 DEF Ids, Rows
      <3>2. job'[n + 1].of = req[d].entry
        BY <1>0, <2>1, <3>1 DEF Row
      <3>3. req'[c].entry = req[d].entry
        BY <1>0, <2>1, <2>3
      <3> QED BY <3>1, <3>2, <3>3
    <2> QED BY <2>2, <2>3
  <1>7. ASSUME NEW p \in Rows, JobStep(p)
        PROVE  UNCHANGED req
    BY <1>7 DEF JobStep, Start, Lose, LoadDependents, Complete, FailAttempt, Die, Cancel, Retry
  <1>8. ASSUME NEW d \in Clients, Batch(d) \/ \E p \in Rows \cup {None} : Submit(d, p) PROVE UNCHANGED req
    BY <1>8 DEF Batch, Submit
  <1>9. CASE UNCHANGED vars
    BY <1>9 DEF vars
  <1> QED BY <1>1, <1>3, <1>4, <1>5, <1>6, <1>7, <1>8, <1>9 DEF Next

\* An entry becomes marked only by a request that was about to mark it.
LEMMA MarkedStep ==
    ASSUME [Next]_vars, NEW e \in marked', e \notin marked
    PROVE  \E c \in Clients : req[c].op = "marking" /\ e = req[c].entry
  <1>1. ASSUME UNCHANGED marked PROVE FALSE
    BY <1>1
  <1>2. ASSUME NEW c \in Clients, Insert(c) \/ Batch(c) \/ ReplayJob(c) \/ Fail(c)
                                  \/ (\E x \in dlq : LoadEntry(c, x))
                                  \/ \E p \in Rows \cup {None} : Submit(c, p)
        PROVE  UNCHANGED marked
    BY <1>2 DEF Insert, Submit, Batch, ReplayJob, Fail, LoadEntry
  <1>3. ASSUME NEW c \in Clients, NEW k \in Keys, NEW p \in Rows \cup {None},
               LookUp(c, k, p)
        PROVE  UNCHANGED marked
    BY <1>3 DEF LookUp
  <1>4. ASSUME NEW p \in Rows, JobStep(p)
        PROVE  UNCHANGED marked
    BY <1>4 DEF JobStep, Start, Lose, LoadDependents, Complete, FailAttempt, Die, Cancel, Retry
  <1>5. CASE UNCHANGED vars
    BY <1>5 DEF vars
  <1> QED BY <1>1, <1>2, <1>3, <1>4, <1>5 DEF Next, MarkReplayed

\* Fresh jobs stay, and stay fresh jobs of their entries.
LEMMA ReplaysNext == TypeInv /\ Replays /\ [Next]_vars => Replays'
  <1> SUFFICES ASSUME TypeInv, Replays, [Next]_vars PROVE Replays'
    OBVIOUS
  <1>0. Rows \subseteq Rows'
    BY NumbersAssumption, RowsGrow DEF TypeInv, TypeOK, Rows
  <1>1. ASSUME NEW e, \E j \in Rows : job[j].of = e PROVE \E j \in Rows' : job'[j].of = e
    BY <1>0, <1>1, RowsKeep
  <1>2. ASSUME NEW c \in Clients, req'[c].op = "marking"
        PROVE  \E j \in Rows' : job'[j].of = req'[c].entry
    BY <1>1, <1>2, MarkingStep DEF Replays
  <1>3. ASSUME NEW e \in marked' PROVE \E j \in Rows' : job'[j].of = e
    BY <1>1, <1>3, MarkedStep DEF Replays, MarkedHasFreshJob
  <1> QED BY <1>2, <1>3 DEF Replays, MarkedHasFreshJob

\* A dead letter shown as replayed has a fresh job, wherever a replay fails.
THEOREM ReplaysAreReal == Spec => []MarkedHasFreshJob
  <1>1. Init => Replays
    BY DEF Init, Replays, MarkedHasFreshJob, Idle, Request
  <1> QED BY <1>1, TypeInit, TypeNext, ReplaysNext, PTL DEF Spec, Replays

----------------------------------------------------------------------------
(* Dependents.  While a parent's handler is between its query and its       *)
(* commit, a waiting dependent is among those it loaded, or newer, or has   *)
(* been cancelled; only what has been cancelled runs, and fails, before its *)
(* parent has completed.                                                    *)

Excused(j, p) == j > loaded[p] \/ j \in cancelled

Left ==
    /\ \A j \in Ids : exec[j] # "none" =>
         /\ j \in Rows /\ job[j].state # "completed"
         /\ job[j].dep = None \/ j \in cancelled
    /\ \A j \in Rows : job[j].dep # None => job[j].state = "waiting" \/ j \in cancelled
    /\ \A p, j \in Rows : job[j].state = "waiting" /\ job[j].dep = p =>
         /\ exec[p] = "releasing" => j \in kids[p] \/ Excused(j, p)
         /\ job[p].state = "completed" => Excused(j, p)

\* Requests leave the rows there are, and their executions, alone; what they
\* add waits if it depends on something.
LEMMA Requests ==
    ASSUME TypeInv, [Next]_vars, ~ \E p \in Rows : JobStep(p)
    PROVE  /\ UNCHANGED <<exec, kids, loaded, cancelled>>
           /\ \A j \in Rows : job'[j] = job[j]
           /\ \A j \in Rows' \ Rows : job'[j].dep # None => job'[j].state = "waiting"
  <1>0. n \in Nat /\ n + 1 \in Nat /\ job \in [Ids -> JobRows]
    BY NumbersAssumption DEF TypeInv, TypeOK
  <1>1. ASSUME NEW r, r.dep # None => r.state = "waiting", Add(r)
        PROVE  /\ \A j \in Rows : job'[j] = job[j]
               /\ \A j \in Rows' \ Rows : job'[j].dep # None => job'[j].state = "waiting"
    <2>1. n < MaxJobs /\ n' = n + 1 /\ job' = [job EXCEPT ![n + 1] = r]
      BY <1>1 DEF Add
    <2>2. n + 1 \in Ids /\ Rows \subseteq Ids /\ n + 1 \notin Rows /\ Rows' \ Rows = {n + 1}
      BY <1>0, <2>1, NumbersAssumption DEF Rows, Ids
    <2> QED BY <1>0, <1>1, <2>1, <2>2
  <1>2. ASSUME NEW c \in Clients,
               Insert(c) \/ ReplayJob(c) \/ \E p \in Rows \cup {None} : Submit(c, p)
        PROVE  /\ UNCHANGED <<exec, kids, loaded, cancelled>>
               /\ UNCHANGED <<n, job>> \/ \E r : (r.dep # None => r.state = "waiting") /\ Add(r)
    <2>1. CASE Insert(c)
      <3>1. (Row(req[c].key, req[c].dep, None)).dep # None
              => (Row(req[c].key, req[c].dep, None)).state = "waiting"
        BY DEF Row
      <3> QED BY <2>1, <3>1 DEF Insert
    <2>2. CASE ReplayJob(c)
      <3>1. (Row(None, None, req[c].entry)).dep = None
        BY DEF Row
      <3> QED BY <2>2, <3>1 DEF ReplayJob
    <2>3. ASSUME NEW p \in Rows \cup {None}, Submit(c, p)
          PROVE  /\ UNCHANGED <<exec, kids, loaded, cancelled>>
                 /\ \E r : (r.dep # None => r.state = "waiting") /\ Add(r)
      <3>1. (Row(None, p, None)).dep # None => (Row(None, p, None)).state = "waiting"
        BY DEF Row
      <3> QED BY <2>3, <3>1 DEF Submit
    <2> QED BY <1>2, <2>1, <2>2, <2>3
  <1>3. ASSUME NEW c \in Clients, Batch(c)
        PROVE  /\ UNCHANGED <<exec, kids, loaded, cancelled>>
               /\ \A j \in Rows : job'[j] = job[j]
               /\ \A j \in Rows' \ Rows : job'[j].dep = None
    <2>1. /\ Rows' \subseteq Ids
          /\ Rows \subseteq Ids
          /\ \A j \in Rows' : (j \in n + 1 .. n + BatchSize) <=> (j \notin Rows)
          /\ \A j \in Rows : ~(j \in n + 1 .. n + BatchSize)
      BY <1>0, <1>3, NumbersAssumption DEF Batch, Rows, Ids
    <2>2. /\ job' = [j \in Ids |-> IF j \in n + 1 .. n + BatchSize THEN Row(None, None, None) ELSE job[j]]
          /\ UNCHANGED <<exec, kids, loaded, cancelled>>
      BY <1>3 DEF Batch
    <2>3. (Row(None, None, None)).dep = None
      BY DEF Row
    <2>4. ASSUME NEW j \in Rows PROVE job'[j] = job[j]
      <3>1. j \in Ids /\ ~(j \in n + 1 .. n + BatchSize)
        BY <2>1
      <3> QED BY <2>2, <3>1
    <2>5. ASSUME NEW j \in Rows' \ Rows PROVE job'[j].dep = None
      <3>1. j \in Ids /\ j \in n + 1 .. n + BatchSize
        BY <2>1
      <3> QED BY <2>2, <2>3, <3>1
    <2> QED BY <2>2, <2>4, <2>5
  <1>4. ASSUME NEW c \in Clients, MarkReplayed(c) \/ Fail(c) \/ (\E e \in dlq : LoadEntry(c, e))
               \/ \E k \in Keys, p \in Rows \cup {None} : LookUp(c, k, p)
        PROVE  UNCHANGED jobVars
    BY <1>4 DEF MarkReplayed, Fail, LoadEntry, LookUp
  <1>5. ASSUME UNCHANGED <<n, job>>
        PROVE  /\ \A j \in Rows : job'[j] = job[j]
               /\ \A j \in Rows' \ Rows : job'[j].dep # None => job'[j].state = "waiting"
    BY <1>5 DEF Rows
  <1> QED BY <1>1, <1>2, <1>3, <1>4, <1>5 DEF Next, vars, jobVars

\* An operator or a handler writes the state of one job, and what else it
\* writes about that job goes with it.
LEMMA OneRow ==
    ASSUME TypeInv, NEW q \in Rows, UNCHANGED n,
           \/ Start(q) \/ Lose(q) \/ LoadDependents(q) \/ FailAttempt(q) \/ Die(q)
           \/ Cancel(q) \/ Retry(q)
    PROVE  /\ \A j \in Ids \ {q} : job'[j] = job[j]
           /\ \A j \in Ids \ {q} : UNCHANGED <<exec[j], kids[j], loaded[j]>>
           /\ job'[q].dep = job[q].dep /\ cancelled \subseteq cancelled'
           /\ q \in Ids
  <1>0. /\ job \in [Ids -> JobRows] /\ q \in Ids /\ exec \in [Ids -> {"none", "running", "releasing"}]
        /\ kids \in [Ids -> SUBSET Ids] /\ loaded \in [Ids -> 0 .. MaxJobs]
    BY NumbersAssumption DEF TypeInv, TypeOK, Rows, Ids
  <1>1. UNCHANGED job \/ \E s : job' = [job EXCEPT ![q].state = s]
    BY DEF Start, Lose, LoadDependents, FailAttempt, Die, Cancel, Retry
  <1>2. (\A j \in Ids \ {q} : job'[j] = job[j]) /\ job'[q].dep = job[q].dep
    BY <1>0, <1>1 DEF JobRows
  <1>3. /\ UNCHANGED exec \/ \E e : exec' = [exec EXCEPT ![q] = e]
        /\ UNCHANGED kids \/ \E e : kids' = [kids EXCEPT ![q] = e]
        /\ UNCHANGED loaded \/ \E e : loaded' = [loaded EXCEPT ![q] = e]
        /\ cancelled \subseteq cancelled'
    BY DEF Start, Lose, LoadDependents, FailAttempt, Die, Cancel, Retry
  <1>4. \A j \in Ids \ {q} : UNCHANGED <<exec[j], kids[j], loaded[j]>>
    BY <1>0, <1>3
  <1> QED BY <1>0, <1>2, <1>3, <1>4

\* The steps of jobs and the requests keep all of it.
LEMMA LeftNext == TypeInv /\ Left /\ [Next]_vars => Left'
  <1> SUFFICES ASSUME TypeInv, Left, [Next]_vars PROVE Left'
    OBVIOUS
  <1>0. /\ n \in Nat /\ n' \in Nat /\ n <= n' /\ Rows \subseteq Rows' /\ Rows \subseteq Ids
        /\ job \in [Ids -> JobRows] /\ kids \in [Ids -> SUBSET Ids]
        /\ loaded \in [Ids -> 0 .. MaxJobs] /\ Rows' \subseteq Ids /\ Ids \subseteq Nat
        /\ exec \in [Ids -> {"none", "running", "releasing"}]
        /\ \A p \in Ids : loaded[p] <= n
    BY NumbersAssumption, RowsGrow DEF TypeInv, TypeOK, Plumbing, Rows, Ids
  <1>1. CASE ~ \E p \in Rows : JobStep(p)
    <2>1. ASSUME NEW p \in Rows', NEW j \in Rows', job'[j].state = "waiting", job'[j].dep = p
          PROVE  /\ exec'[p] = "releasing" => j \in kids'[p] \/ Excused(j, p)'
                 /\ job'[p].state = "completed" => Excused(j, p)'
      <3>1. CASE j \in Rows
        <4>1. job'[j] = job[j] /\ p \in Rows
          <5>1. job'[j] = job[j]
            BY <1>1, <3>1, Requests
          <5>2. job[j].dep \in Rows \cup {None}
            BY <1>0, <3>1 DEF TypeInv, Plumbing
          <5>3. job[j].dep # None
            BY <1>0, <2>1, <3>1, <5>1 DEF TypeInv, Plumbing
          <5> QED BY <2>1, <5>1, <5>2, <5>3
        <4> QED BY <1>1, <2>1, <3>1, <4>1, Requests DEF Left, Excused
      <3>2. CASE j \notin Rows
        <4>1. j > n /\ loaded' = loaded
          BY <1>1, <3>2, NewRows, Requests
        <4>2. loaded[p] \in Nat /\ loaded[p] <= n /\ j \in Nat
          BY <1>0
        <4> QED BY <1>0, <4>1, <4>2 DEF Excused
      <3> QED BY <3>1, <3>2
    <2>2. \A j \in Rows' : job'[j].dep # None => job'[j].state = "waiting" \/ j \in cancelled'
      BY <1>1, Requests DEF Left
    <2>3. \A j \in Ids : exec'[j] # "none" => /\ j \in Rows' /\ job'[j].state # "completed"
                                              /\ job'[j].dep = None \/ j \in cancelled'
      BY <1>0, <1>1, Requests DEF Left
    <2> QED BY <2>1, <2>2, <2>3 DEF Left, Excused
  <1>2. ASSUME NEW q \in Rows, JobStep(q) PROVE n' = n /\ Rows' = Rows
    BY <1>2 DEF JobStep, Start, Lose, LoadDependents, Complete, FailAttempt, Die, Cancel, Retry, Rows
  <1>3. ASSUME NEW q \in Rows,
               \/ Start(q) \/ Lose(q) \/ LoadDependents(q) \/ FailAttempt(q) \/ Die(q)
               \/ Cancel(q) \/ Retry(q)
        PROVE  Left'
    <2>0. n' = n /\ Rows' = Rows
      BY <1>2, <1>3 DEF JobStep
    <2>1. /\ \A j \in Ids \ {q} : job'[j] = job[j]
          /\ \A j \in Ids \ {q} : exec'[j] = exec[j] /\ kids'[j] = kids[j] /\ loaded'[j] = loaded[j]
          /\ job'[q].dep = job[q].dep /\ cancelled \subseteq cancelled'
          /\ q \in Ids
      BY <1>3, <2>0, OneRow
    <2>2. exec'[q] # "none" => exec[q] # "none" \/ (Start(q) /\ job[q].state = "open")
      BY <1>0, <1>3, <2>1 DEF Start, Lose, LoadDependents, FailAttempt, Die, Cancel, Retry
    <2>3. job'[q].state # "completed" \/ (job'[q].state = "completed" /\ job[q].state = "completed"
                                          /\ exec[q] = "none" /\ exec'[q] = "none" /\ loaded'[q] = loaded[q])
      <3>1. job[q].state = "completed" => exec[q] = "none"
        BY <2>1 DEF Left
      <3>2. CASE Start(q) \/ Lose(q) \/ LoadDependents(q)
        BY <1>0, <2>1, <3>1, <3>2 DEF Start, Lose, LoadDependents
      <3>3. CASE FailAttempt(q) \/ Die(q) \/ Cancel(q) \/ Retry(q)
        BY <1>0, <2>1, <3>3 DEF FailAttempt, Die, Cancel, Retry, JobRows
      <3> QED BY <1>3, <3>2, <3>3
    <2>4. job'[q].state = "waiting" => job[q].state = "waiting" \/ q \in cancelled
      <3>1. FailAttempt(q) /\ job[q].dep # None => q \in cancelled
        BY <1>0, <2>1 DEF Left, FailAttempt
      <3>2. job'[q].state = "waiting" =>
               job[q].state = "waiting" \/ (FailAttempt(q) /\ job[q].dep # None)
        <4>1. CASE Start(q) \/ Lose(q) \/ LoadDependents(q)
          BY <4>1 DEF Start, Lose, LoadDependents
        <4>2. CASE Die(q) \/ Cancel(q) \/ Retry(q)
          BY <1>0, <2>1, <4>2 DEF Die, Cancel, Retry, JobRows
        <4>3. CASE FailAttempt(q)
          <5>1. job' = [job EXCEPT ![q].state = IF job[q].dep = None THEN "open" ELSE "waiting"]
            BY <4>3 DEF FailAttempt
          <5>2. job[q] \in JobRows
            BY <1>0, <2>1
          <5>3. job'[q].state = IF job[q].dep = None THEN "open" ELSE "waiting"
            BY <1>0, <2>1, <5>1, <5>2 DEF JobRows
          <5> QED BY <4>3, <5>3
        <4> QED BY <1>3, <4>1, <4>2, <4>3
      <3> QED BY <3>1, <3>2
    <2>5. job'[q].dep # None => job'[q].state = "waiting" \/ q \in cancelled'
      <3>1. CASE q \in cancelled
        BY <2>1, <3>1
      <3>2. CASE q \notin cancelled /\ job[q].dep # None
        <4>1. job[q].state = "waiting" /\ exec[q] = "none"
          BY <2>1, <3>2 DEF Left
        <4>2. Lose(q) \/ Cancel(q)
          BY <1>3, <4>1 DEF Start, LoadDependents, FailAttempt, Die, Retry
        <4> QED BY <4>1, <4>2 DEF Lose, Cancel
      <3> QED BY <2>1, <3>1, <3>2
    <2>6. \A j \in Ids : exec'[j] # "none" => /\ j \in Rows' /\ job'[j].state # "completed"
                                              /\ job'[j].dep = None \/ j \in cancelled'
      <3>1. ASSUME exec'[q] # "none"
            PROVE  job'[q].state # "completed" /\ (job'[q].dep = None \/ q \in cancelled')
        <4>1. job[q].dep = None \/ q \in cancelled
          BY <2>1, <2>2, <3>1 DEF Left
        <4> QED BY <2>1, <2>3, <3>1, <4>1
      <3> QED BY <2>0, <2>1, <3>1 DEF Left
    <2>7. ASSUME NEW p \in Rows, NEW j \in Rows, job'[j].state = "waiting", job'[j].dep = p
          PROVE  /\ exec'[p] = "releasing" => j \in kids'[p] \/ Excused(j, p)'
                 /\ job'[p].state = "completed" => Excused(j, p)'
      <3>1. job[j].dep = p /\ (job[j].state = "waiting" \/ j \in cancelled)
        BY <1>0, <2>1, <2>4, <2>7
      <3>2. CASE j \in cancelled
        BY <2>1, <3>2 DEF Excused
      <3>3. CASE job[j].state = "waiting" /\ j \notin cancelled
        <4>1. CASE p # q
          BY <1>0, <2>1, <3>1, <3>3, <4>1 DEF Left, Excused
        <4>2. CASE p = q
          <5>1. ASSUME job'[p].state = "completed" PROVE Excused(j, p)'
            BY <2>1, <2>3, <3>1, <3>3, <4>2, <5>1 DEF Left, Excused
          <5>2. ASSUME exec'[p] = "releasing" PROVE j \in kids'[p] \/ Excused(j, p)'
            <6>1. CASE LoadDependents(q)
              <7>1. kids'[p] = Dependents(p)
                BY <1>0, <2>1, <4>2, <6>1 DEF LoadDependents
              <7> QED BY <3>1, <3>3, <7>1 DEF Dependents
            <6>2. CASE ~LoadDependents(q)
              <7>1. exec[q] = "releasing" /\ kids'[q] = kids[q] /\ loaded'[q] = loaded[q]
                BY <1>0, <1>3, <2>1, <4>2, <5>2, <6>2
                DEF Start, Lose, FailAttempt, Die, Cancel, Retry
              <7> QED BY <2>1, <3>1, <3>3, <4>2, <7>1 DEF Left, Excused
            <6> QED BY <6>1, <6>2
          <5> QED BY <5>1, <5>2
        <4> QED BY <4>1, <4>2
      <3> QED BY <3>1, <3>2, <3>3
    <2>8. \A j \in Rows : job'[j].dep # None => job'[j].state = "waiting" \/ j \in cancelled'
      BY <1>0, <2>1, <2>5 DEF Left
    <2> QED BY <2>0, <2>6, <2>7, <2>8 DEF Left, Excused
  <1>4. ASSUME NEW q \in Rows, Complete(q) PROVE Left'
    <2>0. n' = n /\ Rows' = Rows /\ q \in Ids
      BY <1>0, <1>2, <1>4 DEF JobStep
    <2>1. /\ exec[q] = "releasing" /\ exec' = [exec EXCEPT ![q] = "none"]
          /\ kids' = [kids EXCEPT ![q] = {}] /\ loaded' = loaded /\ cancelled' = cancelled
      BY <1>4 DEF Complete
    <2>2. ASSUME NEW j \in Ids
          PROVE  /\ j = q => job'[j].state = "completed" /\ job'[j].dep = job[j].dep
                 /\ j # q /\ j \in kids[q] => /\ job'[j].dep = None
                                             /\ job'[j].state \in {"open", job[j].state} \ {"waiting"}
                 /\ j # q /\ j \notin kids[q] => job'[j] = job[j]
      BY <1>4, CompleteStep
    <2>3. \A j \in Ids : exec'[j] # "none" => /\ j \in Rows' /\ job'[j].state # "completed"
                                              /\ job'[j].dep = None \/ j \in cancelled'
      <3>1. \A j \in Ids : exec'[j] # "none" => j # q /\ exec[j] # "none"
        BY <1>0, <2>0, <2>1
      <3> QED BY <2>0, <2>1, <2>2, <3>1 DEF Left
    <2>4. \A j \in Rows : job'[j].dep # None => job'[j].state = "waiting" \/ j \in cancelled'
      BY <1>0, <2>0, <2>1, <2>2 DEF Left
    <2>5. ASSUME NEW p \in Rows, NEW j \in Rows, job'[j].state = "waiting", job'[j].dep = p
          PROVE  /\ exec'[p] = "releasing" => j \in kids'[p] \/ Excused(j, p)'
                 /\ job'[p].state = "completed" => Excused(j, p)'
      <3>1. j # q /\ j \notin kids[q] /\ job'[j] = job[j]
        BY <1>0, <2>2, <2>5
      <3>2. CASE p = q
        <4>1. Excused(j, p) /\ exec'[p] = "none"
          BY <1>0, <2>0, <2>1, <2>5, <3>1, <3>2 DEF Left
        <4> QED BY <2>1, <4>1 DEF Excused
      <3>3. CASE p # q
        <4>1. exec'[p] = exec[p] /\ kids'[p] = kids[p]
          BY <1>0, <2>1, <3>3
        <4>2. job'[p].state = "completed" => job[p].state = "completed"
          BY <1>0, <2>2, <3>3
        <4> QED BY <2>1, <2>5, <3>1, <4>1, <4>2 DEF Left, Excused
      <3> QED BY <3>2, <3>3
    <2> QED BY <2>0, <2>3, <2>4, <2>5 DEF Left, Excused
  <1> QED BY <1>1, <1>3, <1>4 DEF JobStep

\* Only a dependent submitted after its parent's handler had last asked for the
\* dependents, or one that was cancelled, is left waiting for a completed parent.
THEOREM DependentsAreReleased == Spec => []OnlyLateDependentsAreLeft
  <1>1. Init => Left
    BY DEF Init, Left, Rows
  <1>2. TypeInv /\ Left => OnlyLateDependentsAreLeft
    <2> SUFFICES ASSUME TypeInv, Left, NEW j \in Rows, job[j].state = "waiting"
                 PROVE  LET p == job[j].dep IN
                          job[p].state = "completed" => j > loaded[p] \/ j \in cancelled
      BY DEF OnlyLateDependentsAreLeft
    <2>1. job[j].dep \in Rows
      <3>1. j \in Ids
        BY NumbersAssumption DEF TypeInv, TypeOK, Rows, Ids
      <3> QED BY <3>1 DEF TypeInv, Plumbing
    <2> QED BY <2>1 DEF Left, Excused
  <1> QED BY <1>1, <1>2, TypeInit, TypeNext, LeftNext, PTL DEF Spec
=============================================================================
