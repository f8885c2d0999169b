--------------------------- MODULE ClaimingProofs ---------------------------
(* Theorems about Claiming: any number of workers, queues and jobs, any     *)
(* batch size and limits, on both databases, with and without rollbacks.    *)
EXTENDS Claiming, FiniteSetTheorems, TLAPS

----------------------------------------------------------------------------
(* Type correctness.  A call that selects or updates is at a queue.         *)

TypeInv == /\ TypeOK
           /\ \A w \in Workers : phase[w] \in {"select", "update"} => at[w] \in Queues

\* Counts are numbers.
LEMMA Counts == ASSUME TypeOK, NEW w \in Workers, NEW q \in Queues
                PROVE  /\ ActiveCount(w, q) \in Nat /\ lim[w][q] \in Nat /\ Capacity(w, q) \in Int
                       /\ IsFiniteSet(got[w]) /\ Cardinality(got[w]) \in Nat
                       /\ IsFiniteSet(cand[w]) /\ Cardinality(cand[w]) \in Nat
  <1>1. got[w] \subseteq Jobs /\ cand[w] \subseteq Jobs /\ lim[w] \in [Queues -> Nat]
    BY DEF TypeOK
  <1>2. IsFiniteSet({j \in Jobs : QueueOf[j] = q /\ (state[j] \in Occupied \/ j \in got[w])})
    BY FiniteAssumption, FS_Subset
  <1>3. IsFiniteSet(got[w]) /\ IsFiniteSet(cand[w])
    BY <1>1, FiniteAssumption, FS_Subset
  <1> QED BY <1>1, <1>2, <1>3, FS_CardinalityType DEF ActiveCount, Capacity

\* No call is under way at first.
LEMMA TypeInit == Init => TypeInv
  <1>1. ASSUME Init PROVE limit \in [Queues -> Nat]
    BY <1>1, NumbersAssumption DEF Init
  <1> QED BY <1>1, NumbersAssumption DEF Init, TypeInv, TypeOK, Phases, States, NoLimits

\* At the end of the loop's body a call is at no queue.
LEMMA LoopTypes ==
    ASSUME TypeInv, NEW w \in Workers, NextQueue(w)
    PROVE  /\ at' \in [Workers -> Queues \cup {None}] /\ want' \in [Workers -> Nat]
           /\ phase' \in [Workers -> Phases]
           /\ \A v \in Workers : phase'[v] \in {"select", "update"} => at'[v] \in Queues
  <1>1. "loop" \in Phases /\ phase \in [Workers -> Phases]
    BY DEF Phases, TypeInv, TypeOK
  <1>2. phase' \in [Workers -> Phases]
    BY <1>1 DEF NextQueue
  <1> QED BY <1>2 DEF NextQueue, TypeInv, TypeOK

\* The steps of a claim keep the types of the call's variables.
LEMMA ClaimStepType == ASSUME TypeInv, NEW w \in Workers, ClaimStep(w) \/ Abort(w)
                       PROVE  TypeInv'
  <1> USE FiniteAssumption, LayoutAssumption, NumbersAssumption DEF Phases
  <1>1. CASE ReadQueues(w)
    <2>1. {q \in Served(w) : ~paused[q]} \subseteq Queues
      BY DEF Served
    <2>2. limit \in [Queues -> Nat]
      BY DEF TypeInv, TypeOK
    <2> QED BY <1>1, <2>1, <2>2 DEF ReadQueues, jobVars, queueVars, boundVars, TypeInv, TypeOK
  <1>2. CASE VisitQueue(w)
    <2>1. PICK q \in todo[w] :
            /\ todo' = [todo EXCEPT ![w] = @ \ {q}]
            /\ \/ UNCHANGED <<phase, at, want>>
               \/ /\ ~Full(w, q)
                  /\ phase' = [phase EXCEPT ![w] = "select"]
                  /\ at' = [at EXCEPT ![w] = q]
                  /\ want' = [want EXCEPT ![w] = Take(w, q)]
      BY <1>2 DEF VisitQueue
    <2>2. q \in Queues /\ Cardinality(got[w]) < Batch
      BY <1>2 DEF VisitQueue, TypeInv, TypeOK
    <2>3. ~Full(w, q) => Take(w, q) \in Nat
      BY <2>2, Counts DEF Full, Take, MinOf, TypeInv
    <2>4. want' \in [Workers -> Nat] /\ at' \in [Workers -> Queues \cup {None}]
          /\ phase' \in [Workers -> Phases] /\ todo' \in [Workers -> SUBSET Queues]
      <3>1. CASE UNCHANGED <<phase, at, want>>
        BY <2>1, <3>1 DEF TypeInv, TypeOK
      <3>2. CASE ~UNCHANGED <<phase, at, want>>
        <4>1. Take(w, q) \in Nat
          BY <2>1, <2>3, <3>2
        <4> HIDE DEF Phases
        <4>2. "select" \in Phases
          BY DEF Phases
        <4>3. want' \in [Workers -> Nat]
          BY <2>1, <3>2, <4>1 DEF TypeInv, TypeOK
        <4>4. todo' \in [Workers -> SUBSET Queues]
          BY <2>1 DEF TypeInv, TypeOK
        <4>6. at' \in [Workers -> Queues \cup {None}]
          BY <2>1, <2>2, <3>2 DEF TypeInv, TypeOK
        <4>5. phase' \in [Workers -> Phases]
          BY <2>1, <3>2, <4>2 DEF TypeInv, TypeOK
        <4> QED BY <4>3, <4>4, <4>5, <4>6
      <3> QED BY <3>1, <3>2
    <2>5. \A v \in Workers : phase'[v] \in {"select", "update"} => at'[v] \in Queues
      BY <2>1, <2>2 DEF TypeInv, TypeOK
    <2> QED BY <1>2, <2>4, <2>5 DEF VisitQueue, jobVars, queueVars, boundVars, TypeInv, TypeOK
  <1>3. CASE Select(w)
    <2>1. PICK C \in First(Eligible(w), want[w]) :
            /\ cand' = [cand EXCEPT ![w] = C]
            /\ lock' = [j \in Jobs |-> IF Postgres /\ j \in C THEN w ELSE lock[j]]
            /\ \/ phase' = [phase EXCEPT ![w] = "update"] /\ UNCHANGED <<at, want>>
               \/ NextQueue(w)
      BY <1>3 DEF Select
    <2>2. C \subseteq Jobs
      BY DEF First, Eligible
    <2>3. cand' \in [Workers -> SUBSET Jobs] /\ lock' \in [Jobs -> Workers \cup {None}]
      BY <2>1, <2>2 DEF TypeInv, TypeOK
    <2>4. /\ at' \in [Workers -> Queues \cup {None}] /\ want' \in [Workers -> Nat]
          /\ phase' \in [Workers -> Phases]
          /\ \A v \in Workers : phase'[v] \in {"select", "update"} => at'[v] \in Queues
      <3>1. CASE NextQueue(w)
        BY <3>1, LoopTypes
      <3>2. CASE phase' = [phase EXCEPT ![w] = "update"] /\ UNCHANGED <<at, want>>
        BY <1>3, <3>2 DEF Select, TypeInv, TypeOK
      <3> QED BY <2>1, <3>1, <3>2
    <2> QED BY <1>3, <2>3, <2>4 DEF Select, jobVars, queueVars, boundVars, TypeInv, TypeOK
  <1>4. CASE Update(w)
    <2>1. /\ lock' \in [Jobs -> Workers \cup {None}] /\ cand' \in [Workers -> SUBSET Jobs]
          /\ got' \in [Workers -> SUBSET Jobs]
      BY <1>4 DEF Update, Won, TypeInv, TypeOK
    <2>2. /\ at' \in [Workers -> Queues \cup {None}] /\ want' \in [Workers -> Nat]
          /\ phase' \in [Workers -> Phases]
          /\ \A v \in Workers : phase'[v] \in {"select", "update"} => at'[v] \in Queues
      BY <1>4, LoopTypes DEF Update
    <2> QED BY <1>4, <2>1, <2>2 DEF Update, jobVars, queueVars, boundVars, TypeInv, TypeOK
  <1>5. ASSUME EndCall(w), UNCHANGED <<queueVars, boundVars>>,
               state' \in [Jobs -> States],
               owner' \in [Jobs -> Workers \cup {None}]
        PROVE  TypeInv'
    <2>1. /\ lock' \in [Jobs -> Workers \cup {None}] /\ phase' \in [Workers -> Phases]
          /\ todo' \in [Workers -> SUBSET Queues] /\ want' \in [Workers -> Nat]
          /\ cand' \in [Workers -> SUBSET Jobs] /\ got' \in [Workers -> SUBSET Jobs]
      BY <1>5 DEF EndCall, TypeInv, TypeOK
    <2>2. NoLimits \in [Queues -> Nat]
      BY DEF NoLimits
    <2>3. lim' \in [Workers -> [Queues -> Nat]] /\ at' \in [Workers -> Queues \cup {None}]
      BY <1>5, <2>2 DEF EndCall, TypeInv, TypeOK
    <2>4. \A v \in Workers : phase'[v] \in {"select", "update"} => at'[v] \in Queues
      BY <1>5 DEF EndCall, TypeInv, TypeOK
    <2> QED BY <1>5, <2>1, <2>3, <2>4 DEF queueVars, boundVars, TypeInv, TypeOK
  <1>6. CASE Commit(w)
    <2>1. state' \in [Jobs -> States] /\ owner' \in [Jobs -> Workers \cup {None}]
      BY <1>6 DEF Commit, States, Occupied, TypeInv, TypeOK
    <2> QED BY <1>5, <1>6, <2>1 DEF Commit
  <1>7. CASE Abort(w)
    BY <1>5, <1>7 DEF Abort, jobVars, TypeInv, TypeOK
  <1> QED BY <1>1, <1>2, <1>3, <1>4, <1>6, <1>7 DEF ClaimStep

\* The other transactions write one row and leave calls and locks alone.
LEMMA OtherStepType ==
    ASSUME TypeInv, NEW j \in Jobs, RowStep(j)
    PROVE  TypeInv'
  <1>1. state' \in [Jobs -> States] /\ owner' \in [Jobs -> Workers \cup {None}]
    BY DEF RowStep, Leave, Requeue, Enqueue, Cancel, StartRead, StartCommit, jobVars, States,
           Occupied, TypeInv, TypeOK
  <1>2. starting' \subseteq Jobs /\ moves' \in 0 .. MaxMoves
    BY NumbersAssumption
       DEF RowStep, Leave, Requeue, Enqueue, Cancel, StartRead, StartCommit, boundVars, Move, TypeInv, TypeOK
  <1>3. UNCHANGED <<queueVars, lock, callVars>>
    BY DEF RowStep, Leave, Requeue, Enqueue, Cancel, StartRead, StartCommit
  <1> QED BY <1>1, <1>2, <1>3 DEF queueVars, callVars, TypeInv, TypeOK

\* Pausing a queue or changing its limit writes the queue row only.
LEMMA QueueStepType ==
    ASSUME TypeInv, NEW q \in Queues,
           (\E b \in BOOLEAN : SetPaused(q, b)) \/ (\E n \in Limits[q] : SetLimit(q, n))
    PROVE  TypeInv'
  <1>1. paused' \in [Queues -> BOOLEAN] /\ limit' \in [Queues -> Nat] /\ moves' \in 0 .. MaxMoves
    <2>1. moves \in 0 .. MaxMoves /\ moves < MaxMoves /\ moves' = moves + 1 /\ MaxMoves \in Nat
      BY NumbersAssumption DEF SetPaused, SetLimit, Move, TypeInv, TypeOK
    <2>2. moves' \in 0 .. MaxMoves
      BY <2>1
    <2>3. paused' \in [Queues -> BOOLEAN] /\ limit' \in [Queues -> Nat]
      <3>1. Limits[q] \subseteq Nat
        BY NumbersAssumption
      <3>2. CASE \E b \in BOOLEAN : SetPaused(q, b)
        BY <3>2 DEF SetPaused, TypeInv, TypeOK
      <3>3. CASE \E n \in Limits[q] : SetLimit(q, n)
        BY <3>1, <3>3 DEF SetLimit, TypeInv, TypeOK
      <3> QED BY <3>2, <3>3
    <2> QED BY <2>2, <2>3
  <1>2. UNCHANGED <<db, jobVars, lock, callVars, starting>>
    BY DEF SetPaused, SetLimit
  <1> QED BY <1>1, <1>2 DEF jobVars, callVars, TypeInv, TypeOK

\* So every step keeps the types.
LEMMA TypeNext == TypeInv /\ [Next]_vars => TypeInv'
  <1> SUFFICES ASSUME TypeInv, [Next]_vars PROVE TypeInv'
    OBVIOUS
  <1>1. CASE UNCHANGED vars
    BY <1>1 DEF vars, TypeInv, TypeOK
  <1>2. ASSUME NEW w \in Workers, ClaimStep(w) \/ Abort(w) PROVE TypeInv'
    BY <1>2, ClaimStepType
  <1>3. ASSUME NEW j \in Jobs, RowStep(j) PROVE TypeInv'
    BY <1>3, OtherStepType
  <1>4. ASSUME NEW q \in Queues,
               (\E b \in BOOLEAN : SetPaused(q, b)) \/ (\E n \in Limits[q] : SetLimit(q, n))
        PROVE  TypeInv'
    BY <1>4, QueueStepType
  <1> QED BY <1>1, <1>2, <1>3, <1>4 DEF Next

\* Rows, locks and call variables are well-typed in every behaviour.
THEOREM TypeCorrect == Spec => []TypeOK
  <1>1. Spec => []TypeInv
    BY TypeInit, TypeNext, PTL DEF Spec
  <1> QED BY <1>1, PTL DEF TypeInv

----------------------------------------------------------------------------
(* Locks.  What a claim has updated, and on PostgreSQL what it has          *)
(* selected, is locked by it and queued until its transaction ends.         *)

LockInv ==
    /\ ClaimIsFresh
    /\ Postgres => \A w \in Workers : \A j \in cand[w] : state[j] = "queued" /\ lock[j] = w

\* No other claim takes a lock that is held.
LEMMA ClaimStepLocks == ASSUME TypeInv, LockInv, NEW w \in Workers, ClaimStep(w) \/ Abort(w)
                        PROVE  LockInv'
  <1>0. /\ state \in [Jobs -> States]
        /\ lock \in [Jobs -> Workers \cup {None}]
        /\ cand \in [Workers -> SUBSET Jobs] /\ got \in [Workers -> SUBSET Jobs]
    BY DEF TypeInv, TypeOK
  <1>1. CASE ReadQueues(w) \/ VisitQueue(w)
    BY <1>1 DEF ReadQueues, VisitQueue, jobVars, queueVars, LockInv, ClaimIsFresh, Postgres
  <1>2. CASE Select(w)
    <2>1. PICK C \in First(Eligible(w), want[w]) :
            /\ cand' = [cand EXCEPT ![w] = C]
            /\ lock' = [j \in Jobs |-> IF Postgres /\ j \in C THEN w ELSE lock[j]]
      BY <1>2 DEF Select
    <2>2. \A j \in C : j \in Jobs /\ state[j] = "queued" /\ (Postgres => lock[j] = None)
      BY DEF First, Eligible
    <2>3. UNCHANGED <<state, db, got>>
      BY <1>2 DEF Select, jobVars, queueVars
    <2>4. ClaimIsFresh'
      BY <1>0, <2>1, <2>2, <2>3, NoneAssumption DEF LockInv, ClaimIsFresh
    <2>5. ASSUME Postgres, NEW v \in Workers, NEW j \in cand'[v]
          PROVE  state'[j] = "queued" /\ lock'[j] = v
      <3>1. CASE v = w
        BY <1>0, <2>1, <2>2, <2>3, <2>5, <3>1
      <3>2. CASE v # w
        BY <1>0, <2>1, <2>2, <2>3, <2>5, <3>2, NoneAssumption DEF LockInv
      <3> QED BY <3>1, <3>2
    <2> QED BY <2>3, <2>4, <2>5 DEF LockInv, Postgres
  <1>3. CASE Update(w)
    <2>1. /\ Postgres \/ \A j \in Jobs : lock[j] \in {None, w}
          /\ got' = [got EXCEPT ![w] = @ \cup Won(w)]
          /\ lock' = [j \in Jobs |-> IF Postgres THEN lock[j] ELSE w]
          /\ cand' = [cand EXCEPT ![w] = {}]
          /\ UNCHANGED <<state, db>>
      BY <1>3 DEF Update, jobVars, queueVars
    <2>2. Won(w) \subseteq cand[w] /\ \A j \in Won(w) : state[j] = "queued"
      BY DEF Won
    <2>3. CASE Postgres
      BY <1>0, <2>1, <2>2, <2>3 DEF LockInv, ClaimIsFresh, Postgres
    <2>4. CASE ~Postgres
      <3>1. \A v \in Workers : v # w => got[v] = {}
        BY <1>0, <2>1, <2>4, NoneAssumption DEF LockInv, ClaimIsFresh
      <3> QED BY <1>0, <2>1, <2>2, <2>4, <3>1 DEF LockInv, ClaimIsFresh, Postgres
    <2> QED BY <2>3, <2>4
  <1>4. ASSUME EndCall(w), UNCHANGED db, \A j \in Jobs : j \notin got[w] => state'[j] = state[j]
        PROVE  LockInv'
    <2>1. /\ got'[w] = {} /\ cand'[w] = {}
          /\ \A v \in Workers : v # w => got'[v] = got[v] /\ cand'[v] = cand[v]
          /\ \A j \in Jobs : lock[j] # w => lock'[j] = lock[j]
      BY <1>0, <1>4 DEF EndCall
    <2>2. \A j \in got[w] : lock[j] = w
      BY DEF LockInv, ClaimIsFresh
    <2>3. ASSUME NEW v \in Workers, v # w, NEW j \in Jobs, state[j] = "queued", lock[j] = v
          PROVE  state'[j] = "queued" /\ lock'[j] = v
      BY <1>4, <2>1, <2>2, <2>3
    <2> QED BY <1>0, <1>4, <2>1, <2>3 DEF LockInv, ClaimIsFresh, Postgres
  <1>5. CASE Commit(w)
    BY <1>4, <1>5 DEF Commit, queueVars
  <1>6. CASE Abort(w)
    BY <1>4, <1>6 DEF Abort, jobVars, queueVars
  <1> QED BY <1>1, <1>2, <1>3, <1>5, <1>6 DEF ClaimStep

\* Every other writer of a row stops at its lock.
LEMMA LockNext == TypeInv /\ LockInv /\ [Next]_vars => LockInv'
  <1> SUFFICES ASSUME TypeInv, LockInv, [Next]_vars PROVE LockInv'
    OBVIOUS
  <1>1. ASSUME UNCHANGED <<db, state, lock, cand, got>> PROVE LockInv'
    BY <1>1 DEF LockInv, ClaimIsFresh, Postgres
  <1>2. ASSUME NEW j \in Jobs, RowStep(j) PROVE LockInv'
    <2>1. UNCHANGED <<db, lock, cand, got>>
      BY <1>2 DEF RowStep, Leave, Requeue, Enqueue, Cancel, StartRead, StartCommit, queueVars, callVars
    <2>2. \A w \in Workers : got[w] \subseteq Jobs /\ cand[w] \subseteq Jobs
      BY DEF TypeInv, TypeOK
    <2>3. CASE StartRead(j)
      BY <1>1, <2>1, <2>3 DEF StartRead, jobVars
    <2>4. CASE ~StartRead(j)
      <3>1. lock[j] = None /\ \A i \in Jobs : i # j => state'[i] = state[i]
        BY <1>2, <2>4
           DEF RowStep, Leave, Requeue, Enqueue, Cancel, StartCommit, Unlocked, TypeInv, TypeOK
      <3> QED BY <2>1, <2>2, <3>1, NoneAssumption DEF LockInv, ClaimIsFresh, Postgres
    <2> QED BY <2>3, <2>4
  <1>3. ASSUME NEW q \in Queues,
               (\E b \in BOOLEAN : SetPaused(q, b)) \/ (\E n \in Limits[q] : SetLimit(q, n))
        PROVE  LockInv'
    BY <1>1, <1>3 DEF SetPaused, SetLimit, jobVars, callVars
  <1>4. CASE UNCHANGED vars
    BY <1>1, <1>4 DEF vars
  <1> QED BY <1>2, <1>3, <1>4, ClaimStepLocks DEF Next

\* Nothing is claimed at first.
LEMMA LockInit == Init => LockInv
  BY DEF Init, LockInv, ClaimIsFresh

\* Types and locks hold throughout.
LEMMA LocksHold == Spec => [](TypeInv /\ LockInv)
  BY TypeInit, TypeNext, LockInit, LockNext, PTL DEF Spec

\* A claim under way cannot be invalidated by any other transaction.
THEOREM ClaimsStayFresh == Spec => []ClaimIsFresh
  BY LocksHold, PTL DEF LockInv

\* On PostgreSQL the guarded UPDATE always wins.
THEOREM GuardsWin == Spec => []GuardAlwaysWins
  <1>1. LockInv => GuardAlwaysWins
    BY DEF LockInv, GuardAlwaysWins, Won
  <1> QED BY <1>1, LocksHold, PTL

----------------------------------------------------------------------------
(* Refinement.  Under the locks, a commit is one hand-out of what the call  *)
(* has claimed, and every other transaction one step of the abstract job.   *)

Avail == {j \in Jobs : state[j] = "queued"}
Held == [w \in Workers |-> {j \in Jobs : state[j] = "active" /\ owner[j] = w}]

\* Initially no job is held, as in the abstract specification.
LEMMA RefinesInit == Init => Abstract!Init
  BY DEF Init, Abstract!Init

\* A commit hands out got[w]; a claim that got nothing leaves no trace.
LEMMA CommitRefines ==
    ASSUME TypeInv, LockInv, NEW w \in Workers, Commit(w)
    PROVE  Abstract!Hand(w, got[w]) \/ UNCHANGED <<Avail, Held>>
  <1>1. /\ state' = [j \in Jobs |-> IF j \in got[w] THEN "active" ELSE state[j]]
        /\ owner' = [j \in Jobs |-> IF j \in got[w] THEN w ELSE owner[j]]
    BY DEF Commit
  <1>2. got[w] \subseteq Jobs /\ state \in [Jobs -> States]
        /\ owner \in [Jobs -> Workers \cup {None}]
    BY DEF TypeInv, TypeOK
  <1>3. \A j \in got[w] : state[j] = "queued"
    BY DEF LockInv, ClaimIsFresh
  <1>4. Avail' = Avail \ got[w]
    BY <1>1, <1>2 DEF Avail
  <1>5. Held' = [Held EXCEPT ![w] = @ \cup got[w]]
    <2>1. \A j \in Jobs : state'[j] = "active" /\ owner'[j] = w
                          <=> j \in got[w] \/ (state[j] = "active" /\ owner[j] = w)
      BY <1>1, <1>2
    <2>2. \A v \in Workers, j \in Jobs : v # w => (state'[j] = "active" /\ owner'[j] = v
                                                   <=> state[j] = "active" /\ owner[j] = v)
      BY <1>1, <1>2, <1>3
    <2>3. \A v \in Workers : Held'[v] = IF v = w THEN Held[w] \cup got[w] ELSE Held[v]
      BY <1>2, <2>1, <2>2 DEF Held
    <2> QED BY <2>3 DEF Held
  <1>6. CASE got[w] = {}
    BY <1>4, <1>5, <1>6 DEF Held
  <1>7. CASE got[w] # {}
    BY <1>2, <1>3, <1>4, <1>5, <1>7 DEF Abstract!Hand, Avail, Held
  <1> QED BY <1>6, <1>7

\* Leaving and requeueing give a job back, enqueueing and cancelling are
\* themselves: by Owners an active job has the worker that gives it back.  A
\* late start withdraws a job that is queued again; otherwise nobody holds
\* what it writes, nor the job it revives.
LEMMA OthersRefine ==
    ASSUME TypeInv, NEW j \in Jobs, RowStep(j), state[j] = "active" => owner[j] \in Workers
    PROVE  \/ \E w \in Workers, back \in BOOLEAN : Abstract!Give(w, j, back)
           \/ Abstract!Enqueue(j)
           \/ Abstract!Withdraw(j)
           \/ UNCHANGED <<Avail, Held>>
  <1>1. state \in [Jobs -> States] /\ owner \in [Jobs -> Workers \cup {None}]
    BY DEF TypeInv, TypeOK
  <1>2. /\ \A i \in Jobs : i # j => state'[i] = state[i] /\ owner'[i] = owner[i]
        /\ StartRead(j) => UNCHANGED jobVars
    BY <1>1 DEF RowStep, Leave, Requeue, Enqueue, Cancel, StartRead, StartCommit, jobVars
  <1>3. ASSUME Leave(j) \/ Requeue(j), state[j] = "active"
        PROVE  \E w \in Workers, back \in BOOLEAN : Abstract!Give(w, j, back)
    <2>1. /\ owner[j] \in Workers
          /\ state'[j] = "away" \/ state'[j] = "queued"
      BY <1>1, <1>3 DEF Leave, Requeue
    <2>2. Held' = [Held EXCEPT ![owner[j]] = @ \ {j}]
      <3>1. \A v \in Workers : Held'[v] = IF v = owner[j] THEN Held[v] \ {j} ELSE Held[v]
        <4>1. \A v \in Workers, i \in Jobs :
                state'[i] = "active" /\ owner'[i] = v <=> i # j /\ state[i] = "active" /\ owner[i] = v
          BY <1>2, <2>1
        <4>2. ASSUME NEW v \in Workers PROVE Held'[v] = Held[v] \ {j}
          BY <4>1 DEF Held
        <4>3. \A v \in Workers : v # owner[j] => j \notin Held[v]
          BY DEF Held
        <4> QED BY <4>2, <4>3
      <3>2. Held = [v \in Workers |-> Held[v]] /\ Held' = [v \in Workers |-> Held'[v]]
        BY DEF Held
      <3> QED BY <2>1, <3>1, <3>2
    <2>3. j \in Held[owner[j]]
      BY <1>3, <2>1 DEF Held
    <2>4. Avail' = Avail \/ Avail' = Avail \cup {j}
      BY <1>2, <1>3, <2>1 DEF Avail
    <2>5. CASE Avail' = Avail
      BY <2>1, <2>2, <2>3, <2>5 DEF Abstract!Give, Avail, Held
    <2>6. CASE Avail' = Avail \cup {j}
      BY <2>1, <2>2, <2>3, <2>6 DEF Abstract!Give, Avail, Held
    <2> QED BY <2>4, <2>5, <2>6
  <1>4. ASSUME state[j] # "active", state'[j] # "active" PROVE Held' = Held
    BY <1>2, <1>4 DEF Held
  <1>5. ASSUME Enqueue(j) \/ (Requeue(j) /\ state[j] # "active") PROVE Abstract!Enqueue(j)
    <2>1. state[j] # "active" /\ state[j] # "queued" /\ state'[j] = "queued"
      BY <1>1, <1>5 DEF Enqueue, Requeue, Occupied
    <2>2. Avail' = Avail \cup {j} /\ j \notin Avail /\ \A w \in Workers : j \notin Held[w]
      BY <1>2, <2>1 DEF Avail, Held
    <2> QED BY <1>4, <2>1, <2>2 DEF Abstract!Enqueue, Avail, Held
  <1>6. ASSUME Cancel(j) \/ (StartCommit(j) /\ state[j] = "queued") PROVE Abstract!Withdraw(j)
    <2>1. state[j] = "queued" /\ state'[j] \in {"away", "revived"}
      BY <1>1, <1>6 DEF Cancel, StartCommit
    <2>2. Avail' = Avail \ {j} /\ j \in Avail
      BY <1>2, <2>1 DEF Avail
    <2> QED BY <1>4, <2>1, <2>2 DEF Abstract!Withdraw, Avail, Held
  <1>7. ASSUME \/ Leave(j) /\ state[j] # "active"
               \/ StartCommit(j) /\ state[j] \notin {"active", "queued"}
        PROVE  UNCHANGED <<Avail, Held>>
    <2>1. state[j] \notin {"active", "queued"} /\ state'[j] \in {"away", "revived"}
      BY <1>1, <1>7 DEF Leave, StartCommit, Occupied
    <2>2. Avail' = Avail
      BY <1>2, <2>1 DEF Avail
    <2> QED BY <1>4, <2>1, <2>2
  <1>8. ASSUME StartCommit(j), state[j] = "active" PROVE UNCHANGED <<Avail, Held>>
    <2>1. state' = state /\ owner' = owner
      BY <1>1, <1>8 DEF StartCommit
    <2> QED BY <2>1 DEF Avail, Held
  <1>9. ASSUME StartRead(j) PROVE UNCHANGED <<Avail, Held>>
    BY <1>2, <1>9 DEF jobVars, Avail, Held
  <1> QED BY <1>3, <1>5, <1>6, <1>7, <1>8, <1>9 DEF RowStep

\* An active job has an owner: only commits make jobs active.
Owners == \A j \in Jobs : state[j] = "active" => owner[j] \in Workers

\* Every step leaves each active job with a worker: only a commit makes a job
\* active and it writes its own worker into the row.
LEMMA OwnersNext == TypeInv /\ Owners /\ [Next]_vars => Owners'
  <1> SUFFICES ASSUME TypeInv, Owners, [Next]_vars PROVE Owners'
    OBVIOUS
  <1>0. state \in [Jobs -> States] /\ owner \in [Jobs -> Workers \cup {None}]
    BY DEF TypeInv, TypeOK
  <1>1. ASSUME UNCHANGED jobVars PROVE Owners'
    BY <1>1 DEF jobVars, Owners
  <1>2. ASSUME NEW w \in Workers, ReadQueues(w) \/ VisitQueue(w) \/ Select(w) \/ Update(w) \/ Abort(w)
        PROVE  UNCHANGED jobVars
    BY <1>2 DEF ReadQueues, VisitQueue, Select, Update, Abort
  <1>3. ASSUME NEW w \in Workers, Commit(w) PROVE Owners'
    BY <1>0, <1>3 DEF Commit, Owners
  <1>4. ASSUME NEW j \in Jobs, RowStep(j) PROVE Owners'
    BY <1>0, <1>4 DEF RowStep, Leave, Requeue, Enqueue, Cancel, StartRead, StartCommit, jobVars, Owners
  <1>5. ASSUME NEW q \in Queues,
               (\E b \in BOOLEAN : SetPaused(q, b)) \/ (\E n \in Limits[q] : SetLimit(q, n))
        PROVE  UNCHANGED jobVars
    BY <1>5 DEF SetPaused, SetLimit
  <1>6. CASE UNCHANGED vars
    BY <1>1, <1>6 DEF vars, jobVars
  <1> QED BY <1>1, <1>2, <1>3, <1>4, <1>5, <1>6 DEF Next, ClaimStep

\* Every step of the claim transaction is an abstract step or a stutter: the
\* commit is the abstract Hand, the steps before it change nothing abstract.
LEMMA RefinesNext ==
    TypeInv /\ LockInv /\ Owners /\ [Next]_vars => [Abstract!Next]_<<Avail, Held>>
  <1> SUFFICES ASSUME TypeInv, LockInv, Owners, [Next]_vars
               PROVE  [Abstract!Next]_<<Avail, Held>>
    OBVIOUS
  <1>1. ASSUME UNCHANGED jobVars PROVE UNCHANGED <<Avail, Held>>
    BY <1>1 DEF jobVars, Avail, Held
  <1>2. ASSUME NEW w \in Workers, ReadQueues(w) \/ VisitQueue(w) \/ Select(w) \/ Update(w) \/ Abort(w)
        PROVE  UNCHANGED jobVars
    BY <1>2 DEF ReadQueues, VisitQueue, Select, Update, Abort
  <1>3. ASSUME NEW w \in Workers, Commit(w) PROVE [Abstract!Next]_<<Avail, Held>>
    <2>1. got[w] \in SUBSET Jobs
      BY DEF TypeInv, TypeOK
    <2>2. Abstract!Hand(w, got[w]) \/ UNCHANGED <<Avail, Held>>
      BY <1>3, CommitRefines
    <2>3. Abstract!Hand(w, got[w]) => Abstract!Next
      BY <2>1 DEF Abstract!Next, Abstract!Hand
    <2> QED BY <2>2, <2>3
  <1>4. ASSUME NEW j \in Jobs, RowStep(j)
        PROVE  [Abstract!Next]_<<Avail, Held>>
    BY <1>4, OthersRefine DEF Abstract!Next, Owners
  <1>5. ASSUME NEW q \in Queues,
               (\E b \in BOOLEAN : SetPaused(q, b)) \/ (\E n \in Limits[q] : SetLimit(q, n))
        PROVE  UNCHANGED jobVars
    BY <1>5 DEF SetPaused, SetLimit
  <1>6. CASE UNCHANGED vars
    BY <1>1, <1>6 DEF vars, jobVars
  <1> QED BY <1>1, <1>2, <1>3, <1>4, <1>5, <1>6 DEF Next, ClaimStep

\* claim_jobs is exactly-once: its transactions, interleaved in any way with
\* one another and with every other writer, implement the atomic hand-out.
THEOREM ClaimingIsAtomic == Spec => ImplementsAtomicClaim
  <1>1. Init => Owners
    BY DEF Init, Owners
  <1>2. Spec => []Owners
    BY <1>1, TypeInit, TypeNext, OwnersNext, PTL DEF Spec
  <1> QED BY <1>2, LocksHold, RefinesInit, RefinesNext, PTL
          DEF Spec, ImplementsAtomicClaim, Abstract!Spec, Avail, Held

----------------------------------------------------------------------------
(* Limits.  Between counting and updating, a call has room for what it      *)
(* wants: in its batch, and in the limit it has read, as far as its own     *)
(* worker's jobs go.                                                        *)

Room(w) ==
    /\ Cardinality(got[w]) + want[w] <= Batch
    /\ Cardinality(Holding(w, at[w])) + want[w] <= lim[w][at[w]]

WithinLimit(w) ==
    \A q \in Queues :
        (\E j \in got[w] : QueueOf[j] = q) => Cardinality(Holding(w, q)) <= lim[w][q]

Bounded(w) ==
    /\ phase[w] = "idle" => got[w] = {}
    /\ Cardinality(got[w]) <= Batch
    /\ phase[w] \in {"select", "update"} => Room(w)
    /\ phase[w] = "update" =>
         Cardinality(cand[w]) <= want[w] /\ \A j \in cand[w] : QueueOf[j] = at[w]
    /\ WithinLimit(w)

\* What a worker holds is finite, and part of what it counts.
LEMMA Holdings == ASSUME TypeOK, NEW w \in Workers, NEW q \in Queues
                  PROVE  /\ IsFiniteSet(Holding(w, q)) /\ Cardinality(Holding(w, q)) \in Nat
                         /\ Cardinality(Holding(w, q)) <= ActiveCount(w, q)
  <1> DEFINE A == {j \in Jobs : QueueOf[j] = q /\ (state[j] \in Occupied \/ j \in got[w])}
  <1>1. IsFiniteSet(A)
    BY FiniteAssumption, FS_Subset
  <1>2. Holding(w, q) \subseteq A
    BY DEF Holding, Occupied
  <1> QED BY <1>1, <1>2, FS_Subset, FS_CardinalityType DEF ActiveCount

\* A call that others leave alone keeps its bounds if its worker gains nothing.
LEMMA BoundedKeeps ==
    ASSUME TypeInv, TypeInv', NEW w \in Workers, Bounded(w),
           phase'[w] = phase[w], lim'[w] = lim[w], at'[w] = at[w], want'[w] = want[w],
           cand'[w] = cand[w], got'[w] = got[w],
           \A q \in Queues : Holding(w, q)' \subseteq Holding(w, q)
    PROVE  Bounded(w)'
  <1>1. \A q \in Queues : Cardinality(Holding(w, q)') <= Cardinality(Holding(w, q))
    BY Holdings, FS_Subset DEF TypeInv
  <1>2. \A q \in Queues : /\ Cardinality(Holding(w, q)) \in Nat /\ Cardinality(Holding(w, q)') \in Nat
                          /\ lim[w][q] \in Nat
    <2>1. \A q \in Queues : IsFiniteSet(Holding(w, q)')
      BY Holdings, FS_Subset DEF TypeInv
    <2> QED BY <2>1, Holdings, Counts, FS_CardinalityType DEF TypeInv
  <1>3. want[w] \in Nat
    BY DEF TypeInv, TypeOK
  <1>4. WithinLimit(w)'
    BY <1>1, <1>2 DEF Bounded, WithinLimit
  <1>5. phase[w] \in {"select", "update"} => Room(w)'
    <2>1. SUFFICES ASSUME phase[w] \in {"select", "update"} PROVE Room(w)'
      OBVIOUS
    <2>2. at[w] \in Queues /\ Room(w)
      BY <2>1 DEF TypeInv, Bounded
    <2>3. /\ Cardinality(Holding(w, at[w])) + want[w] <= lim[w][at[w]]
          /\ Cardinality(got[w]) + want[w] <= Batch
      BY <2>2 DEF Room
    <2>4. PICK q \in Queues : q = at[w]
      BY <2>2
    <2>5. Cardinality(Holding(w, q)') + want[w] <= lim[w][q]
      BY <1>1, <1>2, <1>3, <2>3, <2>4
    <2>6. Room(w)' <=> /\ Cardinality(got[w]) + want[w] <= Batch
                       /\ Cardinality(Holding(w, q)') + want[w] <= lim[w][q]
      BY <2>4 DEF Room, Holding
    <2> QED BY <2>3, <2>5, <2>6
  <1> QED BY <1>4, <1>5 DEF Bounded

\* Another worker's step gives this worker nothing.
LEMMA OthersKeepHolding ==
    ASSUME TypeInv, LockInv, NEW v \in Workers, NEW w \in Workers, v # w,
           ClaimStep(v) \/ Abort(v)
    PROVE  /\ \A q \in Queues : Holding(w, q)' \subseteq Holding(w, q)
           /\ phase'[w] = phase[w] /\ lim'[w] = lim[w] /\ at'[w] = at[w] /\ want'[w] = want[w]
           /\ cand'[w] = cand[w] /\ got'[w] = got[w]
  <1>1. /\ phase \in [Workers -> Phases] /\ lim \in [Workers -> [Queues -> Nat]]
        /\ at \in [Workers -> Queues \cup {None}] /\ want \in [Workers -> Nat]
        /\ cand \in [Workers -> SUBSET Jobs] /\ got \in [Workers -> SUBSET Jobs]
    BY DEF TypeInv, TypeOK
  <1>2. /\ phase'[w] = phase[w] /\ lim'[w] = lim[w] /\ at'[w] = at[w] /\ want'[w] = want[w]
        /\ cand'[w] = cand[w] /\ got'[w] = got[w]
    BY <1>1 DEF ClaimStep, ReadQueues, VisitQueue, Select, Update, NextQueue, Commit, Abort, EndCall
  <1>3. \A j \in Jobs : state'[j] = "active" /\ owner'[j] = w => state[j] = "active" /\ owner[j] = w
    BY DEF ClaimStep, ReadQueues, VisitQueue, Select, Update, Commit, Abort, jobVars, TypeInv, TypeOK
  <1> QED BY <1>2, <1>3 DEF Holding

\* A call's own steps: it counts before it wants, and updates no more.
LEMMA OwnSteps ==
    ASSUME TypeInv, TypeInv', NEW w \in Workers, Bounded(w), ClaimStep(w) \/ Abort(w)
    PROVE  Bounded(w)'
  <1> USE NumbersAssumption
  <1>0. /\ phase \in [Workers -> Phases] /\ lim \in [Workers -> [Queues -> Nat]]
        /\ at \in [Workers -> Queues \cup {None}] /\ want \in [Workers -> Nat]
        /\ cand \in [Workers -> SUBSET Jobs] /\ got \in [Workers -> SUBSET Jobs]
        /\ todo \in [Workers -> SUBSET Queues]
    BY DEF TypeInv, TypeOK
  <1>1. CASE ReadQueues(w)
    <2>1. got[w] = {} /\ got' = got /\ phase'[w] = "loop"
      BY <1>0, <1>1 DEF ReadQueues, Bounded
    <2>2. Cardinality(got'[w]) <= Batch
      BY <2>1 DEF Bounded
    <2> QED BY <2>1, <2>2 DEF Bounded, WithinLimit
  <1>2. CASE VisitQueue(w)
    <2>1. PICK q \in todo[w] :
            \/ UNCHANGED <<phase, at, want>>
            \/ /\ ~Full(w, q)
               /\ phase' = [phase EXCEPT ![w] = "select"]
               /\ at' = [at EXCEPT ![w] = q]
               /\ want' = [want EXCEPT ![w] = Take(w, q)]
      BY <1>2 DEF VisitQueue
    <2>2. q \in Queues /\ UNCHANGED <<state, owner, lim, cand, got>>
      BY <1>0, <1>2 DEF VisitQueue, jobVars
    <2>3. \A p \in Queues : Holding(w, p)' = Holding(w, p)
      BY <2>2 DEF Holding
    <2>4. CASE UNCHANGED <<phase, at, want>>
      BY <2>2, <2>3, <2>4, BoundedKeeps
    <2>5. CASE phase' = [phase EXCEPT ![w] = "select"] /\ at' = [at EXCEPT ![w] = q]
               /\ want' = [want EXCEPT ![w] = Take(w, q)]
      <3>1. phase'[w] = "select" /\ at'[w] = q /\ want'[w] = Take(w, q)
        BY <1>0, <2>5
      <3>2. Cardinality(got[w]) + Take(w, q) <= Batch
        BY <2>2, Counts DEF Take, MinOf, TypeInv
      <3>3. Cardinality(Holding(w, q)) + Take(w, q) <= lim[w][q]
        BY <2>2, Counts, Holdings DEF Take, MinOf, Capacity, TypeInv
      <3>4. Room(w)' <=> /\ Cardinality(got[w]) + Take(w, q) <= Batch
                         /\ Cardinality(Holding(w, q)) + Take(w, q) <= lim[w][q]
        BY <2>2, <3>1 DEF Room, Holding
      <3>5. WithinLimit(w)' <=> WithinLimit(w)
        BY <2>2 DEF WithinLimit, Holding
      <3> QED BY <2>2, <3>1, <3>2, <3>3, <3>4, <3>5 DEF Bounded
    <2> QED BY <2>1, <2>4, <2>5
  <1>3. CASE Select(w)
    <2>1. PICK C \in First(Eligible(w), want[w]) :
            /\ cand' = [cand EXCEPT ![w] = C]
            /\ \/ phase' = [phase EXCEPT ![w] = "update"] /\ UNCHANGED <<at, want>>
               \/ NextQueue(w)
      BY <1>3 DEF Select
    <2>2. UNCHANGED <<state, owner, lim, got>> /\ phase[w] = "select"
      BY <1>3 DEF Select, jobVars
    <2>3. C \subseteq Eligible(w) /\ Cardinality(C) = MinOf(want[w], Cardinality(Eligible(w)))
      BY DEF First
    <2>4. Cardinality(Eligible(w)) \in Nat
      <3>1. IsFiniteSet(Eligible(w))
        BY FiniteAssumption, FS_Subset DEF Eligible
      <3> QED BY <3>1, FS_CardinalityType
    <2>5. Cardinality(C) <= want[w] /\ \A j \in C : QueueOf[j] = at[w]
      BY <1>0, <2>3, <2>4 DEF MinOf, Eligible
    <2>6. WithinLimit(w)' <=> WithinLimit(w)
      BY <2>2 DEF WithinLimit, Holding
    <2>7. /\ cand'[w] = C
          /\ \/ phase'[w] = "loop"
             \/ phase'[w] = "update" /\ UNCHANGED <<at, want>> /\ (Room(w)' <=> Room(w))
      <3>1. UNCHANGED <<at, want>> => (Room(w)' <=> Room(w))
        BY <2>2 DEF Room, Holding
      <3> QED BY <1>0, <2>1, <3>1 DEF NextQueue
    <2> QED BY <2>2, <2>5, <2>6, <2>7 DEF Bounded
  <1>4. CASE Update(w)
    <2>1. /\ got'[w] = got[w] \cup Won(w) /\ phase'[w] = "loop"
          /\ UNCHANGED <<state, owner, lim>> /\ phase[w] = "update"
      BY <1>0, <1>4 DEF Update, NextQueue, jobVars
    <2>2. /\ Room(w) /\ Cardinality(cand[w]) <= want[w] /\ at[w] \in Queues
          /\ \A j \in cand[w] : QueueOf[j] = at[w]
      BY <2>1 DEF Bounded, TypeInv
    <2>3. Won(w) \subseteq cand[w] /\ IsFiniteSet(cand[w]) /\ IsFiniteSet(got[w])
      BY <2>2, Counts DEF Won, TypeInv
    <2>4. IsFiniteSet(Won(w)) /\ Cardinality(Won(w)) \in Nat /\ Cardinality(Won(w)) <= want[w]
      BY <1>0, <2>2, <2>3, FS_Subset, FS_CardinalityType
    <2>5. ASSUME NEW S, IsFiniteSet(S)
          PROVE  Cardinality(S \cup Won(w)) <= Cardinality(S) + want[w]
      <3>1. IsFiniteSet(S \cap Won(w))
        <4>1. S \cap Won(w) \in SUBSET S
          OBVIOUS
        <4> QED BY <2>5, <4>1, FS_Subset
      <3>2. Cardinality(S \cup Won(w)) = Cardinality(S) + Cardinality(Won(w)) - Cardinality(S \cap Won(w))
        BY <2>4, <2>5, FS_Union
      <3>3. /\ Cardinality(S \cap Won(w)) \in Nat /\ Cardinality(S) \in Nat
            /\ Cardinality(Won(w)) \in Nat /\ Cardinality(Won(w)) <= want[w] /\ want[w] \in Nat
        BY <1>0, <2>4, <2>5, <3>1, FS_CardinalityType
      <3> QED BY <3>2, <3>3
    <2>6. Cardinality(got'[w]) <= Batch
      <3>1. Cardinality(got'[w]) \in Nat /\ Cardinality(got[w]) \in Nat
        <4>1. IsFiniteSet(got[w] \cup Won(w))
          BY <2>3, <2>4, FS_Union
        <4>2. Cardinality(got[w] \cup Won(w)) \in Nat
          BY <4>1, FS_CardinalityType
        <4>3. Cardinality(got[w]) \in Nat
          BY <2>3, FS_CardinalityType
        <4> QED BY <2>1, <4>2, <4>3
      <3>2. Cardinality(got'[w]) <= Cardinality(got[w]) + want[w]
        BY <2>1, <2>3, <2>5
      <3>3. Cardinality(got[w]) + want[w] <= Batch /\ want[w] \in Nat
        BY <1>0, <2>2 DEF Room
      <3> QED BY <3>1, <3>2, <3>3
    <2>7. ASSUME NEW q \in Queues, \E j \in got'[w] : QueueOf[j] = q
          PROVE  Cardinality(Holding(w, q)') <= lim[w][q]
      <3>1. CASE q = at[w]
        <4>1. Holding(w, q)' \subseteq Holding(w, q) \cup Won(w)
          BY <2>1 DEF Holding
        <4>2. IsFiniteSet(Holding(w, q)) /\ Cardinality(Holding(w, q)) \in Nat
          BY Holdings DEF TypeInv
        <4>3. Cardinality(Holding(w, q)') <= Cardinality(Holding(w, q) \cup Won(w))
          BY <2>4, <4>1, <4>2, FS_Union, FS_Subset
        <4>4. Cardinality(Holding(w, q)) + want[w] <= lim[w][q]
          BY <2>2, <3>1 DEF Room
        <4>5. /\ Cardinality(Holding(w, q)') \in Nat /\ Cardinality(Holding(w, q) \cup Won(w)) \in Nat
              /\ lim[w][q] \in Nat
          BY <2>4, <4>1, <4>2, FS_Union, FS_Subset, FS_CardinalityType, Counts DEF TypeInv
        <4> QED BY <1>0, <2>5, <4>2, <4>3, <4>4, <4>5
      <3>2. CASE q # at[w]
        <4>1. \A j \in Won(w) : QueueOf[j] # q
          BY <2>2, <2>3, <3>2
        <4>2. Holding(w, q)' = Holding(w, q)
          BY <2>1, <4>1 DEF Holding
        <4>3. \E j \in got[w] : QueueOf[j] = q
          BY <2>1, <2>7, <4>1
        <4> QED BY <4>2, <4>3 DEF Bounded, WithinLimit
      <3> QED BY <3>1, <3>2
    <2>8. WithinLimit(w)'
      BY <2>1, <2>7 DEF WithinLimit
    <2> QED BY <2>1, <2>6, <2>8 DEF Bounded
  <1>5. ASSUME EndCall(w) PROVE Bounded(w)'
    <2>1. got'[w] = {} /\ phase'[w] = "idle"
      BY <1>0, <1>5 DEF EndCall
    <2>2. Cardinality(got'[w]) <= Batch
      BY <2>1, FS_EmptySet
    <2> QED BY <2>1, <2>2 DEF Bounded, WithinLimit
  <1>6. CASE Commit(w) \/ Abort(w)
    BY <1>5, <1>6 DEF Commit, Abort
  <1> QED BY <1>1, <1>2, <1>3, <1>4, <1>6 DEF ClaimStep

AllBounded == \A w \in Workers : Bounded(w)

\* Everyone else only takes jobs from workers.
LEMMA BoundedNext == TypeInv /\ LockInv /\ AllBounded /\ [Next]_vars => AllBounded'
  <1> SUFFICES ASSUME TypeInv, LockInv, AllBounded, [Next]_vars, NEW w \in Workers
               PROVE  Bounded(w)'
    BY DEF AllBounded
  <1>0. TypeInv' /\ Bounded(w)
    BY TypeNext DEF AllBounded
  <1>1. ASSUME UNCHANGED callVars,
               \A j \in Jobs : state'[j] = "active" /\ owner'[j] = w => state[j] = "active" /\ owner[j] = w
        PROVE  Bounded(w)'
    <2>1. \A q \in Queues : Holding(w, q)' \subseteq Holding(w, q)
      BY <1>1 DEF callVars, Holding
    <2> QED BY <1>0, <1>1, <2>1, BoundedKeeps DEF callVars
  <1>2. ASSUME NEW v \in Workers, ClaimStep(v) \/ Abort(v) PROVE Bounded(w)'
    <2>1. CASE v = w
      BY <1>0, <1>2, <2>1, OwnSteps
    <2>2. CASE v # w
      BY <1>0, <1>2, <2>2, OthersKeepHolding, BoundedKeeps
    <2> QED BY <2>1, <2>2
  <1>3. ASSUME NEW j \in Jobs, RowStep(j)
        PROVE  Bounded(w)'
    <2>1. UNCHANGED callVars
      BY <1>3 DEF RowStep, Leave, Requeue, Enqueue, Cancel, StartRead, StartCommit
    <2>2. state \in [Jobs -> States] /\ owner \in [Jobs -> Workers \cup {None}]
      BY DEF TypeInv, TypeOK
    <2>3. \A i \in Jobs : state'[i] = "active" /\ owner'[i] = w => state[i] = "active" /\ owner[i] = w
      BY <1>3, <2>2
         DEF RowStep, Leave, Requeue, Enqueue, Cancel, StartRead, StartCommit, jobVars, Occupied
    <2> QED BY <1>1, <2>1, <2>3
  <1>4. ASSUME NEW q \in Queues,
               (\E b \in BOOLEAN : SetPaused(q, b)) \/ (\E n \in Limits[q] : SetLimit(q, n))
        PROVE  Bounded(w)'
    BY <1>1, <1>4 DEF SetPaused, SetLimit, jobVars
  <1>5. CASE UNCHANGED vars
    BY <1>1, <1>5 DEF vars, callVars
  <1> QED BY <1>2, <1>3, <1>4, <1>5 DEF Next

\* No call has anything at first.
LEMMA BoundedInit == Init => AllBounded
  <1> SUFFICES ASSUME Init, NEW w \in Workers PROVE Bounded(w)
    BY DEF AllBounded
  <1>1. got[w] = {} /\ phase[w] = "idle" /\ Cardinality({}) = 0 /\ Batch \in Nat
    BY NumbersAssumption, FS_EmptySet DEF Init
  <1> QED BY <1>1 DEF Bounded, WithinLimit

\* The bounds on buffered and granted jobs hold in every reachable state.
LEMMA BoundsHold == Spec => []AllBounded
  BY TypeInit, TypeNext, LockInit, LockNext, BoundedInit, BoundedNext, PTL DEF Spec

\* A claim never returns more jobs than were asked for.
THEOREM BatchesAreBounded == Spec => []BatchBounded
  <1>1. AllBounded => BatchBounded
    BY DEF AllBounded, Bounded, BatchBounded
  <1> QED BY <1>1, BoundsHold, PTL

\* No worker exceeds a queue's limit by its own claims.
THEOREM WorkersStayWithinLimits == Spec => []PerWorkerWithinLimit
  <1>1. AllBounded => PerWorkerWithinLimit
    BY DEF AllBounded, Bounded, WithinLimit, PerWorkerWithinLimit
  <1> QED BY <1>1, BoundsHold, PTL
=============================================================================
