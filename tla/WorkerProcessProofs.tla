------------------------ MODULE WorkerProcessProofs ------------------------
(* Theorems about WorkerProcess: every number of jobs and threads, every    *)
(* batch size, every lease and heartbeat interval that fit together.        *)
EXTENDS WorkerProcess, FiniteSetTheorems, TLAPS

----------------------------------------------------------------------------
(* The counter _active and the control of the main thread.                  *)

\* Threads that have raised _active and not lowered it.
Busy == {t \in Threads : pool[t].at \in {"starting", "handling", "leaving"}}

\* Nothing of the worker's is anywhere.
Empty == /\ inbox = {} /\ \A j \in Jobs : backlog[j] = 0
         /\ \A t \in Threads : pool[t] = Resting

MainInv ==
    /\ active = Cardinality(Busy)
    /\ main # "dispatching" => inbox = {}
    /\ main = "draining" => stop
    /\ main \in {"registering", "exited"} => Empty
    /\ main = "registering" \/ (main = "exited" /\ ~stop) => Owned = {}

TypeInv == TypeOK /\ MainInv

\* Busy threads are threads.
LEMMA BusyCount == IsFiniteSet(Threads) /\ IsFiniteSet(Busy) /\ Cardinality(Threads) \in Nat
                   /\ Cardinality(Busy) \in 0 .. Cardinality(Threads)
  <1>1. IsFiniteSet(Threads) /\ Busy \subseteq Threads
    BY ThreadsAssumption DEF Busy
  <1> QED BY <1>1, FS_Subset, FS_CardinalityType

\* No thread is busy at first.
LEMMA TypeInit == Init => TypeInv
  <1> SUFFICES ASSUME Init PROVE TypeInv
    OBVIOUS
  <1> USE ThreadsAssumption, TicksAssumption
  <1>1. Busy = {}
    BY DEF Init, Busy, Resting
  <1>2. Cardinality(Busy) = 0 /\ Cardinality(Threads) \in Nat
    BY <1>1, FS_EmptySet, BusyCount
  <1>3. TypeOK
    <2>1. /\ want \in 0 .. BatchSize /\ active \in 0 .. Cardinality(Threads)
          /\ beat \in Nat /\ beat <= BeatTicks /\ missed \in 0 .. MaxMissed + 1
          /\ backlog \in [Jobs -> Nat]
      BY <1>2 DEF Init
    <2>2. pool \in [Threads -> [at : Steps, job : Jobs \cup {None}]]
          /\ \A t \in Threads : pool[t].job = None /\ pool[t].at = "idle"
      BY DEF Init, Steps, Resting
    <2>3. lease \in [Jobs -> 0 .. LeaseTicks] /\ state \in [Jobs -> JobStates]
      BY DEF Init, JobStates
    <2> QED BY <2>1, <2>2, <2>3 DEF Init, TypeOK, MainStates
  <1>4. MainInv
    BY <1>2 DEF Init, MainInv, Empty, Owned
  <1> QED BY <1>3, <1>4 DEF TypeInv

\* One step of a thread that keeps its place in or out of Busy.
LEMMA BusyKeeps ==
    ASSUME TypeInv, NEW t \in Threads, NEW step \in Steps, NEW j \in Jobs \cup {None},
           pool' = [pool EXCEPT ![t] = [at |-> step, job |-> j]],
           t \in Busy <=> step \in {"starting", "handling", "leaving"},
           UNCHANGED active
    PROVE  active' = Cardinality(Busy')
  <1>1. pool \in [Threads -> [at : Steps, job : Jobs \cup {None}]]
    BY DEF TypeInv, TypeOK
  <1>2. Busy' = Busy
    BY <1>1 DEF Busy
  <1> QED BY <1>2 DEF TypeInv, MainInv

\* The main thread's steps keep the types and the control.
LEMMA MainStepType == TypeInv /\ MainStep => TypeInv'
  <1> SUFFICES ASSUME TypeInv, MainStep PROVE TypeInv'
    OBVIOUS
  <1> USE ThreadsAssumption, TicksAssumption
  <1>0. Cardinality(Threads) \in Nat /\ active \in 0 .. Cardinality(Threads)
    BY BusyCount DEF TypeInv, TypeOK
  <1>1. CASE Register
    BY <1>1 DEF Register, rows, poolVars, beatVars, TypeInv, TypeOK, MainInv, MainStates,
                Busy, Empty, Owned
  <1>2. CASE Poll
    <2>1. want' \in 0 .. BatchSize
      BY <1>0, <1>2 DEF Poll, LeastOf
    <2> QED BY <1>2, <2>1 DEF Poll, Serving, rows, poolVars, beatVars, TypeInv, TypeOK, MainInv,
                MainStates, Busy, Empty, Owned
  <1>3. CASE ClaimReply
    <2>1. state' \in [Jobs -> JobStates] /\ lease' \in [Jobs -> 0 .. LeaseTicks]
      BY <1>3 DEF ClaimReply, TypeInv, TypeOK, JobStates
    <2>2. inbox' \subseteq Jobs /\ main' \in {"dispatching", "polling"}
          /\ (main' # "dispatching" => inbox' = {}) /\ want' \in 0 .. BatchSize
      BY <1>3 DEF ClaimReply
    <2> QED BY <1>3, <2>1, <2>2 DEF ClaimReply, poolVars, beatVars, TypeInv, TypeOK, MainInv,
                MainStates, Busy
  <1>4. CASE Dispatch
    BY <1>4 DEF Dispatch, rows, beatVars, TypeInv, TypeOK, MainInv, MainStates, Busy
  <1>5. CASE StartDrain
    BY <1>5 DEF StartDrain, rows, poolVars, beatVars, TypeInv, TypeOK, MainInv, MainStates, Busy
  <1>6. CASE Exit
    <2>1. lease' \in [Jobs -> 0 .. LeaseTicks]
      BY <1>6 DEF Exit, TypeInv, TypeOK
    <2> QED BY <1>6, <2>1 DEF Exit, Drained, poolVars, beatVars, TypeInv, TypeOK, MainInv,
                MainStates, Busy, Empty
  <1> QED BY <1>1, <1>2, <1>3, <1>4, <1>5, <1>6 DEF MainStep

\* So do the steps of a pool thread; it counts itself while it has a job.
LEMMA ThreadStepType == ASSUME TypeInv, NEW t \in Threads, ThreadStep(t) PROVE TypeInv'
  <1> USE ThreadsAssumption, TicksAssumption
  <1>0. /\ IsFiniteSet(Busy) /\ Busy \subseteq Threads /\ active = Cardinality(Busy)
        /\ Cardinality(Threads) \in Nat /\ Cardinality(Busy) \in Nat
        /\ pool \in [Threads -> [at : Steps, job : Jobs \cup {None}]]
        /\ \A u \in Threads : pool[u].job = None <=> pool[u].at = "idle"
    BY BusyCount DEF TypeInv, TypeOK, MainInv, Busy
  <1>1. ~Empty => main \notin {"registering", "exited"}
    BY DEF TypeInv, MainInv
  <1>2. main \notin {"registering", "exited"}
    BY <1>1 DEF ThreadStep, Take, Enter, Start, Report, Leave, Empty, Resting
  <1>3. CASE Take(t)
    <2>1. PICK j \in Jobs : /\ backlog[j] > 0
                            /\ pool' = [pool EXCEPT ![t] = [at |-> "taken", job |-> j]]
                            /\ backlog' = [backlog EXCEPT ![j] = @ - 1]
      BY <1>3 DEF Take
    <2>2. active' = Cardinality(Busy')
      <3>1. "taken" \in Steps /\ j \in Jobs \cup {None} /\ UNCHANGED active
        BY <1>3 DEF Take, Steps, TypeInv, TypeOK
      <3>2. t \notin Busy
        BY <1>3 DEF Take, Busy, Resting
      <3>3. ~("taken" \in {"starting", "handling", "leaving"})
        OBVIOUS
      <3> QED BY <2>1, <3>1, <3>2, <3>3, BusyKeeps
    <2>3. /\ pool' \in [Threads -> [at : Steps, job : Jobs \cup {None}]]
          /\ \A u \in Threads : pool'[u].job = None <=> pool'[u].at = "idle"
      BY <1>0, <2>1 DEF Steps, TypeInv, TypeOK
    <2> QED BY <1>2, <1>3, <2>1, <2>2, <2>3 DEF Take, rows, mainVars, beatVars, TypeInv, TypeOK, MainInv
  <1>4. ASSUME NEW step \in Steps \ {"idle"}, Goto(t, step), pool[t].at # "idle"
        PROVE  /\ pool' \in [Threads -> [at : Steps, job : Jobs \cup {None}]]
               /\ \A u \in Threads : pool'[u].job = None <=> pool'[u].at = "idle"
               /\ Busy' = IF step \in {"starting", "handling", "leaving"}
                          THEN Busy \cup {t} ELSE Busy \ {t}
    <2>1. pool' = [pool EXCEPT ![t] = [pool[t] EXCEPT !.at = step]]
      BY <1>4 DEF Goto
    <2>2. pool'[t].at = step /\ pool'[t].job = pool[t].job /\ pool'[t] \in [at : Steps, job : Jobs \cup {None}]
      BY <1>0, <2>1
    <2>3. \A u \in Threads : u # t => pool'[u] = pool[u]
      BY <1>0, <2>1
    <2>4. pool' \in [Threads -> [at : Steps, job : Jobs \cup {None}]]
      BY <1>0, <2>1, <2>2
    <2>5. \A u \in Threads : pool'[u].job = None <=> pool'[u].at = "idle"
      BY <1>0, <1>4, <2>2, <2>3
    <2>6. Busy' = IF step \in {"starting", "handling", "leaving"}
                  THEN Busy \cup {t} ELSE Busy \ {t}
      BY <2>2, <2>3 DEF Busy
    <2> QED BY <2>4, <2>5, <2>6
  <1>5. CASE Enter(t)
    <2>1. /\ active' = active + 1 /\ Goto(t, "starting") /\ pool[t].at = "taken"
          /\ UNCHANGED <<rows, stop, mainVars, backlog, beatVars>>
      BY <1>5 DEF Enter
    <2>2. t \notin Busy /\ Busy' = Busy \cup {t}
      BY <1>4, <2>1 DEF Busy, Steps
    <2>3. active' = Cardinality(Busy') /\ Busy' \subseteq Threads
      BY <1>0, <2>1, <2>2, FS_AddElement
    <2>4. active' \in 0 .. Cardinality(Threads)
      BY <1>0, <2>3, FS_Subset, FS_CardinalityType
    <2> QED BY <1>2, <1>4, <2>1, <2>3, <2>4 DEF rows, mainVars, beatVars, TypeInv, TypeOK, MainInv, Steps
  <1>6. CASE Start(t)
    <2>1. /\ \E step \in {"handling", "leaving"} : Goto(t, step)
          /\ pool[t].at = "starting" /\ state' \in [Jobs -> JobStates]
          /\ UNCHANGED <<lease, stop, mainVars, backlog, active, beatVars>>
      BY <1>0, <1>6 DEF Start, TypeInv, TypeOK, JobStates
    <2>2. Busy' = Busy
      BY <1>4, <2>1 DEF Busy, Steps
    <2> QED BY <1>0, <1>2, <1>4, <2>1, <2>2 DEF mainVars, beatVars, TypeInv, TypeOK, MainInv, Steps
  <1>7. CASE Report(t)
    <2>1. /\ Goto(t, "leaving") /\ pool[t].at = "handling"
          /\ UNCHANGED <<stop, mainVars, backlog, active, beatVars>>
      BY <1>7 DEF Report
    <2>2. state' \in [Jobs -> JobStates] /\ lease' \in [Jobs -> 0 .. LeaseTicks]
      BY <1>7 DEF Report, rows, TypeInv, TypeOK, JobStates
    <2>3. Busy' = Busy
      BY <1>4, <2>1 DEF Busy, Steps
    <2> QED BY <1>0, <1>2, <1>4, <2>1, <2>2, <2>3 DEF mainVars, beatVars, TypeInv, TypeOK, MainInv, Steps
  <1>8. CASE Leave(t)
    <2>1. /\ active' = active - 1 /\ pool' = [pool EXCEPT ![t] = Resting] /\ pool[t].at = "leaving"
          /\ UNCHANGED <<rows, stop, mainVars, backlog, beatVars>>
      BY <1>8 DEF Leave
    <2>2. t \in Busy /\ Busy' = Busy \ {t}
      BY <1>0, <2>1 DEF Busy, Resting
    <2>3. active' = Cardinality(Busy') /\ Busy' \subseteq Threads
      BY <1>0, <2>1, <2>2, FS_RemoveElement
    <2>4. active' \in 0 .. Cardinality(Threads)
      BY <1>0, <2>3, FS_Subset, FS_CardinalityType
    <2>5. /\ pool' \in [Threads -> [at : Steps, job : Jobs \cup {None}]]
          /\ \A u \in Threads : pool'[u].job = None <=> pool'[u].at = "idle"
      BY <1>0, <2>1 DEF Steps, Resting
    <2> QED BY <1>2, <2>1, <2>3, <2>4, <2>5 DEF rows, mainVars, beatVars, TypeInv, TypeOK, MainInv
  <1> QED BY <1>3, <1>5, <1>6, <1>7, <1>8 DEF ThreadStep

\* And everything else, which touches neither the counter nor the control.
LEMMA TypeNext == TypeInv /\ [Next]_vars => TypeInv'
  <1> SUFFICES ASSUME TypeInv, [Next]_vars PROVE TypeInv'
    OBVIOUS
  <1> USE TicksAssumption
  <1>1. CASE UNCHANGED vars
    BY <1>1 DEF vars, TypeInv, TypeOK, MainInv, Busy, Empty, Owned
  <1>2. CASE Signal
    BY <1>2 DEF Signal, rows, mainVars, poolVars, beatVars, TypeInv, TypeOK, MainInv, Busy, Empty, Owned
  <1>3. CASE SendBeat
    BY <1>3 DEF SendBeat, rows, mainVars, poolVars, TypeInv, TypeOK, MainInv, Busy, Empty, Owned
  <1>4. CASE BeatWrites \/ LateBeatWrites
    <2>1. lease' \in [Jobs -> 0 .. LeaseTicks]
      BY <1>4 DEF BeatWrites, LateBeatWrites, Renew, Renewal, TypeInv, TypeOK
    <2>2. /\ UNCHANGED <<state, stop, mainVars, poolVars, beat, missed>>
          /\ post' = post \/ (post = "sent" /\ post' = "written")
      BY <1>4 DEF BeatWrites, LateBeatWrites, beatVars
    <2> QED BY <2>1, <2>2 DEF mainVars, poolVars, TypeInv, TypeOK, MainInv, Busy, Empty, Owned
  <1>6. CASE BeatReturns
    <2>1. missed' \in 0 .. MaxMissed + 1
      BY <1>6 DEF BeatReturns, TypeInv, TypeOK
    <2> QED BY <1>6, <2>1 DEF BeatReturns, rows, mainVars, poolVars, TypeInv, TypeOK, MainInv,
                Busy, Empty, Owned
  <1>7. CASE Tick
    <2>1. /\ beat' \in Nat /\ (post' = "none" => beat' <= BeatTicks)
          /\ missed' \in 0 .. MaxMissed + 1
      BY <1>7 DEF Tick, LeastOf, TypeInv, TypeOK
    <2>2. lease' \in [Jobs -> 0 .. LeaseTicks]
      BY <1>7 DEF Tick, Less, TypeInv, TypeOK
    <2> QED BY <1>7, <2>1, <2>2 DEF Tick, mainVars, poolVars, TypeInv, TypeOK, MainInv, Busy, Empty, Owned
  <1>5. ASSUME NEW j \in Jobs, Reap(j) \/ OtherClaims(j) \/ Enqueue(j) PROVE TypeInv'
    <2>1. /\ state' \in [Jobs -> JobStates] /\ Owned' \subseteq Owned
          /\ UNCHANGED <<lease, stop, mainVars, poolVars, beatVars>>
      BY <1>5 DEF Reap, OtherClaims, Enqueue, Owned, TypeInv, TypeOK, JobStates
    <2> QED BY <2>1 DEF mainVars, poolVars, beatVars, TypeInv, TypeOK, MainInv, Busy, Empty
  <1> QED BY <1>1, <1>2, <1>3, <1>4, <1>5, <1>6, <1>7, MainStepType, ThreadStepType DEF Next

\* The process's data are well-typed; _active never exceeds the concurrency.
THEOREM TypeCorrect == Spec => []TypeOK
  <1>1. Spec => []TypeInv
    BY TypeInit, TypeNext, PTL DEF Spec
  <1> QED BY <1>1, PTL DEF TypeInv

----------------------------------------------------------------------------
(* Leases.  What is left of a lease outlasts the heartbeats that may still  *)
(* fail, each of which takes PromptTicks and is followed by BeatTicks of    *)
(* sleep, and the one after them up to the server's commit.                 *)

\* Ticks that k more heartbeats and the sleeps after them take at most.
Rounds(k) == k * (PromptTicks + BeatTicks)

\* Ticks until the commit of the next heartbeat that cannot fail.
Margin ==
    IF post = "none" THEN (BeatTicks - beat) + Rounds(MaxMissed - missed) + PromptTicks
    ELSE IF post = "sent" THEN (PromptTicks - beat) + Rounds(MaxMissed - missed)
    ELSE (PromptTicks - beat) + Rounds(MaxMissed + 1)

Leased ==
    Steady => /\ post # "none" => beat <= PromptTicks
              /\ Beating => \A j \in Owned : lease[j] > Margin

\* One heartbeat more is one round more; all that may fail fit into a lease.
LEMMA RoundLaws ==
    /\ \A k \in Nat : Rounds(k) \in Nat /\ Rounds(k + 1) = Rounds(k) + PromptTicks + BeatTicks
    /\ \A k \in Nat : k <= MaxMissed => Rounds(k) <= Rounds(MaxMissed)
    /\ Rounds(MaxMissed + 1) + PromptTicks < LeaseTicks
  <1> USE TicksAssumption
  <1>1. \A r \in Nat, k, m \in Nat :
          k * r \in Nat /\ (k + 1) * r = k * r + r /\ (k <= m => k * r <= m * r)
    OBVIOUS
  <1>2. PromptTicks + BeatTicks \in Nat
    OBVIOUS
  <1> QED BY <1>1, <1>2, LeaseAssumption DEF Rounds

\* A heartbeat due, then at most MaxMissed more: still within a lease.
LEMMA Margins == ASSUME TypeInv, Leased, Steady
                 PROVE  Margin \in Nat /\ Margin < LeaseTicks
  <1> USE TicksAssumption
  <1>1. /\ missed \in 0 .. MaxMissed /\ beat \in Nat /\ post \in {"none", "sent", "written"}
        /\ (post = "none" => beat <= BeatTicks) /\ (post # "none" => beat <= PromptTicks)
    BY DEF TypeInv, TypeOK, Leased, Steady
  <1>2. MaxMissed - missed \in Nat /\ MaxMissed - missed <= MaxMissed
    BY <1>1
  <1>3. /\ Rounds(MaxMissed - missed) \in Nat /\ Rounds(MaxMissed - missed) <= Rounds(MaxMissed)
        /\ Rounds(MaxMissed) \in Nat
        /\ Rounds(MaxMissed + 1) = Rounds(MaxMissed) + PromptTicks + BeatTicks
    BY <1>2, RoundLaws
  <1> QED BY <1>1, <1>3, RoundLaws DEF Margin

\* Once a heartbeat was slow, or one too many has failed, that is on record.
LEMMA SteadyBefore == TypeInv /\ [Next]_vars /\ Steady' => Steady
  <1> SUFFICES ASSUME TypeInv, [Next]_vars, ~Steady PROVE ~Steady'
    OBVIOUS
  <1>0. missed \in Nat /\ MaxMissed \in Nat
    BY TicksAssumption DEF TypeInv, TypeOK
  <1>1. CASE Tick \/ BeatReturns
    BY <1>0, <1>1 DEF Tick, BeatReturns, Steady
  <1>2. CASE ~(Tick \/ BeatReturns)
    <2>1. UNCHANGED missed
      BY <1>2 DEF Next, MainStep, Register, Poll, ClaimReply, Dispatch, StartDrain, Exit, SendBeat,
             BeatWrites, LateBeatWrites, ThreadStep, Take, Enter, Start, Report, Leave, Reap,
             OtherClaims, Enqueue, Signal, beatVars, vars
    <2> QED BY <2>1 DEF Steady
  <1> QED BY <1>1, <1>2

\* A heartbeat that has been prompt so far is still prompt, or not steady.
LEMMA PromptNext == TypeInv /\ Leased /\ [Next]_vars
                    => (Steady' /\ post' # "none" => beat' <= PromptTicks)
  <1> SUFFICES ASSUME TypeInv, Leased, [Next]_vars, Steady', post' # "none"
               PROVE  beat' <= PromptTicks
    OBVIOUS
  <1>0. /\ post # "none" => beat <= PromptTicks
        /\ beat \in Nat /\ missed \in Nat
    BY SteadyBefore DEF Leased, TypeInv, TypeOK
  <1>1. CASE Tick
    <2>1. post # "none" /\ beat' = beat + 1
      BY <1>1 DEF Tick
    <2>2. beat < PromptTicks
      BY <1>0, <1>1, <2>1, TicksAssumption DEF Tick, Steady
    <2> QED BY <1>0, <2>1, <2>2, TicksAssumption
  <1>2. CASE SendBeat \/ BeatWrites \/ BeatReturns
    BY <1>0, <1>2, TicksAssumption DEF SendBeat, BeatWrites, BeatReturns
  <1>3. CASE ~(Tick \/ SendBeat \/ BeatWrites \/ BeatReturns)
    <2>1. UNCHANGED <<post, beat>>
      BY <1>3 DEF Next, MainStep, Register, Poll, ClaimReply, Dispatch, StartDrain, Exit,
             LateBeatWrites, ThreadStep, Take, Enter, Start, Report, Leave, Reap,
             OtherClaims, Enqueue, Signal, beatVars, vars
    <2> QED BY <1>0, <2>1
  <1> QED BY <1>1, <1>2, <1>3

\* Claims and heartbeats renew to a whole lease; a tick costs lease and margin
\* alike; a failed heartbeat moves the margin to the next one.
LEMMA LeasedNext == TypeInv /\ Leased /\ [Next]_vars => Leased'
  <1> SUFFICES ASSUME TypeInv, Leased, [Next]_vars, Steady', Beating'
               PROVE  \A j \in Owned' : lease'[j] > Margin'
    BY PromptNext DEF Leased
  <1> USE TicksAssumption
  <1>0. /\ Steady /\ Margin \in Nat /\ Margin < LeaseTicks
        /\ lease \in [Jobs -> 0 .. LeaseTicks] /\ state \in [Jobs -> JobStates]
        /\ beat \in Nat /\ missed \in 0 .. MaxMissed /\ post \in {"none", "sent", "written"}
        /\ post # "none" => beat <= PromptTicks
        /\ Owned \subseteq Jobs /\ Owned' \subseteq Jobs
    <2>1. Steady
      BY SteadyBefore
    <2> QED BY <2>1, Margins DEF TypeInv, TypeOK, Owned, Leased, Steady
  <1>1. ASSUME Owned' \subseteq Owned, Beating, UNCHANGED beatVars,
               \A j \in Owned' : lease'[j] = lease[j]
        PROVE  \A j \in Owned' : lease'[j] > Margin'
    BY <1>0, <1>1 DEF Leased, Margin, beatVars
  <1>2. CASE UNCHANGED vars
    BY <1>1, <1>2 DEF vars, Owned, Beating, beatVars
  <1>3. CASE Register
    BY <1>3 DEF Register, TypeInv, MainInv, Owned, rows
  <1>4. CASE Poll \/ Dispatch \/ StartDrain \/ Signal
    <2>1. Beating /\ UNCHANGED <<rows, beatVars>>
      BY <1>4 DEF Poll, Serving, Dispatch, StartDrain, Signal, Beating
    <2> QED BY <1>1, <2>1 DEF rows, Owned
  <1>5. CASE ClaimReply
    <2>1. PICK S \in SUBSET Jobs :
            /\ state' = [j \in Jobs |-> IF j \in S THEN "claimed" ELSE state[j]]
            /\ lease' = [j \in Jobs |-> IF j \in S THEN LeaseTicks ELSE lease[j]]
      BY <1>5 DEF ClaimReply
    <2>2. Beating /\ Margin' = Margin
      BY <1>5 DEF ClaimReply, Beating, beatVars, Margin
    <2>3. \A j \in Owned' : j \in S \/ j \in Owned
      BY <2>1 DEF Owned
    <2> QED BY <1>0, <2>1, <2>2, <2>3 DEF Leased
  <1>6. CASE Exit
    BY <1>6 DEF Exit, Beating
  <1>7. ASSUME NEW t \in Threads, ThreadStep(t) PROVE \A j \in Owned' : lease'[j] > Margin'
    <2>1. Beating /\ UNCHANGED beatVars
      BY <1>7 DEF ThreadStep, Take, Enter, Start, Report, Leave, Beating, mainVars
    <2>2. CASE Take(t) \/ Enter(t) \/ Leave(t)
      BY <1>1, <2>1, <2>2 DEF Take, Enter, Leave, rows, Owned
    <2>3. CASE Start(t)
      <3>1. \A j \in Jobs : state'[j] = state[j] \/ state[j] = "claimed"
        BY <1>0, <2>3 DEF Start, Startable
      <3> QED BY <1>1, <2>1, <2>3, <3>1 DEF Start, Owned
    <2>4. CASE Report(t)
      <3>1. \A j \in Jobs : \/ state'[j] = state[j] /\ lease'[j] = lease[j]
                            \/ state'[j] = "away"
        BY <1>0, <2>4 DEF Report, rows
      <3> QED BY <1>1, <2>1, <3>1 DEF Owned
    <2> QED BY <1>7, <2>2, <2>3, <2>4 DEF ThreadStep
  <1>8. ASSUME Renew, UNCHANGED state, Margin' \in Nat, Margin' < LeaseTicks
        PROVE  \A j \in Owned' : lease'[j] > Margin'
    <2>1. \A j \in Owned' : lease'[j] = LeaseTicks
      BY <1>0, <1>8 DEF Renew, Owned, Renewed, Renewal
    <2> QED BY <1>8, <2>1
  <1>9. CASE BeatWrites \/ LateBeatWrites
    <2>1. Renew /\ UNCHANGED state
      BY <1>9 DEF BeatWrites, LateBeatWrites
    <2>2. Margin' \in Nat /\ Margin' < LeaseTicks
      <3>1. CASE BeatWrites
        BY <1>0, <3>1, RoundLaws DEF BeatWrites, Margin
      <3>2. CASE LateBeatWrites
        BY <1>0, <3>2 DEF LateBeatWrites, beatVars, Margin
      <3> QED BY <1>9, <3>1, <3>2
    <2> QED BY <1>8, <2>1, <2>2
  <1>11. CASE SendBeat
    <2>1. Beating /\ UNCHANGED lease /\ Owned' = Owned
      BY <1>11 DEF SendBeat, rows, Owned
    <2>2. Margin' = Margin
      <3>1. Rounds(MaxMissed - missed) \in Nat
        BY <1>0, RoundLaws
      <3> QED BY <1>0, <1>11, <3>1 DEF SendBeat, Margin
    <2> QED BY <1>0, <2>1, <2>2 DEF Leased
  <1>12. CASE BeatReturns
    <2>1. /\ Beating /\ UNCHANGED lease /\ Owned' = Owned /\ post # "none"
          /\ post' = "none" /\ beat' = 0
      BY <1>12 DEF BeatReturns, rows, mainVars, Beating, Owned
    <2>2. Margin' <= Margin /\ Margin' \in Int
      <3>1. CASE post = "written"
        <4>1. Rounds(MaxMissed) \in Nat
              /\ Rounds(MaxMissed + 1) = Rounds(MaxMissed) + PromptTicks + BeatTicks
          BY RoundLaws
        <4>2. missed' = 0 /\ MaxMissed - 0 = MaxMissed
          BY <1>0, <1>12, <3>1 DEF BeatReturns
        <4>3. Margin' = BeatTicks + Rounds(MaxMissed) + PromptTicks
          BY <2>1, <4>2 DEF Margin
        <4> QED BY <1>0, <3>1, <4>1, <4>3 DEF Margin
      <3>2. CASE post = "sent"
        <4>1. missed' = missed + 1 /\ missed + 1 <= MaxMissed
          BY <1>0, <1>12, <3>2 DEF BeatReturns, Steady
        <4> DEFINE k == MaxMissed - (missed + 1)
        <4>2. k \in Nat /\ MaxMissed - missed = k + 1
          BY <1>0, <4>1
        <4> HIDE DEF k
        <4>3. Rounds(k) \in Nat /\ Rounds(k + 1) = Rounds(k) + PromptTicks + BeatTicks
          BY <4>2, RoundLaws
        <4>4. Margin' = BeatTicks + Rounds(k) + PromptTicks
          BY <2>1, <4>1 DEF Margin, k
        <4>5. Margin = (PromptTicks - beat) + Rounds(k + 1)
          BY <3>2, <4>2 DEF Margin
        <4> QED BY <1>0, <3>2, <4>3, <4>4, <4>5
      <3> QED BY <1>0, <2>1, <3>1, <3>2
    <2> QED BY <1>0, <2>1, <2>2 DEF Leased
  <1>13. CASE Tick
    <2>1. /\ Beating /\ post' = post /\ beat' = beat + 1 /\ missed' = missed /\ Owned' = Owned
          /\ lease' = [j \in Jobs |-> Less(lease[j])]
      <3>1. missed' = missed
        BY <1>0, <1>13 DEF Tick, Steady
      <3>2. Beating
        BY <1>13 DEF Tick, Beating, mainVars
      <3> QED BY <1>0, <1>13, <3>1, <3>2 DEF Tick, Patience, LeastOf, Owned
    <2>2. Margin = Margin' + 1 /\ Margin' \in Int
      <3>1. /\ Rounds(MaxMissed - missed) \in Nat /\ Rounds(MaxMissed + 1) \in Nat
        BY <1>0, RoundLaws
      <3> QED BY <1>0, <2>1, <3>1 DEF Margin
    <2>3. ASSUME NEW j \in Owned PROVE lease'[j] > Margin'
      <3>1. lease[j] > Margin /\ lease[j] \in Nat /\ j \in Jobs
        BY <1>0, <2>1 DEF Leased
      <3>2. lease[j] # 0 /\ lease'[j] = lease[j] - 1
        BY <1>0, <2>1, <3>1 DEF Less
      <3> QED BY <1>0, <2>2, <3>1, <3>2
    <2> QED BY <2>1, <2>3
  <1>10. ASSUME NEW j \in Jobs, Reap(j) \/ OtherClaims(j) \/ Enqueue(j)
         PROVE  \A i \in Owned' : lease'[i] > Margin'
    <2>1. Beating /\ UNCHANGED <<lease, beatVars>> /\ Owned' \subseteq Owned
      BY <1>0, <1>10 DEF Reap, OtherClaims, Enqueue, Beating, mainVars, Owned
    <2> QED BY <1>1, <2>1
  <1> QED BY <1>2, <1>3, <1>4, <1>5, <1>6, <1>7, <1>9, <1>10, <1>11, <1>12, <1>13 DEF Next, MainStep

\* No lease passes while the worker serves.
LEMMA LeasedKeeps == TypeInv /\ Leased => LeaseKeptWhileServing
  <1> SUFFICES ASSUME TypeInv, Leased, Beating, Steady, NEW j \in Owned PROVE lease[j] > 0
    BY DEF LeaseKeptWhileServing
  <1>1. Margin \in Nat /\ lease[j] > Margin /\ lease[j] \in Nat
    BY Margins, TicksAssumption DEF Leased, TypeInv, TypeOK, Owned
  <1> QED BY <1>1

\* There is no job to be leased at first.
LEMMA LeasedInit == Init => Leased
  BY DEF Init, Leased, Beating, Steady

\* A worker that serves never has its in-flight jobs reaped, as long as its
\* heartbeats are answered or refused within PromptTicks and no more than
\* MaxMissed in a row fail.  Nothing is said of one that runs into a timeout.
THEOREM LeasesOutlastHeartbeats == Spec => []LeaseKeptWhileServing
  BY TypeInit, TypeNext, LeasedInit, LeasedNext, LeasedKeeps, PTL DEF Spec

----------------------------------------------------------------------------
(* One place per job.  Until the signal comes, and while heartbeats are     *)
(* steady, no lease of an owned job passes, so what a claim finds queued is *)
(* nowhere in the process.                                                  *)

Waiting(t) == pool[t].at \in {"taken", "starting"}
Handling(t) == pool[t].at = "handling"

Once ==
    /\ ~stop /\ Steady =>
          /\ \A j \in Jobs : j \in inbox \/ backlog[j] > 0 => state[j] = "claimed"
          /\ \A t \in Threads : Waiting(t) => state[pool[t].job] = "claimed"
          /\ \A t \in Threads : Handling(t) => state[pool[t].job] = "running"
    /\ HandledOnce

\* A worker without a signal has no lease that has passed.
LEMMA NothingToReap == ASSUME TypeInv, Leased, ~stop, Steady, NEW j \in Owned PROVE lease[j] > 0
  <1>1. Beating
    BY DEF Beating, TypeInv, MainInv
  <1> QED BY <1>1, LeasedKeeps DEF LeaseKeptWhileServing

\* What a step of a thread does to the threads: one moves, with its job.
LEMMA ThreadMoves ==
    ASSUME TypeInv, NEW t \in Threads, NEW step, Goto(t, step)
    PROVE  /\ pool'[t].at = step /\ pool'[t].job = pool[t].job
           /\ \A u \in Threads : u # t => pool'[u] = pool[u]
  BY DEF Goto, TypeInv, TypeOK

\* Jobs move from the inbox to the backlog to a thread, one place at a time.
LEMMA OnceNext == TypeInv /\ Leased /\ Once /\ [Next]_vars => Once'
  <1> SUFFICES ASSUME TypeInv, Leased, Once, [Next]_vars, ~stop', Steady' PROVE Once'
    BY DEF Once, HandledOnce
  <1>0. /\ ~stop /\ Steady
        /\ pool \in [Threads -> [at : Steps, job : Jobs \cup {None}]]
        /\ \A u \in Threads : pool[u].job = None <=> pool[u].at = "idle"
        /\ state \in [Jobs -> JobStates] /\ inbox \subseteq Jobs /\ backlog \in [Jobs -> Nat]
    <2>1. stop' # stop => Signal
      BY DEF Next, MainStep, Register, Poll, ClaimReply, Dispatch, StartDrain, Exit, SendBeat,
             BeatWrites, LateBeatWrites, BeatReturns, Tick, ThreadStep, Take, Enter, Start, Report,
             Leave, Reap, OtherClaims, Enqueue, vars
    <2> QED BY <2>1, SteadyBefore DEF Signal, TypeInv, TypeOK
  <1>1. CASE UNCHANGED <<state, inbox, poolVars>>
    BY <1>0, <1>1 DEF poolVars, Once, HandledOnce, InThreads, Waiting, Handling
  <1>2. CASE Register \/ Poll \/ StartDrain \/ Exit \/ Signal \/ Tick \/ UNCHANGED vars
          \/ SendBeat \/ BeatWrites \/ LateBeatWrites \/ BeatReturns
    BY <1>1, <1>2 DEF Register, Poll, StartDrain, Exit, Signal, Tick, vars, rows, mainVars, poolVars,
                      SendBeat, BeatWrites, LateBeatWrites, BeatReturns
  <1>3. CASE ClaimReply
    <2>1. PICK S \in SUBSET {j \in Jobs : state[j] = "queued" /\ backlog[j] < MaxCopies} :
            /\ state' = [j \in Jobs |-> IF j \in S THEN "claimed" ELSE state[j]]
            /\ inbox' \in {S, {}}
      BY <1>3 DEF ClaimReply
    <2>2. inbox = {} /\ UNCHANGED <<backlog, pool, stop>>
      BY <1>3 DEF ClaimReply, poolVars, TypeInv, MainInv
    <2>3. \A j \in Jobs : backlog[j] > 0 => j \notin S
      BY <1>0, <2>1 DEF Once
    <2>4. \A t \in Threads : Waiting(t) \/ Handling(t) => pool[t].job \notin S /\ pool[t].job \in Jobs
      BY <1>0, <2>1 DEF Once, Waiting, Handling
    <2> QED BY <1>0, <2>1, <2>2, <2>3, <2>4 DEF Once, HandledOnce, InThreads, Waiting, Handling
  <1>4. CASE Dispatch
    BY <1>0, <1>4 DEF Dispatch, rows, Once, HandledOnce, InThreads, Waiting, Handling
  <1>5. ASSUME NEW t \in Threads, Take(t) PROVE Once'
    <2>1. PICK j \in Jobs : /\ backlog[j] > 0
                            /\ pool' = [pool EXCEPT ![t] = [at |-> "taken", job |-> j]]
                            /\ backlog' = [backlog EXCEPT ![j] = @ - 1]
      BY <1>5 DEF Take
    <2>2. /\ pool'[t].at = "taken" /\ pool'[t].job = j
          /\ \A u \in Threads : u # t => pool'[u] = pool[u]
          /\ UNCHANGED <<state, inbox, stop>>
      BY <1>0, <1>5, <2>1 DEF Take, rows, mainVars
    <2> QED BY <1>0, <2>1, <2>2 DEF Once, HandledOnce, InThreads, Waiting, Handling
  <1>6. ASSUME NEW t \in Threads, Enter(t) PROVE Once'
    <2>1. /\ pool[t].at = "taken" /\ Goto(t, "starting") /\ UNCHANGED <<state, inbox, backlog, stop>>
      BY <1>6 DEF Enter, rows, mainVars
    <2> QED BY <1>0, <2>1, ThreadMoves DEF Once, HandledOnce, InThreads, Waiting, Handling
  <1>7. ASSUME NEW t \in Threads, Start(t) PROVE Once'
    <2>1. /\ pool[t].at = "starting" /\ UNCHANGED <<inbox, backlog, stop>> /\ t \in InThreads
          /\ state[pool[t].job] = "claimed" /\ pool[t].job \in Jobs
      BY <1>0, <1>7 DEF Start, mainVars, Once, Waiting, InThreads
    <2>2. PICK step \in {"handling", "leaving"} : Goto(t, step)
      BY <1>7 DEF Start
    <2>3. \/ UNCHANGED state /\ step = "leaving"
          \/ state' = [state EXCEPT ![pool[t].job] = "running"]
      <3>1. pool'[t].at = step
        BY <2>2, ThreadMoves
      <3>2. \/ UNCHANGED state /\ Goto(t, "leaving")
            \/ state' = [state EXCEPT ![pool[t].job] = "running"]
        BY <1>7 DEF Start
      <3> QED BY <3>1, <3>2, ThreadMoves
    <2>4. /\ pool'[t].at = step /\ pool'[t].job = pool[t].job
          /\ \A u \in Threads : u # t => pool'[u] = pool[u]
      BY <2>2, ThreadMoves
    <2>5. \A j \in Jobs : j # pool[t].job => state'[j] = state[j]
      BY <1>0, <2>3
    <2>6. step = "handling" => state'[pool[t].job] = "running"
      BY <1>0, <2>1, <2>3
    <2>7. \A u \in InThreads : u # t => pool[u].job # pool[t].job /\ pool[u].job \in Jobs
      BY <1>0, <2>1 DEF Once, HandledOnce, InThreads
    <2>8. pool[t].job \notin inbox /\ backlog[pool[t].job] = 0
      BY <1>0, <2>1 DEF Once, HandledOnce
    <2>9. HandledOnce'
      BY <1>0, <2>1, <2>2, <2>4 DEF Once, HandledOnce, InThreads
    <2> QED BY <1>0, <2>1, <2>2, <2>4, <2>5, <2>6, <2>7, <2>8, <2>9 DEF Once, InThreads, Waiting, Handling
  <1>8. ASSUME NEW t \in Threads, Report(t) PROVE Once'
    <2>1. /\ pool[t].at = "handling" /\ UNCHANGED <<inbox, backlog, stop>> /\ Goto(t, "leaving")
          /\ t \in InThreads /\ pool[t].job \in Jobs
      BY <1>0, <1>8 DEF Report, mainVars, InThreads
    <2>2. \A j \in Jobs : j # pool[t].job => state'[j] = state[j]
      BY <1>0, <1>8 DEF Report, rows
    <2>3. \A u \in InThreads : u # t => pool[u].job # pool[t].job /\ pool[u].job \in Jobs
      BY <1>0, <2>1 DEF Once, HandledOnce, InThreads
    <2>4. pool[t].job \notin inbox /\ backlog[pool[t].job] = 0
      BY <1>0, <2>1 DEF Once, HandledOnce
    <2>5. HandledOnce'
      BY <1>0, <2>1, ThreadMoves DEF Once, HandledOnce, InThreads
    <2> QED BY <1>0, <2>1, <2>2, <2>3, <2>4, <2>5, ThreadMoves DEF Once, InThreads, Waiting, Handling
  <1>9. ASSUME NEW t \in Threads, Leave(t) PROVE Once'
    <2>1. /\ pool[t].at = "leaving" /\ pool' = [pool EXCEPT ![t] = Resting]
          /\ UNCHANGED <<state, inbox, backlog, stop>>
      BY <1>9 DEF Leave, rows, mainVars
    <2>2. pool'[t].at = "idle" /\ \A u \in Threads : u # t => pool'[u] = pool[u]
      BY <1>0, <2>1 DEF Resting
    <2> QED BY <1>0, <2>1, <2>2 DEF Once, HandledOnce, InThreads, Waiting, Handling
  <1>10. ASSUME NEW j \in Jobs, Reap(j) \/ OtherClaims(j) \/ Enqueue(j) PROVE Once'
    <2>1. j \notin Owned /\ UNCHANGED <<inbox, poolVars, stop>>
      BY <1>0, <1>10, NothingToReap DEF Reap, OtherClaims, Enqueue, mainVars, Owned
    <2>2. state[j] \notin {"claimed", "running"} /\ \A i \in Jobs : i # j => state'[i] = state[i]
      BY <1>0, <1>10, <2>1 DEF Reap, OtherClaims, Enqueue, Owned
    <2>3. \A t \in Threads : Waiting(t) \/ Handling(t) => pool[t].job \in Jobs
      BY <1>0 DEF Waiting, Handling
    <2> QED BY <1>0, <2>1, <2>2, <2>3 DEF poolVars, Once, HandledOnce, InThreads, Waiting, Handling
  <1> QED BY <1>2, <1>3, <1>4, <1>5, <1>6, <1>7, <1>8, <1>9, <1>10 DEF Next, MainStep, ThreadStep

\* There is no job in the process at first.
LEMMA OnceInit == Init => Once
  BY DEF Init, Once, HandledOnce, InThreads, Waiting, Handling, Resting

\* Until the signal comes, and while heartbeats are steady, no job is handed to
\* two threads of the worker, nor claimed again while one of them works on it.
THEOREM JobsAreHandledOnce == Spec => []HandledOnce
  BY TypeInit, TypeNext, LeasedInit, LeasedNext, OnceInit, OnceNext, PTL DEF Spec, Once

----------------------------------------------------------------------------
(* Draining.  Without lost requests, every job the worker holds is in one   *)
(* of the places that the drain empties, before the signal and after it.    *)

InHand(j) == j \in inbox \/ backlog[j] > 0 \/ \E t \in Threads : Waiting(t) /\ pool[t].job = j
UnderWay(j) == \E t \in Threads : Handling(t) /\ pool[t].job = j

Placed == \A j \in Jobs : /\ state[j] = "claimed" => InHand(j)
                          /\ state[j] = "running" => UnderWay(j)

\* A job leaves its places only by being started, then reported.
LEMMA PlacedNext == ~Lossy /\ TypeInv /\ Placed /\ [Next]_vars => Placed'
  <1> SUFFICES ASSUME ~Lossy, TypeInv, Placed, [Next]_vars PROVE Placed'
    OBVIOUS
  <1>0. /\ pool \in [Threads -> [at : Steps, job : Jobs \cup {None}]]
        /\ \A u \in Threads : pool[u].job = None <=> pool[u].at = "idle"
        /\ state \in [Jobs -> JobStates] /\ inbox \subseteq Jobs /\ backlog \in [Jobs -> Nat]
    BY DEF TypeInv, TypeOK
  <1>1. CASE UNCHANGED <<state, inbox, poolVars>>
    BY <1>1 DEF poolVars, Placed, InHand, UnderWay, Waiting, Handling
  <1>2. CASE Register \/ Poll \/ StartDrain \/ Exit \/ Signal \/ Tick \/ UNCHANGED vars
          \/ SendBeat \/ BeatWrites \/ LateBeatWrites \/ BeatReturns
    BY <1>1, <1>2 DEF Register, Poll, StartDrain, Exit, Signal, Tick, vars, rows, mainVars, poolVars,
                      SendBeat, BeatWrites, LateBeatWrites, BeatReturns
  <1>3. CASE ClaimReply
    <2>1. PICK S \in SUBSET {j \in Jobs : state[j] = "queued" /\ backlog[j] < MaxCopies} :
            /\ state' = [j \in Jobs |-> IF j \in S THEN "claimed" ELSE state[j]]
            /\ inbox' = S
      BY <1>3 DEF ClaimReply
    <2>2. inbox = {} /\ UNCHANGED <<backlog, pool>>
      BY <1>3 DEF ClaimReply, poolVars, TypeInv, MainInv
    <2> QED BY <1>0, <2>1, <2>2 DEF Placed, InHand, UnderWay, Waiting, Handling
  <1>4. CASE Dispatch
    BY <1>0, <1>4 DEF Dispatch, rows, Placed, InHand, UnderWay, Waiting, Handling
  <1>5. ASSUME NEW t \in Threads, Take(t) PROVE Placed'
    <2>1. PICK j \in Jobs : /\ backlog[j] > 0
                            /\ pool' = [pool EXCEPT ![t] = [at |-> "taken", job |-> j]]
                            /\ backlog' = [backlog EXCEPT ![j] = @ - 1]
      BY <1>5 DEF Take
    <2>2. /\ pool'[t].at = "taken" /\ pool'[t].job = j /\ pool[t].at = "idle"
          /\ \A u \in Threads : u # t => pool'[u] = pool[u]
          /\ UNCHANGED <<state, inbox>>
      BY <1>0, <1>5, <2>1 DEF Take, rows, mainVars, Resting
    <2>3. ASSUME NEW i \in Jobs, InHand(i) PROVE InHand(i)'
      BY <2>1, <2>2, <2>3 DEF InHand, Waiting
    <2>4. ASSUME NEW i \in Jobs, UnderWay(i) PROVE UnderWay(i)'
      BY <2>2, <2>4 DEF UnderWay, Handling
    <2> QED BY <2>2, <2>3, <2>4 DEF Placed
  <1>6. ASSUME NEW t \in Threads, NEW step, Goto(t, step), UNCHANGED <<inbox, backlog>>
        PROVE  \A i \in Jobs : /\ InHand(i) => InHand(i)' \/ pool[t].job = i
                               /\ UnderWay(i) => UnderWay(i)' \/ pool[t].job = i
    BY <1>6, ThreadMoves DEF InHand, UnderWay, Waiting, Handling
  <1>7. ASSUME NEW t \in Threads, Enter(t) PROVE Placed'
    <2>1. /\ pool[t].at = "taken" /\ Goto(t, "starting") /\ UNCHANGED <<state, inbox, backlog>>
      BY <1>7 DEF Enter, rows, mainVars
    <2>2. \A i \in Jobs : (InHand(i) => InHand(i)') /\ (UnderWay(i) => UnderWay(i)')
      BY <2>1, ThreadMoves DEF InHand, UnderWay, Waiting, Handling
    <2> QED BY <2>1, <2>2 DEF Placed
  <1>8. ASSUME NEW t \in Threads, Start(t) PROVE Placed'
    <2>1. pool[t].at = "starting" /\ UNCHANGED <<inbox, backlog>> /\ pool[t].job \in Jobs
      BY <1>0, <1>8 DEF Start, mainVars
    <2>2. CASE state[pool[t].job] = "claimed"
      <3>1. state' = [state EXCEPT ![pool[t].job] = "running"] /\ Goto(t, "handling")
        BY <1>8, <2>2 DEF Start, Startable
      <3>2. /\ state'[pool[t].job] = "running"
            /\ \E u \in Threads : Handling(u)' /\ pool'[u].job = pool[t].job
        BY <1>0, <2>1, <3>1, ThreadMoves DEF Handling
      <3>3. ASSUME NEW i \in Jobs, i # pool[t].job
            PROVE  state'[i] = state[i] /\ (InHand(i) => InHand(i)') /\ (UnderWay(i) => UnderWay(i)')
        BY <1>0, <1>6, <2>1, <3>1, <3>3
      <3>4. ASSUME NEW i \in Jobs
            PROVE  /\ state'[i] = "claimed" => InHand(i)'
                   /\ state'[i] = "running" => UnderWay(i)'
        <4>1. CASE i = pool[t].job
          BY <3>2, <4>1 DEF UnderWay
        <4>2. CASE i # pool[t].job
          BY <3>3, <4>2 DEF Placed
        <4> QED BY <4>1, <4>2
      <3> QED BY <3>4 DEF Placed
    <2>3. CASE state[pool[t].job] # "claimed"
      <3>1. UNCHANGED state /\ Goto(t, "leaving")
        BY <1>8, <2>3 DEF Start, Startable
      <3>2. \A i \in Jobs : UnderWay(i) => UnderWay(i)'
        BY <2>1, <3>1, ThreadMoves DEF UnderWay, Handling
      <3>3. \A i \in Jobs : i # pool[t].job => (InHand(i) => InHand(i)')
        BY <1>6, <2>1, <3>1
      <3> QED BY <2>3, <3>1, <3>2, <3>3 DEF Placed
    <2> QED BY <2>2, <2>3
  <1>9. ASSUME NEW t \in Threads, Report(t) PROVE Placed'
    <2>1. /\ state' = [state EXCEPT ![pool[t].job] = "away"] /\ pool[t].job \in Jobs
          /\ Goto(t, "leaving") /\ UNCHANGED <<inbox, backlog>>
      BY <1>0, <1>9 DEF Report, mainVars
    <2>2. state'[pool[t].job] = "away"
      BY <1>0, <2>1
    <2>3. ASSUME NEW i \in Jobs, i # pool[t].job
          PROVE  state'[i] = state[i] /\ (InHand(i) => InHand(i)') /\ (UnderWay(i) => UnderWay(i)')
      BY <1>0, <1>6, <2>1, <2>3
    <2> QED BY <2>2, <2>3 DEF Placed
  <1>10. ASSUME NEW t \in Threads, Leave(t) PROVE Placed'
    <2>1. /\ pool[t].at = "leaving" /\ pool' = [pool EXCEPT ![t] = Resting]
          /\ UNCHANGED <<state, inbox, backlog>>
      BY <1>10 DEF Leave, rows, mainVars
    <2>2. \A u \in Threads : u # t => pool'[u] = pool[u]
      BY <1>0, <2>1
    <2>3. \A i \in Jobs : (InHand(i) => InHand(i)') /\ (UnderWay(i) => UnderWay(i)')
      BY <2>1, <2>2 DEF InHand, UnderWay, Waiting, Handling
    <2> QED BY <2>1, <2>3 DEF Placed
  <1>11. ASSUME NEW j \in Jobs, Reap(j) \/ OtherClaims(j) \/ Enqueue(j) PROVE Placed'
    <2>1. /\ state'[j] \in {"queued", "away"} /\ \A i \in Jobs : i # j => state'[i] = state[i]
          /\ UNCHANGED <<inbox, poolVars>>
      BY <1>0, <1>11 DEF Reap, OtherClaims, Enqueue, mainVars
    <2> QED BY <2>1 DEF poolVars, Placed, InHand, UnderWay, Waiting, Handling
  <1> QED BY <1>2, <1>3, <1>4, <1>5, <1>7, <1>8, <1>9, <1>10, <1>11 DEF Next, MainStep, ThreadStep

\* A worker that exits, stopped by a signal, has run all it had claimed.
THEOREM StoppedWorkersAreEmpty == ASSUME ~Lossy PROVE Spec => []StopLeavesNothing
  <1>1. Init => Placed
    BY DEF Init, Placed
  <1>2. TypeInv /\ Placed => StopLeavesNothing
    <2> SUFFICES ASSUME TypeInv, Placed, main = "exited", NEW j \in Owned PROVE FALSE
      BY DEF StopLeavesNothing
    <2>1. Empty /\ (InHand(j) \/ UnderWay(j)) /\ j \in Jobs
      BY DEF TypeInv, MainInv, Placed, Owned
    <2> QED BY <2>1 DEF Empty, InHand, UnderWay, Waiting, Handling, Resting
  <1>3. TypeInv /\ Placed /\ [Next]_vars => Placed'
    BY PlacedNext
  <1> QED BY <1>1, <1>2, <1>3, TypeInit, TypeNext, PTL DEF Spec
=============================================================================
