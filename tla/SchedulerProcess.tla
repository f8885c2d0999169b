-------------------------- MODULE SchedulerProcess --------------------------
(* runtime/scheduler.py: the loop that runs the four passes of a tick, one  *)
(* after the other and each in a transaction of its own, over the tables of *)
(* CronSchedules and WorkerRegistry.  An exception in a pass ends the tick: *)
(* the passes behind it wait for the next one.                              *)
EXTENDS CronSchedules, WorkerRegistry

CONSTANT MaxFaults     \* bound: passes that fail, crashes of the scheduler

ASSUME FaultsAssumption == MaxFaults \in Nat

VARIABLES
    at,        \* the pass a scheduler is about to run, or has open
    faults     \* passes failed and crashes so far

processVars == <<at, faults>>
vars == <<cronVars, registryVars, processVars>>

Init ==
    /\ CronInit /\ RegistryInit
    /\ at = [s \in Schedulers |-> "promote"]
    /\ faults = 0

\* The pass that s runs now is the one named `here`; then comes `there`.
Pass(s, here, there) == at[s] = here /\ at' = [at EXCEPT ![s] = there]

----------------------------------------------------------------------------
(* tick and run                                                             *)

PromotePass(s) ==
    /\ Pass(s, "promote", "load")
    /\ PromoteDue /\ UNCHANGED <<cronVars, faults>>

LoadPass(s) ==
    /\ Pass(s, "load", "fire")
    /\ Load(s) /\ UNCHANGED <<registryVars, faults>>

FirePass(s) ==
    /\ Pass(s, "fire", "workers")
    /\ Fire(s) /\ UNCHANGED <<registryVars, faults>>

\* An exception is logged by run; the next tick starts from the first pass.
FireFails(s) ==
    /\ Pass(s, "fire", "promote")
    /\ FireRaises(s) /\ UNCHANGED <<registryVars, faults>>

WorkersPass(s) ==
    /\ Pass(s, "workers", "leases")
    /\ ReapDeadWorkers /\ UNCHANGED <<cronVars, faults>>

LeasesPass(s) ==
    /\ Pass(s, "leases", "promote")
    /\ ReapExpiredLeases /\ UNCHANGED <<cronVars, faults>>

TickStep(s) ==
    \/ PromotePass(s)
    \/ LoadPass(s)
    \/ FirePass(s)
    \/ FireFails(s)
    \/ WorkersPass(s)
    \/ LeasesPass(s)

\* Any pass may fail (the database is away), or the process may die in it.
Fault(s) ==
    /\ faults < MaxFaults /\ faults' = faults + 1
    /\ at[s] # "down"
    /\ \E p \in {"promote", "down"} : at' = [at EXCEPT ![s] = p]
    /\ RollBack(s) /\ UNCHANGED registryVars

Restart(s) ==
    /\ Pass(s, "down", "promote")
    /\ UNCHANGED <<cronVars, registryVars, faults>>

----------------------------------------------------------------------------
Next ==
    \/ \E s \in Schedulers : TickStep(s) \/ Fault(s) \/ Restart(s)
    \/ ApiStep /\ UNCHANGED <<registryVars, processVars>>
    \/ \E x \in Schedules : Elapse(x) /\ UNCHANGED <<registryVars, processVars>>
    \/ WorkerStep /\ UNCHANGED <<cronVars, processVars>>
    \/ Tick /\ UNCHANGED <<cronVars, processVars>>

Spec == Init /\ [][Next]_vars

\* The loop never ends and a dead scheduler is restarted (DESIGN_DECISIONS.md:
\* "a process supervisor that restarts it"), a worker that is up beats, the API
\* answers, ticks pass.  Faults come to an end (MaxFaults).
Fairness ==
    /\ \A s \in Schedulers : WF_vars(TickStep(s)) /\ WF_vars(Restart(s))
    /\ \A w \in Workers : /\ WF_vars(HeartbeatRead(w) /\ UNCHANGED <<cronVars, processVars>>)
                          /\ WF_vars(HeartbeatCommit(w) /\ UNCHANGED <<cronVars, processVars>>)
    /\ WF_vars(Tick /\ UNCHANGED <<cronVars, processVars>>)

FairSpec == Spec /\ Fairness

----------------------------------------------------------------------------
(* Properties.                                                              *)

\* Types of both tables; a pass is open exactly while the tick is in it.
TypeOK ==
    /\ CronTypeOK /\ RegistryTypeOK
    /\ at \in [Schedulers -> {"promote", "load", "fire", "workers", "leases", "down"}]
    /\ \A s \in Schedulers : pass[s].open <=> at[s] = "fire"
    /\ faults \in 0 .. MaxFaults

\* A due schedule whose expression has no date left fails every pass.
Ended == \E x \in DueNow : slot[x] >= LastDate[x]

\* Somebody looks after such schedules: in the end none is left switched on.
Attended == <>[]~Ended

\* DueFires, StatusFollowsProcess and OrphansRecovered, unless a schedule that
\* has ended is left switched on: whatever pass fails or crashes, and however
\* often get_next raises before somebody intervenes, the loop of
\* runtime/scheduler.py comes back to every pass and makes up for what it missed.
DatesFire       == Attended => DueFires
StatusSettles   == Attended => StatusFollowsProcess
OrphansReturn   == Attended => OrphansRecovered
=============================================================================
