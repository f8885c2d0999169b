---------------------------- MODULE CronSchedules ----------------------------
(* Recurring schedules: created and toggled through the API, fired by the   *)
(* scheduler's pass fire_due_cron, which loads the due rows, adds one job   *)
(* for each, moves next_fire_at past its own `now` and commits it all at    *)
(* the end.  Nothing locks a row between the load and the commit.           *)
(*                                                                          *)
(* The dates of a cron expression are numbered 1, 2, ... from the creation  *)
(* of the schedule: slot[x] = n from the n-th date until the next, so       *)
(* next_fire_at <= now is next[x] <= slot[x] and croniter(expr, now)        *)
(* .get_next() is slot[x] + 1.  An expression may run out of dates (it may  *)
(* name a year): get_next then raises.                                      *)
EXTENDS Naturals, FiniteSets, JobTypes

CONSTANTS
    Schedules,     \* scheduled_jobs rows
    Schedulers,    \* scheduler processes; the system is meant to have one
    Operators,     \* API requests that may toggle schedules at one time
    LastDate,      \* the number of the last date of an expression
    MaxSlots       \* bound: dates that pass

ASSUME SchedulesAssumption == IsFiniteSet(Schedulers) /\ None \notin Schedules
ASSUME DatesAssumption == MaxSlots \in Nat /\ LastDate \in [Schedules -> Nat]

VARIABLES
    slot,      \* the dates of a schedule that have passed
    next,      \* next_fire_at, 0 before the row exists
    last,      \* last_fired_at, 0 for NULL
    on,        \* is_active
    jobs,      \* RECURRING jobs made from the schedule
    quiet,     \* jobs[x] when the schedule was last switched off
    pass,      \* the transaction of fire_due_cron in each scheduler
    toggle     \* the toggle request in each operator's handler

cronVars == <<slot, next, last, on, jobs, quiet, pass, toggle>>
rowVars  == <<next, last, on, jobs, quiet>>

NoPass   == [open |-> FALSE, now |-> [x \in Schedules |-> 0], due |-> {}]
NoToggle == [of |-> None, seen |-> FALSE]

CronInit ==
    /\ slot = [x \in Schedules |-> 0]
    /\ next = [x \in Schedules |-> 0]
    /\ last = [x \in Schedules |-> 0]
    /\ on = [x \in Schedules |-> FALSE]
    /\ jobs = [x \in Schedules |-> 0]
    /\ quiet = [x \in Schedules |-> 0]
    /\ pass = [s \in Schedulers |-> NoPass]
    /\ toggle = [o \in Operators |-> NoToggle]

Exists(x) == next[x] > 0

\* The next date of x's expression comes.
Elapse(x) ==
    /\ Exists(x) /\ slot[x] < MaxSlots /\ slot[x] < LastDate[x]
    /\ slot' = [slot EXCEPT ![x] = @ + 1]
    /\ UNCHANGED <<rowVars, pass, toggle>>

----------------------------------------------------------------------------
(* API handlers.                                                            *)

\* create_schedule: 400 when the expression has no date to come.
CreateSchedule(x) ==
    /\ ~Exists(x) /\ slot[x] < LastDate[x]
    /\ next' = [next EXCEPT ![x] = slot[x] + 1]
    /\ on' = [on EXCEPT ![x] = TRUE]
    /\ UNCHANGED <<slot, last, jobs, quiet, pass, toggle>>

\* toggle_schedule loads the row ...
ToggleRead(o, x) ==
    /\ Exists(x) /\ toggle[o] = NoToggle
    /\ toggle' = [toggle EXCEPT ![o] = [of |-> x, seen |-> on[x]]]
    /\ UNCHANGED <<slot, rowVars, pass>>

\* ... and writes the opposite of what it has loaded, and no other column.
ToggleCommit(o) ==
    LET x == toggle[o].of IN
    /\ x # None
    /\ on' = [on EXCEPT ![x] = ~toggle[o].seen]
    /\ quiet' = IF on[x] /\ toggle[o].seen THEN [quiet EXCEPT ![x] = jobs[x]] ELSE quiet
    /\ toggle' = [toggle EXCEPT ![o] = NoToggle]
    /\ UNCHANGED <<slot, next, last, jobs, pass>>

----------------------------------------------------------------------------
(* fire_due_cron                                                            *)

\* Faults: switched off schedules fire; a date missed is missed for ever.
DueAnyway == {x \in Schedules : Exists(x) /\ next[x] <= slot[x]}
DueOnDate == {x \in Schedules : Exists(x) /\ on[x] /\ next[x] = slot[x]}

DueNow == {x \in Schedules : Exists(x) /\ on[x] /\ next[x] <= slot[x]}

\* `now` is read and the due rows are loaded.
Load(s) ==
    /\ ~pass[s].open
    /\ pass' = [pass EXCEPT ![s] = [open |-> TRUE, now |-> slot, due |-> DueNow]]
    /\ UNCHANGED <<slot, rowVars, toggle>>

\* Fault: the date after the one that was due.
NextAfterDue(s, x) == next[x] + 1

\* croniter(cron_expression, now).get_next()
NextAfter(s, x) == pass[s].now[x] + 1
RunsOut(s, x)   == pass[s].now[x] >= LastDate[x]

\* Jobs and new dates of all due schedules in one commit.
Fire(s) ==
    /\ pass[s].open
    /\ \A x \in pass[s].due : ~RunsOut(s, x)
    /\ jobs' = [x \in Schedules |-> IF x \in pass[s].due THEN jobs[x] + 1 ELSE jobs[x]]
    /\ next' = [x \in Schedules |-> IF x \in pass[s].due THEN NextAfter(s, x) ELSE next[x]]
    /\ last' = [x \in Schedules |->
                  IF x \in pass[s].due THEN pass[s].now[x] ELSE last[x]]
    /\ pass' = [pass EXCEPT ![s] = NoPass]
    /\ UNCHANGED <<slot, on, quiet, toggle>>

\* Fault: the session is left as it is.
RollBackForgotten(s) == UNCHANGED <<slot, rowVars, pass, toggle>>

\* The pass is rolled back: jobs that were added are gone with the dates.
RollBack(s) ==
    /\ pass' = [pass EXCEPT ![s] = NoPass]
    /\ UNCHANGED <<slot, rowVars, toggle>>

\* get_next raises for one schedule, after whatever was done for the others.
FireRaises(s) ==
    /\ pass[s].open
    /\ \E x \in pass[s].due : RunsOut(s, x)
    /\ RollBack(s)

ApiStep ==
    \/ \E x \in Schedules : CreateSchedule(x)
    \/ \E o \in Operators : ToggleCommit(o) \/ \E x \in Schedules : ToggleRead(o, x)

----------------------------------------------------------------------------
(* Properties.                                                              *)

Passes == [open : BOOLEAN, now : [Schedules -> 0 .. MaxSlots], due : SUBSET Schedules]

\* Types; what a pass has loaded lies in the past and exists.
CronTypeOK ==
    /\ slot \in [Schedules -> 0 .. MaxSlots]
    /\ next \in [Schedules -> 0 .. MaxSlots + 1]
    /\ last \in [Schedules -> 0 .. MaxSlots]
    /\ on \in [Schedules -> BOOLEAN]
    /\ jobs \in [Schedules -> Nat] /\ quiet \in [Schedules -> Nat]
    /\ pass \in [Schedulers -> Passes]
    /\ toggle \in [Operators -> [of : Schedules \cup {None}, seen : BOOLEAN]]

\* A schedule fires at most once between two of its dates, however late the
\* pass, whatever fails or is toggled meanwhile: no two passes materialise one
\* date (fire_due_cron), and missed dates collapse into one.
OncePerDate ==
    [][\A x \in Schedules : jobs'[x] # jobs[x] => last'[x] > last[x]]_cronVars

\* Once an operator's switching off is committed, at most the pass then under
\* way still fires the schedule, until it is switched on again.
OffMeansQuiet ==
    \A x \in Schedules : ~on[x] => jobs[x] <= quiet[x] + Cardinality(Schedulers)

\* A date that has come is fired, or the schedule is switched off, also when
\* the scheduler was down on that date or its pass failed.
DueFires ==
    \A x \in Schedules :
        (on[x] /\ 0 < next[x] /\ next[x] <= slot[x]) ~> (~on[x] \/ next[x] > slot[x])
=============================================================================
