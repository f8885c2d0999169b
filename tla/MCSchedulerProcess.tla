------------------------- MODULE MCSchedulerProcess -------------------------
(* Instances of SchedulerProcess for TLC.                                   *)
EXTENDS SchedulerProcess

\* Expressions that end with the last date explored, or after the first.
AllDates == [x \in Schedules |-> MaxSlots]
OneDate  == [x \in Schedules |-> 1]
=============================================================================
