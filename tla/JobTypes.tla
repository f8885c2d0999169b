------------------------------ MODULE JobTypes ------------------------------
(* The vocabulary shared by the modules: the enumerations of                *)
(* backend/app/models/enums.py and the abstract values of a lease.          *)
CONSTANT None      \* SQL NULL in the columns that may hold it

JobState == {"queued", "scheduled", "claimed", "running",
             "completed", "failed", "dead", "cancelled"}

TERMINAL_STATES == {"completed", "dead", "cancelled"}
ACTIVE_STATES   == {"claimed", "running"}

ExecutionStatus == {"running", "succeeded", "failed", "timed_out", "lost"}

WorkerStatus == {"alive", "draining", "dead"}

\* lease_expires_at as the reaper sees it: NULL, in the future, or passed.
Lease == {"none", "live", "lapsed"}
=============================================================================
