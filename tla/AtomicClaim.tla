---------------------------- MODULE AtomicClaim ----------------------------
(* What claiming promises, without transactions or locks: a QUEUED job is   *)
(* handed to exactly one worker, in one step, and stays with that worker    *)
(* until it is finished or taken back.                                      *)
CONSTANTS Jobs, Workers

VARIABLES
    avail,   \* the jobs ready to be handed out
    held     \* the jobs each worker owns

TypeOK == avail \in SUBSET Jobs /\ held \in [Workers -> SUBSET Jobs]

Init == avail \in SUBSET Jobs /\ held = [w \in Workers |-> {}]

\* One claim hands a set of available jobs to w.
Hand(w, S) ==
    /\ S # {} /\ S \subseteq avail
    /\ avail' = avail \ S
    /\ held' = [held EXCEPT ![w] = @ \cup S]

\* w finishes j, or the reaper takes it back.
Give(w, j, back) ==
    /\ j \in held[w]
    /\ held' = [held EXCEPT ![w] = @ \ {j}]
    /\ avail' = IF back THEN avail \cup {j} ELSE avail

\* A job becomes ready, or is cancelled or overwritten before anyone has it.
Enqueue(j) ==
    /\ j \notin avail /\ \A w \in Workers : j \notin held[w]
    /\ avail' = avail \cup {j}
    /\ UNCHANGED held
Withdraw(j) ==
    /\ j \in avail
    /\ avail' = avail \ {j}
    /\ UNCHANGED held

Next ==
    \/ \E w \in Workers, S \in SUBSET Jobs : Hand(w, S)
    \/ \E w \in Workers, j \in Jobs, back \in BOOLEAN : Give(w, j, back)
    \/ \E j \in Jobs : Enqueue(j) \/ Withdraw(j)

Spec == Init /\ [][Next]_<<avail, held>>
=============================================================================
