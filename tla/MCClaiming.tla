----------------------------- MODULE MCClaiming -----------------------------
(* Instances of Claiming for TLC.                                           *)
EXTENDS Claiming, TLC

CONSTANTS j1, j2, j3, qa, qb, w1, w2

\* Two queues, qa served first; j2 and j3 compete for qb.
TwoQueues    == [j \in Jobs |-> IF j = j1 THEN qa ELSE qb]
OneQueue     == [j \in Jobs |-> qa]
Priorities   == [q \in Queues |-> IF q = qa THEN 1 ELSE 0]
\* j1 and j2 before j3.
Ranks        == [j \in Jobs |-> IF j = j3 THEN 1 ELSE 0]
AllQueues    == [w \in Workers |-> {}]
\* w2 serves only qb.
SomeQueues   == [w \in Workers |-> IF w = w2 THEN {qb} ELSE {}]
\* qa has one job, so one slot; qb has one or two.
SomeLimits   == [q \in Queues |-> IF q = qa THEN {1} ELSE {1, 2}]
OneSlot      == [q \in Queues |-> {1}]
=============================================================================
