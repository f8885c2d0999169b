--------------------------- MODULE MCRetryBackoff ---------------------------
(* Instances of RetryBackoff for TLC.                                       *)
EXTENDS RetryBackoff

Policy(s, b, f, c) == [strategy |-> s, base |-> b, factor |-> f, cap |-> c, jitter |-> 0]

\* An operator slows the queue down, or speeds it up.
SlowAndFast == {Policy("fixed", 3, 1, 20), Policy("exponential", 1, 2, 2)}
Doubling    == Policy("exponential", 1, 2, 20)
=============================================================================
