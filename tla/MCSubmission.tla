---------------------------- MODULE MCSubmission ----------------------------
(* Instances of Submission for TLC.                                         *)
EXTENDS Submission, TLC

ClientSymmetry == Permutations(Clients)
=============================================================================
