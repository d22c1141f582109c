---------------------------- MODULE MCOperations ----------------------------
(* Operations for TLC: submissions, and reviews, are alike.                 *)
EXTENDS Operations, TLC

Interchangeable == Permutations(Submissions) \cup Permutations(Reviews)
=============================================================================
