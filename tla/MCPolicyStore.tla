--------------------------- MODULE MCPolicyStore ----------------------------
(* Instances of PolicyStore for TLC: which bodies the bulk requests carry.  *)
EXTENDS PolicyStore, TLC

CONSTANTS p1, p2, c1, c2

\* One body that writes two policies, each in its own transaction; or none.
OneBulk == {<<Upsert(p1, c2), Upsert(p2, c1)>>}
NoBulk  == {}

\* Nothing tells two requests, or two replicas, from one another.
Interchangeable == Permutations(Requests) \cup Permutations(Replicas)
=============================================================================
