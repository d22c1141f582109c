--------------------------- MODULE PolicyRegistry ---------------------------
(***************************************************************************)
(* What the governance policy store promises its readers: one current      *)
(* content per policy and the complete, ordered history of its contents.   *)
(* A write changes both in one indivisible step.  Every path that changes  *)
(* a policy (POST /policies, bulk-upsert, rollback, the seeding of a new   *)
(* tenant) goes through upsertGovernancePolicy and promises just this.     *)
(* The PostgreSQL store starts with no policy, the in-memory one with the  *)
(* default policy of baseTenantState, which has no version (Preset).       *)
(***************************************************************************)
EXTENDS Sequences

CONSTANTS
  PolicyIds,   \* the policy ids of one tenant
  Contents,    \* the name/enabled/when/action of a policy, as one value
  Preset,      \* policy id -> the content it has before any write, or None
  None         \* no such policy yet

VARIABLES
  current,     \* policy id -> its content, or None
  history      \* policy id -> its contents, oldest first

registryVars == <<current, history>>

Init ==
  /\ current = Preset
  /\ history = [p \in PolicyIds |-> <<>>]

Put(p, c) ==
  /\ current' = [current EXCEPT ![p] = c]
  /\ history' = [history EXCEPT ![p] = Append(@, c)]

Next == \E p \in PolicyIds, c \in Contents : Put(p, c)

Spec == Init /\ [][Next]_registryVars
=============================================================================
