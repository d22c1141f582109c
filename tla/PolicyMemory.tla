---------------------------- MODULE PolicyMemory ----------------------------
(***************************************************************************)
(* The governance policies of one tenant in the memory of a process that   *)
(* has no database: the second implementation of PolicyRegistry.           *)
(*                                                                         *)
(* No call of these handlers leaves the process, so a request runs to its  *)
(* end in one turn; only the items of a bulk request are steps of their    *)
(* own here, and nothing else runs between them (todo).  A restart loses   *)
(* everything and begins again at Init, so one lifetime is modelled.       *)
(***************************************************************************)
EXTENDS Naturals, Sequences

CONSTANTS
  PolicyIds,
  Values,          \* what the fields of a policy hold
  Contents,        \* the contents of policies: a value for each field
  DefaultId,       \* id of the policy in baseTenantState
  DefaultContent,  \* its content
  BulkLists,       \* the bodies of POST /policies/bulk-upsert
  MaxNumber,       \* bound on the versions of a policy
  None             \* no value

\* What a version holds of its policy.
Fields == {"name", "enabled", "when", "action"}

ASSUME ContentsAssumption == Contents \subseteq [Fields -> Values]
ASSUME DefaultAssumption == DefaultId \in PolicyIds /\ DefaultContent \in Contents
ASSUME NoneAssumption == None \notin Contents
ASSUME MaxAssumption == MaxNumber \in Nat

\* An item of a bulk body.
Items == [policy : PolicyIds, content : Contents]

ASSUME BulkAssumption == BulkLists \subseteq Seq(Items)

VARIABLES
  policies,  \* governance.policies: id -> content, None if not listed
  versions,  \* governance.policyVersions
  audited,   \* id -> the actions governance.auditLog has of it, oldest first
  todo       \* the items left of the bulk request being served

memory == <<policies, versions, audited>>
vars == <<memory, todo>>

Row == [policy : PolicyIds, no : Nat, content : Contents, from : Nat]

AuditActions == {"UPSERT_POLICY", "UPSERT_POLICY_BULK", "ROLLBACK_POLICY"}

VersionsOf(p) == {v \in versions : v.policy = p}
Nos(p) == {v.no : v \in VersionsOf(p)}
MaxNo(S) == IF S = {} THEN 0 ELSE CHOOSE n \in S : \A m \in S : m <= n

Preset == [p \in PolicyIds |-> IF p = DefaultId THEN DefaultContent ELSE None]

\* Faults: mistakes the code could have made in the operators below.
NextNo_AnyPolicy(p) == MaxNo({v.no : v \in versions}) + 1
Target_AnyPolicy(p, n) == {v \in versions : v.no = n}
Target_Unchecked(p, n) ==
  IF n \in Nos(p) THEN {v \in VersionsOf(p) : v.no = n}
  ELSE {[policy |-> p, no |-> n, content |-> None, from |-> 0]}
Listed_KeepFirst(p, c) ==
  IF policies[p] = None THEN [policies EXCEPT ![p] = c] ELSE policies
Compared_NoAction == {"name", "enabled", "when"}
Audited_BulkOnce(p, a) ==
  IF Len(todo) > 1 THEN audited ELSE [audited EXCEPT ![p] = Append(@, a)]

\* The pieces the actions are made of.
NextNo(p) == MaxNo(Nos(p)) + 1
Target(p, n) == {v \in VersionsOf(p) : v.no = n}
Listed(p, c) == [policies EXCEPT ![p] = c]
Audited(p, a) == [audited EXCEPT ![p] = Append(@, a)]

-----------------------------------------------------------------------------
Init ==
  /\ policies = Preset
  /\ versions = {}
  /\ audited = [p \in PolicyIds |-> <<>>]
  /\ todo = <<>>

\* upsertGovernancePolicy and the audit entry of its caller, under action a; n
\* is the version that a rollback restores, 0 otherwise.
Put(p, c, n, a) ==
  /\ NextNo(p) <= MaxNumber
  /\ policies' = Listed(p, c)
  /\ versions' = versions \cup
       {[policy |-> p, no |-> NextNo(p), content |-> c, from |-> n]}
  /\ audited' = Audited(p, a)

PostPolicy(p, c) ==
  todo = <<>> /\ Put(p, c, 0, "UPSERT_POLICY") /\ UNCHANGED todo

BulkUpsert(b) == todo = <<>> /\ todo' = b /\ UNCHANGED memory

BulkItem ==
  /\ todo # <<>>
  /\ todo' = Tail(todo)
  /\ Put(Head(todo).policy, Head(todo).content, 0, "UPSERT_POLICY_BULK")

\* An unknown version is a 404 and changes nothing.
PostRollback(p, n) == \E v \in Target(p, n) :
  todo = <<>> /\ Put(p, v.content, n, "ROLLBACK_POLICY") /\ UNCHANGED todo

Next ==
  \/ \E p \in PolicyIds, c \in Contents : PostPolicy(p, c)
  \/ \E b \in BulkLists : BulkUpsert(b)
  \/ BulkItem
  \/ \E p \in PolicyIds, n \in 1..MaxNumber : PostRollback(p, n)

Spec == Init /\ [][Next]_vars

-----------------------------------------------------------------------------
\* GET /policies/:id/diff

Compared == {"name", "enabled", "when", "action"}

Changed(a, b) == {f \in Compared : a[f] # b[f]}
Diff(a, b) == [f \in Changed(a, b) |-> [before |-> a[f], after |-> b[f]]]
HasChanges(a, b) == Changed(a, b) # {}

-----------------------------------------------------------------------------
\* Every variable holds a value of its kind; in particular nothing without
\* content is ever stored.
TypeOK ==
  /\ policies \in [PolicyIds -> Contents \cup {None}]
  /\ versions \subseteq Row
  /\ audited \in [PolicyIds -> Seq(AuditActions)]
  /\ todo \in Seq(Items)

\* The audit log tells the history: as many entries of a policy as versions,
\* which have the numbers 1..n, and a rollback where the version repeats an
\* earlier one of the same policy.
AuditTellsHistory ==
  \A p \in PolicyIds :
    /\ Nos(p) = 1..Len(audited[p])
    /\ \A v, w \in VersionsOf(p) : v.no = w.no => v = w
    /\ \A v \in VersionsOf(p) :
         /\ audited[p][v.no] = "ROLLBACK_POLICY" <=> v.from > 0
         /\ v.from > 0 => \E w \in VersionsOf(p) :
              w.no = v.from /\ w.no < v.no /\ w.content = v.content

\* The diff of two versions is all there is between them: its values, put in
\* place of those of the first, give the second, and it is reported as empty
\* only if they are alike.
DiffExplains ==
  \A v, w \in versions : v.policy = w.policy =>
    LET d == Diff(v.content, w.content) IN
      /\ w.content = [f \in Fields |-> IF f \in DOMAIN d THEN d[f].after ELSE v.content[f]]
      /\ v.content = [f \in Fields |-> IF f \in DOMAIN d THEN d[f].before ELSE w.content[f]]
      /\ HasChanges(v.content, w.content) <=> v.content # w.content

\* To its readers this store, too, is the registry.
ContentOf(p, n) == (CHOOSE v \in VersionsOf(p) : v.no = n).content
HistoryOf(p) == [n \in 1..MaxNo(Nos(p)) |-> ContentOf(p, n)]
Registry == INSTANCE PolicyRegistry WITH
  current <- policies, history <- [p \in PolicyIds |-> HistoryOf(p)]
RegistrySpec == Registry!Spec
=============================================================================
