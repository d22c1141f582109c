---------------------------- MODULE PolicyParity ----------------------------
(***************************************************************************)
(* The two policy stores side by side: one client sends each request to a  *)
(* process with a database and to one without, and compares.  Requests do  *)
(* not overlap here (PolicyStore shows that those of the database might    *)
(* as well not), so of the database the registry is left: the content and  *)
(* the history of each policy, and the seeding of a tenant that has none.  *)
(***************************************************************************)
EXTENDS PolicyMemory

VARIABLES
  dbCurrent,  \* governance_policies: id -> content, or None
  dbHistory   \* governance_policy_versions: id -> contents, oldest first

db == <<dbCurrent, dbHistory>>
parityVars == <<vars, db>>

Database == INSTANCE PolicyRegistry WITH
  current <- dbCurrent, history <- dbHistory, Preset <- [p \in PolicyIds |-> None]

\* Fault: the seed is written at every listing.
NeedsSeed_Always == Len(dbHistory[DefaultId]) < MaxNumber

\* listGovernancePolicies seeds a tenant that has no policy at all.
NeedsSeed == \A p \in PolicyIds : dbCurrent[p] = None

Init2 == Init /\ Database!Init

\* POST /policies, to both.
Post(p, c) == PostPolicy(p, c) /\ Database!Put(p, c)

Bulk(b) == BulkUpsert(b) /\ UNCHANGED db
Item == BulkItem /\ Database!Put(Head(todo).policy, Head(todo).content)

\* POST /policies/:id/rollback: each looks the version up in its own history.
Rollback(p, n) ==
  /\ todo = <<>> /\ Len(dbHistory[p]) < MaxNumber
  /\ \/ PostRollback(p, n)
     \/ Target(p, n) = {} /\ UNCHANGED vars
  /\ IF n \in DOMAIN dbHistory[p] THEN Database!Put(p, dbHistory[p][n])
     ELSE UNCHANGED db

\* GET /policies: the database may be seeded, memory never changes.
List ==
  /\ todo = <<>> /\ UNCHANGED vars
  /\ IF NeedsSeed THEN Database!Put(DefaultId, DefaultContent) ELSE UNCHANGED db

Next2 ==
  \/ \E p \in PolicyIds, c \in Contents : Post(p, c)
  \/ \E b \in BulkLists : Bulk(b)
  \/ Item
  \/ \E p \in PolicyIds, n \in 1..MaxNumber : Rollback(p, n)
  \/ List

ParitySpec == Init2 /\ [][Next2]_parityVars

-----------------------------------------------------------------------------
\* A policy that is not the default one has the same content and history in
\* both stores.
OthersAgree ==
  \A p \in PolicyIds \ {DefaultId} :
    policies[p] = dbCurrent[p] /\ HistoryOf(p) = dbHistory[p]

\* Of the default policy the database may have one version more, the seed
\* that memory has not; apart from that the histories are equal, and so are
\* the contents once the policy was written.
UpToSeed ==
  LET h == HistoryOf(DefaultId)
  IN  /\ dbHistory[DefaultId] \in {h, <<DefaultContent>> \o h}
      /\ h # <<>> => policies[DefaultId] = dbCurrent[DefaultId]

\* The stores agree, up to the seed, whatever is written, restored or listed;
\* only a rollback of the default policy, which names a version by its number,
\* ends that: with the seed, one number means two contents.
StoresAgree ==
  /\ []OthersAgree
  /\ [][UpToSeed => UpToSeed' \/ \E n \in 1..MaxNumber : Rollback(DefaultId, n)]_parityVars
=============================================================================
