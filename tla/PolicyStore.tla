---------------------------- MODULE PolicyStore -----------------------------
(***************************************************************************)
(* The governance policies of one tenant in PostgreSQL, and the requests   *)
(* of the API replicas that read and write them.  Every statement filters  *)
(* by tenant_id, so tenants do not meet and one is modelled.               *)
(*                                                                         *)
(* A request advances one awaited database call at a time; between two     *)
(* calls any other request of any replica may run.  A transaction is READ  *)
(* COMMITTED: its writes are seen by others when it commits, and its       *)
(* upsert holds the lock of the governance_policies row until it ends.     *)
(***************************************************************************)
EXTENDS Naturals, Sequences, FiniteSets

CONSTANTS
  Requests,        \* the HTTP requests of a behaviour; each is used once
  Replicas,        \* API processes, each with its own connection pool
  PolicyIds,
  Contents,        \* name/enabled/when/action of a policy, as one value
  DefaultId,       \* id of the one entry of defaultPolicies
  DefaultContent,  \* its content
  BulkLists,       \* the bodies of POST /policies/bulk-upsert
  Targets,         \* the versionNo of POST /policies/:id/rollback
  PoolMax,         \* connections of one pool
  None, Seed       \* no value; the author "system-seed"

ASSUME PoolAssumption == PoolMax \in Nat \ {0}
ASSUME DefaultAssumption == DefaultId \in PolicyIds /\ DefaultContent \in Contents
ASSUME NoneAssumption == None \notin Contents /\ None \notin Requests
ASSUME SeedAssumption == Seed \notin Requests
ASSUME TargetAssumption == Targets \subseteq Nat \ {0}

\* One upsert to do: the policy, its new content, and for a rollback the
\* version it restores (0 otherwise).  A rollback has no content until it
\* has looked its target up.
Work == [policy : PolicyIds, content : Contents \cup {None}, from : Nat]
Upsert(p, c) == [policy |-> p, content |-> c, from |-> 0]

Upserts == {Upsert(p, c) : p \in PolicyIds, c \in Contents}

ASSUME BulkAssumption == BulkLists \subseteq Seq(Upserts) \ {<<>>}

VARIABLES
  policies,  \* governance_policies: id -> content, None for no row
  versions,  \* governance_policy_versions: the set of its rows
  rowLock,   \* policy id -> the request whose transaction wrote the row
  held,      \* replica -> connections checked out of its pool
  pc,        \* request -> the call it makes next, or how it ended
  host,      \* request -> the replica that serves it
  kind,      \* request -> its endpoint
  item,      \* request -> the upsert in progress
  rest,      \* request -> the items of a bulk request still to do
  no,        \* request -> versionNo of the upsert in progress
  flawed,    \* the bulk requests with an item reported as failed
  audit      \* the entries handed to addAuditEntry

store == <<policies, versions, rowLock>>
input == <<host, kind>>
vars  == <<policies, versions, rowLock, held, pc, host, kind, item, rest, no,
           flawed, audit>>

Kinds == {"post", "bulk", "rollback", "list"}
Writing == {"max", "insert", "commit"}
InTxn   == {"begin"} \cup Writing
Holding == InTxn \cup {"committed", "abort"}
Reading == {"lookup", "read", "reread"}
Done    == {"ok", "partial", "error", "lost"}
Active  == Reading \cup {"connect"} \cup Holding
PCs     == {"idle"} \cup Active \cup Done

Row == [policy : PolicyIds, no : Nat, content : Contents,
        by : Requests \cup {Seed}, from : Nat]
Entry == [policy : PolicyIds, no : Nat, by : Requests]

VersionsOf(p) == {v \in versions : v.policy = p}
Nos(p) == {v.no : v \in VersionsOf(p)}
MaxNo(S) == IF S = {} THEN 0 ELSE CHOOSE n \in S : \A m \in S : m <= n

Author(r) == IF kind[r] = "list" THEN Seed ELSE r
NewRow(r) == [policy |-> item[r].policy, no |-> no[r], content |-> item[r].content,
              by |-> Author(r), from |-> item[r].from]

\* Faults: mistakes the code could have made in the operators below.
PoolFree_Unbounded(r) == TRUE
Released_NoFinally(r) == IF pc[r] = "abort" THEN held
                         ELSE [held EXCEPT ![host[r]] = @ - 1]
Target_AnyPolicy(r)   == {v \in versions : v.no = item[r].from}
NextNo_AnyPolicy(r)   == MaxNo({v.no : v \in versions}) + 1
Upserted_DoNothing(r) == IF policies[item[r].policy] # None THEN policies
                         ELSE [policies EXCEPT ![item[r].policy] = item[r].content]
AfterWrite_IgnoringFailures(r) == IF kind[r] = "list" THEN "reread" ELSE "ok"
Entries_NotForBulk(r) == IF kind[r] # "post" THEN {}
                         ELSE {[policy |-> item[r].policy, no |-> no[r], by |-> r]}

\* The pieces the actions are made of.
PoolFree(r) == held[host[r]] < PoolMax
LockFree(r) == rowLock[item[r].policy] = None
\* client.query: the statements of a transaction wait for no other connection
\* (the fault: pool.query, while the transaction holds the one it has).
ClientFree_OfPool(r) == PoolFree(r)
ClientFree(r) == pc[r] \in Holding
Unlocked(r) == [p \in PolicyIds |-> IF rowLock[p] = r THEN None ELSE rowLock[p]]
Released(r) == [held EXCEPT ![host[r]] = @ - 1]
Target(r)   == {v \in VersionsOf(item[r].policy) : v.no = item[r].from}
NextNo(r)   == MaxNo(Nos(item[r].policy)) + 1
Upserted(r) == [policies EXCEPT ![item[r].policy] = item[r].content]
Inserted(r) == versions \cup {NewRow(r)}
AfterWrite(r) == CASE kind[r] = "list" -> "reread"
                   [] kind[r] # "list" /\ r \in flawed    -> "partial"
                   [] kind[r] # "list" /\ r \notin flawed -> "ok"
Entries(r)  == IF kind[r] = "list" THEN {}
               ELSE {[policy |-> item[r].policy, no |-> no[r], by |-> r]}

-----------------------------------------------------------------------------
Init ==
  /\ policies = [p \in PolicyIds |-> None]
  /\ versions = {}
  /\ rowLock = [p \in PolicyIds |-> None]
  /\ held = [h \in Replicas |-> 0]
  /\ pc = [r \in Requests |-> "idle"]
  /\ host \in [Requests -> Replicas]
  /\ kind = [r \in Requests |-> "list"]
  /\ item = [r \in Requests |-> Upsert(DefaultId, None)]
  /\ rest = [r \in Requests |-> <<>>]
  /\ no = [r \in Requests |-> 0]
  /\ flawed = {}
  /\ audit = {}

\* A request of endpoint k reaches its replica, w its first item, more to follow.
Arrive(r, k, start, w, more) ==
  /\ pc[r] = "idle"
  /\ pc' = [pc EXCEPT ![r] = start]
  /\ kind' = [kind EXCEPT ![r] = k]
  /\ item' = [item EXCEPT ![r] = w]
  /\ rest' = [rest EXCEPT ![r] = more]
  /\ UNCHANGED <<store, held, host, no, flawed, audit>>

PostPolicy(r) == \E p \in PolicyIds, c \in Contents :
  Arrive(r, "post", "connect", Upsert(p, c), <<>>)

BulkUpsert(r) == \E b \in BulkLists :
  Arrive(r, "bulk", "connect", Head(b), Tail(b))

PostRollback(r) == \E p \in PolicyIds, n \in Targets :
  Arrive(r, "rollback", "lookup", [policy |-> p, content |-> None, from |-> n], <<>>)

GetPolicies(r) == Arrive(r, "list", "read", Upsert(DefaultId, None), <<>>)

-----------------------------------------------------------------------------
\* Reads.  pool.query borrows a connection for the one statement.

\* rollbackGovernancePolicy reads its target before, and outside, the
\* transaction that writes the copy; an unknown version is a 404.
Lookup(r) ==
  /\ pc[r] = "lookup" /\ PoolFree(r)
  /\ \/ \E v \in Target(r) :
          /\ item' = [item EXCEPT ![r].content = v.content]
          /\ pc' = [pc EXCEPT ![r] = "connect"]
     \/ /\ Target(r) = {}
        /\ pc' = [pc EXCEPT ![r] = "error"]
        /\ UNCHANGED item
  /\ UNCHANGED <<store, held, input, rest, no, flawed, audit>>

\* listGovernancePolicies: rows are returned as they are; none, and the
\* tenant is seeded with the default policy through the common upsert.
Read(r) ==
  /\ pc[r] = "read" /\ PoolFree(r)
  /\ IF \E p \in PolicyIds : policies[p] # None
     THEN /\ pc' = [pc EXCEPT ![r] = "ok"]
          /\ UNCHANGED item
     ELSE /\ pc' = [pc EXCEPT ![r] = "connect"]
          /\ item' = [item EXCEPT ![r] = Upsert(DefaultId, DefaultContent)]
  /\ UNCHANGED <<store, held, input, rest, no, flawed, audit>>

Reread(r) ==
  /\ pc[r] = "reread" /\ PoolFree(r)
  /\ pc' = [pc EXCEPT ![r] = "ok"]
  /\ UNCHANGED <<store, held, input, item, rest, no, flawed, audit>>

-----------------------------------------------------------------------------
\* upsertGovernancePolicy.

Connect(r) ==
  /\ pc[r] = "connect" /\ PoolFree(r)
  /\ pc' = [pc EXCEPT ![r] = "begin"]
  /\ held' = [held EXCEPT ![host[r]] = @ + 1]
  /\ UNCHANGED <<store, input, item, rest, no, flawed, audit>>

\* BEGIN and INSERT ... ON CONFLICT DO UPDATE: waits for the row, keeps it.
UpsertRow(r) ==
  /\ pc[r] = "begin" /\ LockFree(r)
  /\ rowLock' = [rowLock EXCEPT ![item[r].policy] = r]
  /\ pc' = [pc EXCEPT ![r] = "max"]
  /\ UNCHANGED <<policies, versions, held, input, item, rest, no, flawed, audit>>

SelectMax(r) ==
  /\ pc[r] = "max" /\ ClientFree(r)
  /\ no' = [no EXCEPT ![r] = NextNo(r)]
  /\ pc' = [pc EXCEPT ![r] = "insert"]
  /\ UNCHANGED <<store, held, input, item, rest, flawed, audit>>

\* The unique index over (tenant, policy, version_no) refuses a taken number
\* and waits for the transaction that has inserted the same one.
Taken(r) == no[r] \in Nos(item[r].policy)
Pending(r) == \E s \in Requests : /\ pc[s] = "commit" /\ no[s] = no[r]
                                  /\ item[s].policy = item[r].policy
InsertVersion(r) ==
  /\ pc[r] = "insert" /\ ~Pending(r)
  /\ pc' = [pc EXCEPT ![r] = IF Taken(r) THEN "abort" ELSE "commit"]
  /\ UNCHANGED <<store, held, input, item, rest, no, flawed, audit>>

\* COMMIT makes both rows visible at once and frees the row lock; the answer
\* may still be lost on the way, and the handler then sees an error.
Commit(r) ==
  /\ pc[r] = "commit"
  /\ policies' = Upserted(r)
  /\ versions' = Inserted(r)
  /\ rowLock' = Unlocked(r)
  /\ \E outcome \in {"committed", "abort"} : pc' = [pc EXCEPT ![r] = outcome]
  /\ UNCHANGED <<held, input, item, rest, no, flawed, audit>>

\* A statement fails, or the connection does: catch, then ROLLBACK.
TxnError(r) ==
  /\ pc[r] \in InTxn
  /\ pc' = [pc EXCEPT ![r] = "abort"]
  /\ UNCHANGED <<store, held, input, item, rest, no, flawed, audit>>

\* The loop of bulk-upsert goes on to the next item, or the request ends.
NextItem(r, end) ==
  IF rest[r] # <<>>
  THEN /\ item' = [item EXCEPT ![r] = Head(rest[r])]
       /\ rest' = [rest EXCEPT ![r] = Tail(rest[r])]
       /\ pc' = [pc EXCEPT ![r] = "connect"]
  ELSE pc' = [pc EXCEPT ![r] = end] /\ UNCHANGED <<item, rest>>

\* finally releases the connection and the handler goes on: an audit entry
\* and the answer for a write, the second SELECT after a seed.
Finish(r) ==
  /\ pc[r] = "committed"
  /\ held' = Released(r)
  /\ NextItem(r, AfterWrite(r))
  /\ audit' = audit \cup Entries(r)
  /\ UNCHANGED <<store, input, no, flawed>>

\* ROLLBACK, release, and the error: a bulk request records it for the item
\* and goes on, any other answers it.
Rollback(r) ==
  /\ pc[r] = "abort"
  /\ rowLock' = Unlocked(r)
  /\ held' = Released(r)
  /\ IF kind[r] = "bulk"
     THEN NextItem(r, "partial") /\ flawed' = flawed \cup {r}
     ELSE pc' = [pc EXCEPT ![r] = "error"] /\ UNCHANGED <<item, rest, flawed>>
  /\ UNCHANGED <<policies, versions, input, no, audit>>

\* pool.connect or pool.query itself fails: no connection was taken.
PoolError(r) ==
  /\ pc[r] \in Reading \cup {"connect"}
  /\ IF kind[r] = "bulk"
     THEN NextItem(r, "partial") /\ flawed' = flawed \cup {r}
     ELSE pc' = [pc EXCEPT ![r] = "error"] /\ UNCHANGED <<item, rest, flawed>>
  /\ UNCHANGED <<store, held, input, no, audit>>

\* A replica dies and is started again: its requests get no answer, its
\* connections close and the server rolls their transactions back.
Crash(h) ==
  LET hit == {r \in Requests : host[r] = h /\ pc[r] \in Active} IN
  /\ hit # {}
  /\ pc' = [r \in Requests |-> IF r \in hit THEN "lost" ELSE pc[r]]
  /\ rowLock' = [p \in PolicyIds |-> IF rowLock[p] \in hit THEN None ELSE rowLock[p]]
  /\ held' = [held EXCEPT ![h] = 0]
  /\ UNCHANGED <<policies, versions, input, item, rest, no, flawed, audit>>

\* Every request has ended; nothing is left to do.
Terminated == (\A r \in Requests : pc[r] \in Done) /\ UNCHANGED vars

-----------------------------------------------------------------------------
Request(r) == PostPolicy(r) \/ BulkUpsert(r) \/ PostRollback(r) \/ GetPolicies(r)
Progress(r) ==
  \/ Lookup(r) \/ Read(r) \/ Reread(r)
  \/ Connect(r) \/ UpsertRow(r) \/ SelectMax(r) \/ InsertVersion(r) \/ Commit(r)
  \/ Finish(r) \/ Rollback(r)
Failure(r) == TxnError(r) \/ PoolError(r)

Next ==
  \/ \E r \in Requests : Request(r) \/ Progress(r) \/ Failure(r)
  \/ \E h \in Replicas : Crash(h)
  \/ Terminated

Spec == Init /\ [][Next]_vars

\* The database answers each call it is sent: no request is kept waiting for
\* a connection or a row that stays free.
FairSpec == Spec /\ \A r \in Requests : WF_vars(Progress(r))

-----------------------------------------------------------------------------
\* Every variable holds a value of its kind, and no pool lends more
\* connections than it has.
TypeOK ==
  /\ policies \in [PolicyIds -> Contents \cup {None}]
  /\ versions \subseteq Row
  /\ rowLock \in [PolicyIds -> Requests \cup {None}]
  /\ held \in [Replicas -> 0..PoolMax]
  /\ pc \in [Requests -> PCs]
  /\ host \in [Requests -> Replicas]
  /\ kind \in [Requests -> Kinds]
  /\ item \in [Requests -> Work]
  /\ rest \in [Requests -> Seq(Upserts)]
  /\ no \in [Requests -> Nat]
  /\ flawed \subseteq Requests
  /\ audit \subseteq Entry

\* The version numbers of a policy are 1..n, each used once, although n is
\* read in one statement and used in another while other requests run.
GapFree ==
  /\ \A p \in PolicyIds : Nos(p) = 1..MaxNo(Nos(p))
  /\ \A v, w \in versions : v.policy = w.policy /\ v.no = w.no => v = w

\* The policy row always is the content of the latest version, and a policy
\* without versions has no row: the two tables cannot drift apart, whatever
\* transactions overlap, fail or die half-way.
CurrentIsLatest ==
  \A p \in PolicyIds :
    IF VersionsOf(p) = {} THEN policies[p] = None
    ELSE \E v \in VersionsOf(p) : v.no = MaxNo(Nos(p)) /\ v.content = policies[p]

\* The unique index never has to refuse or delay a version: the row lock the
\* upsert takes first already serialises the writers of one policy.
NoVersionClash == \A r \in Requests : pc[r] = "insert" => ~Taken(r) /\ ~Pending(r)

\* A row is locked only by a transaction that wrote it and is still open, and
\* such a transaction keeps it to the end.
LockDiscipline ==
  /\ \A p \in PolicyIds, r \in Requests :
       rowLock[p] = r => item[r].policy = p /\ pc[r] \in Writing \cup {"abort"}
  /\ \A r \in Requests :
       pc[r] \in Writing => rowLock[item[r].policy] = r

\* A version written by a rollback repeats an earlier version of the same
\* policy, though the target was read before the transaction began.
RollbackRestores ==
  \A v \in versions : v.from > 0 =>
    \E w \in versions : /\ w.policy = v.policy /\ w.no = v.from
                        /\ w.no < v.no /\ w.content = v.content

\* An entry of the audit trail is about a version that is committed; and a
\* version whose author was told of success has its entry.
AuditMatchesHistory ==
  /\ \A e \in audit : \E v \in versions :
       v.policy = e.policy /\ v.no = e.no /\ v.by = e.by
  /\ \A v \in versions : v.by # Seed /\ pc[v.by] = "ok" =>
       [policy |-> v.policy, no |-> v.no, by |-> v.by] \in audit

\* A write answered as a full success has its last version in the history
\* and reported no failed item on the way.
AnswerIsTruthful ==
  \A r \in Requests : pc[r] = "ok" /\ kind[r] # "list" =>
    r \notin flawed /\ NewRow(r) \in versions

\* The requests of a replica that use one of its connections.
Users(h) == {r \in Requests : host[r] = h /\ pc[r] \in Holding}

\* A pool counts as lent the connections its requests use, on every path:
\* commit, rollback, failed connect, lost acknowledgement, restart.
NoClientLeak == \A h \in Replicas : held[h] = Cardinality(Users(h))

\* History only grows, by one version at a time, which takes the next number.
AppendOnly ==
  [][/\ versions \subseteq versions'
     /\ \A v \in versions' \ versions :
          /\ v.no = MaxNo(Nos(v.policy)) + 1
          /\ versions' = versions \cup {v}]_vars

\* Each request that starts ends: the pool and the row locks cannot make
\* requests wait for one another forever.
EveryRequestEnds ==
  \A r \in Requests : pc[r] \in Active ~> pc[r] \in Done

\* "initial tenant policy seed" is the reason recorded with the seed: it is
\* the first version of its policy and replaces nothing.
SeedIsInitial == \A v \in versions : v.by = Seed => v.no = 1

\* The transactions are, to a reader of the tables, single steps of the
\* registry: row and history of one policy change together.
ContentOf(p, n) == (CHOOSE v \in VersionsOf(p) : v.no = n).content
HistoryOf(p) == [n \in 1..MaxNo(Nos(p)) |-> ContentOf(p, n)]
Registry == INSTANCE PolicyRegistry WITH
  current <- policies, history <- [p \in PolicyIds |-> HistoryOf(p)],
  Preset <- [p \in PolicyIds |-> None]
RegistrySpec == Registry!Spec
=============================================================================
