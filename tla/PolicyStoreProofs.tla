-------------------------- MODULE PolicyStoreProofs -------------------------
(***************************************************************************)
(* Proofs about PolicyStore, for any sets of requests, replicas, policies, *)
(* contents and bulk bodies.  The invariant ties the row lock to the       *)
(* number a transaction has read: while the lock is held nobody else can   *)
(* commit a version of the policy, so the number read stays the next one.  *)
(***************************************************************************)
EXTENDS PolicyStore, SequenceTheorems, FiniteSetTheorems, TLAPS

\* An upsert on its way carries a content: a rollback has looked it up.
Filled == \A r \in Requests :
  pc[r] \in {"connect"} \cup InTxn => item[r].content \in Contents

\* The number a transaction has read is still the next one of its policy.
NumberIsNext == \A r \in Requests :
  pc[r] \in {"insert", "commit"} => no[r] = MaxNo(Nos(item[r].policy)) + 1

Contiguous == \A p \in PolicyIds : \E n \in Nat : Nos(p) = 1..n

Unique == \A v, w \in versions : v.policy = w.policy /\ v.no = w.no => v = w

Inv == /\ TypeOK
       /\ Filled
       /\ LockDiscipline
       /\ NumberIsNext
       /\ Contiguous
       /\ Unique
       /\ CurrentIsLatest

\* Every pool counts the connections its requests use.
Accounted == \A h \in Replicas :
  IsFiniteSet(Users(h)) /\ held[h] = Cardinality(Users(h))

-----------------------------------------------------------------------------
\* The greatest number of the interval 1..n is n.
LEMMA MaxOfInterval == \A n \in Nat : MaxNo(1..n) = n
<1> TAKE n \in Nat
<1>1. CASE n = 0
  <2>1. 1..n = {}
    BY <1>1
  <2> QED
    BY <1>1, <2>1 DEF MaxNo
<1>2. CASE n # 0
  <2>1. n \in 1..n /\ \A m \in 1..n : m <= n
    BY <1>2
  <2>2. \A k \in 1..n : (\A m \in 1..n : m <= k) => k = n
    BY <2>1
  <2>3. 1..n # {}
    BY <2>1
  <2> QED
    BY <2>1, <2>2, <2>3 DEF MaxNo
<1> QED
  BY <1>1, <1>2

\* Contiguous numbers: the greatest is a natural and ends the interval.
LEMMA MaxOfNos ==
  ASSUME Contiguous, NEW p \in PolicyIds
  PROVE  MaxNo(Nos(p)) \in Nat /\ Nos(p) = 1..MaxNo(Nos(p))
BY MaxOfInterval DEF Contiguous

\* What the requests of bulk bodies are made of.
LEMMA UpsertIsWork ==
  \A u \in Upserts : u \in Work /\ u.content \in Contents /\ u.policy \in PolicyIds
BY DEF Upserts, Upsert, Work

\* Nothing more to do is a sequence of upserts.
LEMMA EmptySeqTyped == <<>> \in Seq(Upserts)
OBVIOUS

\* The next item of a bulk request is a complete upsert.
LEMMA NextItemTyped ==
  ASSUME TypeOK, NEW r \in Requests, NEW end, NextItem(r, end), end \in PCs
  PROVE  /\ item' \in [Requests -> Work]
         /\ rest' \in [Requests -> Seq(Upserts)]
         /\ pc' \in [Requests -> PCs]
         /\ pc'[r] \in {"connect", end}
         /\ pc'[r] = "connect" /\ end # "connect" => item'[r].content \in Contents
         /\ \A s \in Requests \ {r} : pc'[s] = pc[s] /\ item'[s] = item[s]
<1>1. CASE rest[r] # <<>>
  <2>1. rest[r] \in Seq(Upserts)
    BY DEF TypeOK
  <2>2. Head(rest[r]) \in Upserts /\ Tail(rest[r]) \in Seq(Upserts)
    BY <2>1, <1>1, HeadTailProperties
  <2>3. Head(rest[r]) \in Work /\ Head(rest[r]).content \in Contents
    BY <2>2, UpsertIsWork
  <2> QED
    BY <1>1, <2>2, <2>3 DEF NextItem, TypeOK, PCs, Active
<1>2. CASE rest[r] = <<>>
  BY <1>2 DEF NextItem, TypeOK
<1> QED
  BY <1>1, <1>2

-----------------------------------------------------------------------------
\* The invariant holds of a tenant without requests or policies.
LEMMA InitInv == Init => Inv
<1> SUFFICES ASSUME Init PROVE Inv
  OBVIOUS
<1>1. TypeOK
  <2>1. Upsert(DefaultId, None) \in Work
    BY DefaultAssumption DEF Upsert, Work
  <2>2. 0 \in 0..PoolMax
    BY PoolAssumption
  <2> QED
    BY <2>1, <2>2, EmptySeqTyped DEF Init, TypeOK, Kinds, PCs
<1>2. \A p \in PolicyIds : VersionsOf(p) = {} /\ Nos(p) = {}
  BY DEF Init, VersionsOf, Nos
<1>3. Contiguous
  BY <1>2, 1..0 = {} DEF Contiguous
<1>4. LockDiscipline
  BY NoneAssumption DEF Init, LockDiscipline, Writing
<1> QED
  BY <1>1, <1>2, <1>3, <1>4
  DEF Init, Inv, Filled, NumberIsNext, Unique, CurrentIsLatest, InTxn, Writing

\* A step that leaves the tables alone keeps what is said of them only.
LEMMA TablesUnchanged ==
  ASSUME Inv, UNCHANGED <<policies, versions>>
  PROVE  /\ Contiguous' /\ Unique' /\ CurrentIsLatest'
         /\ \A p : VersionsOf(p)' = VersionsOf(p) /\ Nos(p)' = Nos(p)
<1>1. \A p : VersionsOf(p)' = VersionsOf(p) /\ Nos(p)' = Nos(p)
  BY DEF VersionsOf, Nos
<1> QED
  BY <1>1 DEF Inv, Contiguous, Unique, CurrentIsLatest, VersionsOf, Nos

\* A request that holds no lock before and after its step has no part in the
\* invariant but its type and the content it carries.
LEMMA WithoutLock ==
  ASSUME Inv, TypeOK', NEW r \in Requests, UNCHANGED <<policies, versions, rowLock>>,
         pc[r] \notin Writing \cup {"abort"}, pc'[r] \notin Writing \cup {"abort"},
         pc'[r] \in {"connect", "begin"} => item'[r].content \in Contents,
         \A s \in Requests \ {r} : pc'[s] = pc[s] /\ item'[s] = item[s] /\ no'[s] = no[s]
  PROVE  Inv'
<1>1. Filled'
  BY DEF Inv, Filled, InTxn, Writing
<1>2. LockDiscipline'
  <2> USE DEF Inv, LockDiscipline, Writing
  <2>1. \A p \in PolicyIds, s \in Requests :
          rowLock'[p] = s => item'[s].policy = p /\ pc'[s] \in Writing \cup {"abort"}
    <3> SUFFICES ASSUME NEW p \in PolicyIds, NEW s \in Requests, rowLock[p] = s
                 PROVE  item'[s].policy = p /\ pc'[s] \in Writing \cup {"abort"}
      OBVIOUS
    <3>1. s # r
      OBVIOUS
    <3> QED
      BY <3>1
  <2>2. \A s \in Requests : pc'[s] \in Writing => rowLock'[item'[s].policy] = s
    OBVIOUS
  <2> QED
    BY <2>1, <2>2
<1>3. NumberIsNext'
  BY TablesUnchanged DEF Inv, NumberIsNext, Writing
<1> QED
  BY <1>1, <1>2, <1>3, TablesUnchanged DEF Inv

-----------------------------------------------------------------------------
\* A request arrives.
LEMMA ArriveInv ==
  ASSUME Inv, NEW r \in Requests, Request(r)
  PROVE  Inv'
<1>1. ASSUME NEW k \in Kinds, NEW start \in {"connect", "lookup", "read"},
             NEW w \in Work, NEW more \in Seq(Upserts),
             start = "connect" => w.content \in Contents,
             Arrive(r, k, start, w, more)
      PROVE  Inv'
  <2>1. TypeOK'
    BY <1>1 DEF Inv, TypeOK, Arrive, store, PCs, Active, Reading
  <2>2. pc[r] = "idle" /\ pc'[r] = start /\ item'[r] = w
    BY <1>1 DEF Arrive, Inv, TypeOK
  <2>3. \A s \in Requests \ {r} : pc'[s] = pc[s] /\ item'[s] = item[s] /\ no'[s] = no[s]
    BY <1>1 DEF Arrive, Inv, TypeOK
  <2>4. UNCHANGED <<policies, versions, rowLock>>
    BY <1>1 DEF Arrive, store
  <2> QED
    BY <1>1, <2>1, <2>2, <2>3, <2>4, WithoutLock DEF Writing
<1>2. CASE PostPolicy(r)
  <2>1. PICK p \in PolicyIds, c \in Contents : Arrive(r, "post", "connect", Upsert(p, c), <<>>)
    BY <1>2 DEF PostPolicy
  <2>2. Upsert(p, c) \in Work /\ Upsert(p, c).content \in Contents
    BY UpsertIsWork DEF Upserts
  <2> QED
    BY <1>1, <2>1, <2>2, EmptySeqTyped DEF Kinds
<1>3. CASE BulkUpsert(r)
  <2>1. PICK b \in BulkLists : Arrive(r, "bulk", "connect", Head(b), Tail(b))
    BY <1>3 DEF BulkUpsert
  <2>2. Head(b) \in Upserts /\ Tail(b) \in Seq(Upserts)
    BY BulkAssumption, HeadTailProperties
  <2>3. Head(b) \in Work /\ Head(b).content \in Contents
    BY <2>2, UpsertIsWork
  <2> QED
    BY <1>1, <2>1, <2>2, <2>3 DEF Kinds
<1>4. CASE PostRollback(r)
  <2>1. PICK p \in PolicyIds, n \in Targets :
          Arrive(r, "rollback", "lookup", [policy |-> p, content |-> None, from |-> n], <<>>)
    BY <1>4 DEF PostRollback
  <2>2. [policy |-> p, content |-> None, from |-> n] \in Work
    BY TargetAssumption DEF Work
  <2> QED
    BY <1>1, <2>1, <2>2, EmptySeqTyped DEF Kinds
<1>5. CASE GetPolicies(r)
  <2>1. Upsert(DefaultId, None) \in Work
    BY DefaultAssumption DEF Upsert, Work
  <2> QED
    BY <1>1, <1>5, <2>1, EmptySeqTyped DEF GetPolicies, Kinds
<1> QED
  BY <1>2, <1>3, <1>4, <1>5 DEF Request

\* The reads change no table, and only Lookup and Read lead to an upsert.
LEMMA ReadInv ==
  ASSUME Inv, NEW r \in Requests, Lookup(r) \/ Read(r) \/ Reread(r)
  PROVE  Inv'
<1>1. CASE Lookup(r)
  <2>1. UNCHANGED <<policies, versions, rowLock, no>> /\ pc[r] = "lookup"
    BY <1>1 DEF Lookup, store
  <2>2. CASE \E v \in Target(r) : /\ item' = [item EXCEPT ![r].content = v.content]
                                 /\ pc' = [pc EXCEPT ![r] = "connect"]
    <3>1. PICK v \in Target(r) : /\ item' = [item EXCEPT ![r].content = v.content]
                                 /\ pc' = [pc EXCEPT ![r] = "connect"]
      BY <2>2
    <3>2. v.content \in Contents
      BY DEF Target, VersionsOf, Inv, TypeOK, Row
    <3>3. item' \in [Requests -> Work] /\ item'[r].content \in Contents
      BY <3>1, <3>2 DEF Inv, TypeOK, Work
    <3>4. TypeOK'
      BY <1>1, <3>1, <3>3 DEF Inv, TypeOK, Lookup, store, input, PCs, Active
    <3> QED
      BY <2>1, <3>1, <3>3, <3>4, WithoutLock DEF Inv, TypeOK, Writing
  <2>3. CASE pc' = [pc EXCEPT ![r] = "error"] /\ UNCHANGED item
    <3>1. TypeOK'
      BY <1>1, <2>3 DEF Inv, TypeOK, Lookup, store, input, PCs, Done
    <3> QED
      BY <2>1, <2>3, <3>1, WithoutLock DEF Inv, TypeOK, Writing
  <2> QED
    BY <1>1, <2>2, <2>3 DEF Lookup
<1>2. CASE Read(r)
  <2>1. UNCHANGED <<policies, versions, rowLock, no>> /\ pc[r] = "read"
    BY <1>2 DEF Read, store
  <2>2. Upsert(DefaultId, DefaultContent) \in Work
        /\ Upsert(DefaultId, DefaultContent).content \in Contents
    BY DefaultAssumption, UpsertIsWork DEF Upserts
  <2>3. /\ pc' \in [Requests -> PCs] /\ item' \in [Requests -> Work]
        /\ pc'[r] \in {"ok", "connect"}
        /\ pc'[r] = "connect" => item'[r].content \in Contents
        /\ \A s \in Requests \ {r} : pc'[s] = pc[s] /\ item'[s] = item[s]
    BY <1>2, <2>2 DEF Read, Inv, TypeOK, PCs, Active, Done
  <2>4. TypeOK'
    BY <1>2, <2>3 DEF Inv, TypeOK, Read, store, input
  <2> QED
    BY <2>1, <2>3, <2>4, WithoutLock DEF Inv, TypeOK, Writing
<1>3. CASE Reread(r)
  <2>1. UNCHANGED <<policies, versions, rowLock, no, item>> /\ pc[r] = "reread"
    BY <1>3 DEF Reread, store
  <2>2. TypeOK'
    BY <1>3 DEF Inv, TypeOK, Reread, store, input, PCs, Done
  <2> QED
    BY <1>3, <2>1, <2>2, WithoutLock DEF Inv, TypeOK, Reread, Writing
<1> QED
  BY <1>1, <1>2, <1>3

\* Waiting for a connection, with or without success.
LEMMA ConnectInv ==
  ASSUME Inv, NEW r \in Requests, Connect(r) \/ PoolError(r)
  PROVE  Inv'
<1>1. CASE Connect(r)
  <2>1. UNCHANGED <<policies, versions, rowLock, no, item>> /\ pc[r] = "connect"
    BY <1>1 DEF Connect, store
  <2>2. held' \in [Replicas -> 0..PoolMax]
    BY <1>1, PoolAssumption DEF Connect, PoolFree, Inv, TypeOK
  <2>3. TypeOK'
    BY <1>1, <2>2 DEF Inv, TypeOK, Connect, store, input, PCs, Active, Holding, InTxn
  <2>4. item[r].content \in Contents
    BY <2>1 DEF Inv, Filled
  <2>5. pc'[r] = "begin" /\ \A s \in Requests \ {r} : pc'[s] = pc[s]
    BY <1>1 DEF Connect, Inv, TypeOK
  <2> QED
    BY <2>1, <2>3, <2>4, <2>5, WithoutLock DEF Writing
<1>2. CASE PoolError(r)
  <2>1. UNCHANGED <<policies, versions, rowLock, no>> /\ pc[r] \in Reading \cup {"connect"}
    BY <1>2 DEF PoolError, store
  <2>2. /\ item' \in [Requests -> Work] /\ rest' \in [Requests -> Seq(Upserts)]
        /\ pc' \in [Requests -> PCs] /\ pc'[r] \in {"connect", "partial", "error"}
        /\ pc'[r] = "connect" => item'[r].content \in Contents
        /\ \A s \in Requests \ {r} : pc'[s] = pc[s] /\ item'[s] = item[s]
        /\ flawed' \subseteq Requests
    <3>1. CASE kind[r] = "bulk"
      BY <1>2, <3>1, NextItemTyped DEF PoolError, Inv, TypeOK, PCs, Done
    <3>2. CASE kind[r] # "bulk"
      BY <1>2, <3>2 DEF PoolError, Inv, TypeOK, PCs, Done
    <3> QED
      BY <3>1, <3>2
  <2>3. TypeOK'
    BY <1>2, <2>2 DEF Inv, TypeOK, PoolError, store, input
  <2> QED
    BY <2>1, <2>2, <2>3, WithoutLock DEF Reading, Writing
<1> QED
  BY <1>1, <1>2

\* After the commit: the connection goes back, the next item or the answer.
LEMMA FinishInv ==
  ASSUME Inv, NEW r \in Requests, Finish(r), held[host[r]] > 0
  PROVE  Inv'
<1>1. UNCHANGED <<policies, versions, rowLock, no>> /\ pc[r] = "committed"
  BY DEF Finish, store
<1>2. AfterWrite(r) \in {"reread", "partial", "ok"}
  BY DEF AfterWrite
<1>3. /\ item' \in [Requests -> Work] /\ rest' \in [Requests -> Seq(Upserts)]
      /\ pc' \in [Requests -> PCs] /\ pc'[r] \in {"connect", "reread", "partial", "ok"}
      /\ pc'[r] = "connect" => item'[r].content \in Contents
      /\ \A s \in Requests \ {r} : pc'[s] = pc[s] /\ item'[s] = item[s]
  BY <1>2, NextItemTyped DEF Finish, Inv, PCs, Active, Reading, Done
<1>4. held' \in [Replicas -> 0..PoolMax]
  BY PoolAssumption DEF Finish, Released, Inv, TypeOK
<1>5. audit' \subseteq Entry
  BY DEF Finish, Entries, Entry, Inv, TypeOK, Work
<1>6. TypeOK'
  BY <1>3, <1>4, <1>5 DEF Inv, TypeOK, Finish, store, input
<1> QED
  BY <1>1, <1>3, <1>6, WithoutLock DEF Writing

-----------------------------------------------------------------------------
\* The upsert takes the row lock, when nobody has it.
LEMMA UpsertRowInv ==
  ASSUME Inv, NEW r \in Requests, UpsertRow(r)
  PROVE  Inv'
<1>1. item[r].policy \in PolicyIds /\ pc[r] = "begin" /\ rowLock[item[r].policy] = None
  BY DEF UpsertRow, LockFree, Inv, TypeOK, Work
<1>2. UNCHANGED <<policies, versions, item, no>>
  BY DEF UpsertRow
<1>3. TypeOK'
  BY <1>1 DEF Inv, TypeOK, UpsertRow, input, PCs, Active, Holding, InTxn, Writing
<1>4. Filled'
  BY <1>1, <1>2 DEF Inv, TypeOK, Filled, UpsertRow, InTxn, Writing
<1>5. LockDiscipline'
  <2>1. \A p \in PolicyIds, s \in Requests :
          rowLock'[p] = s => item'[s].policy = p /\ pc'[s] \in Writing \cup {"abort"}
    <3> SUFFICES ASSUME NEW p \in PolicyIds, NEW s \in Requests, rowLock'[p] = s
                 PROVE  item'[s].policy = p /\ pc'[s] \in Writing \cup {"abort"}
      OBVIOUS
    <3>1. CASE s = r
      BY <1>1, <3>1 DEF UpsertRow, Inv, TypeOK, LockDiscipline, Writing
    <3>2. CASE s # r
      BY <1>1, <3>2 DEF UpsertRow, Inv, TypeOK, LockDiscipline
    <3> QED
      BY <3>1, <3>2
  <2>2. ASSUME NEW s \in Requests, pc'[s] \in Writing
        PROVE  rowLock'[item'[s].policy] = s
    <3>1. CASE s = r
      BY <1>1, <3>1 DEF UpsertRow, Inv, TypeOK
    <3>2. CASE s # r
      <4>1. rowLock[item[s].policy] = s /\ item[s].policy \in PolicyIds
        BY <2>2, <3>2 DEF UpsertRow, Inv, TypeOK, LockDiscipline, Work
      <4>2. item[s].policy # item[r].policy
        BY <4>1, <1>1, NoneAssumption
      <4> QED
        BY <4>1, <4>2 DEF UpsertRow, Inv, TypeOK
    <3> QED
      BY <3>1, <3>2
  <2> QED
    BY <2>1, <2>2 DEF LockDiscipline
<1>6. NumberIsNext'
  BY <1>1, <1>2, TablesUnchanged DEF Inv, TypeOK, NumberIsNext, UpsertRow
<1> QED
  BY <1>2, <1>3, <1>4, <1>5, <1>6, TablesUnchanged DEF Inv

\* The number read is the next one: the versions are not touched meanwhile.
LEMMA SelectMaxInv ==
  ASSUME Inv, NEW r \in Requests, SelectMax(r)
  PROVE  Inv'
<1>1. UNCHANGED <<policies, versions, rowLock, item>> /\ pc[r] = "max"
  BY DEF SelectMax, store
<1>2. item[r].policy \in PolicyIds
  BY DEF Inv, TypeOK, Work
<1>3. NextNo(r) \in Nat
  BY <1>2, MaxOfNos DEF NextNo, Inv
<1>4. TypeOK'
  BY <1>3 DEF Inv, TypeOK, SelectMax, store, input, PCs, Active, Holding, InTxn, Writing
<1>5. Filled'
  BY <1>1 DEF Inv, TypeOK, Filled, SelectMax, InTxn, Writing
<1>6. LockDiscipline'
  BY <1>1 DEF Inv, TypeOK, LockDiscipline, SelectMax, Writing
<1>7. NumberIsNext'
  BY <1>1, TablesUnchanged DEF Inv, TypeOK, NumberIsNext, SelectMax, NextNo
<1> QED
  BY <1>1, <1>4, <1>5, <1>6, <1>7, TablesUnchanged DEF Inv

\* The insert, and any error, move the transaction on without a new row.
LEMMA MoveOnInv ==
  ASSUME Inv, NEW r \in Requests, InsertVersion(r) \/ TxnError(r)
  PROVE  Inv'
<1>1. UNCHANGED <<policies, versions, rowLock, item, no>>
  BY DEF InsertVersion, TxnError, store
<1>2. /\ pc[r] \in InTxn /\ pc'[r] \in {"commit", "abort"}
      /\ pc'[r] = "commit" => pc[r] = "insert"
      /\ pc' = [pc EXCEPT ![r] = pc'[r]]
  BY DEF InsertVersion, TxnError, InTxn, Writing, Inv, TypeOK
<1>3. TypeOK'
  BY <1>2 DEF InsertVersion, TxnError, Inv, TypeOK, store, input,
              PCs, Active, Holding, InTxn, Writing
<1>4. Filled'
  BY <1>1, <1>2 DEF Inv, TypeOK, Filled, InTxn, Writing
<1>5. LockDiscipline'
  <2>1. \A p \in PolicyIds, s \in Requests :
          rowLock'[p] = s => item'[s].policy = p /\ pc'[s] \in Writing \cup {"abort"}
    <3> SUFFICES ASSUME NEW p \in PolicyIds, NEW s \in Requests, rowLock[p] = s
                 PROVE  item[s].policy = p /\ pc'[s] \in Writing \cup {"abort"}
      BY <1>1
    <3>1. item[s].policy = p /\ pc[s] \in Writing \cup {"abort"}
      BY DEF Inv, LockDiscipline
    <3> QED
      BY <3>1, <1>2 DEF Inv, TypeOK, Writing
  <2>2. ASSUME NEW s \in Requests, pc'[s] \in Writing
        PROVE  rowLock'[item'[s].policy] = s
    <3>1. pc[s] \in Writing
      BY <2>2, <1>2 DEF Inv, TypeOK, Writing
    <3> QED
      BY <3>1, <1>1 DEF Inv, LockDiscipline
  <2> QED
    BY <2>1, <2>2 DEF LockDiscipline
<1>6. NumberIsNext'
  BY <1>1, <1>2, TablesUnchanged DEF Inv, TypeOK, NumberIsNext
<1> QED
  BY <1>1, <1>3, <1>4, <1>5, <1>6, TablesUnchanged DEF Inv

\* ROLLBACK frees what the request has locked, and only that.
LEMMA RollbackInv ==
  ASSUME Inv, NEW r \in Requests, Rollback(r), held[host[r]] > 0
  PROVE  Inv'
<1>1. UNCHANGED <<policies, versions, no>> /\ pc[r] = "abort"
  BY DEF Rollback
<1>2. /\ item' \in [Requests -> Work] /\ rest' \in [Requests -> Seq(Upserts)]
      /\ pc' \in [Requests -> PCs] /\ pc'[r] \in {"connect", "partial", "error"}
      /\ pc'[r] = "connect" => item'[r].content \in Contents
      /\ \A s \in Requests \ {r} : pc'[s] = pc[s] /\ item'[s] = item[s]
      /\ flawed' \subseteq Requests
  <2>1. CASE kind[r] = "bulk"
    BY <2>1, NextItemTyped DEF Rollback, Inv, TypeOK, PCs, Done
  <2>2. CASE kind[r] # "bulk"
    BY <2>2 DEF Rollback, Inv, TypeOK, PCs, Done
  <2> QED
    BY <2>1, <2>2
<1>3. held' \in [Replicas -> 0..PoolMax]
  BY PoolAssumption DEF Rollback, Released, Inv, TypeOK
<1>4. /\ rowLock' \in [PolicyIds -> Requests \cup {None}]
      /\ \A p \in PolicyIds : rowLock'[p] # r
      /\ \A p \in PolicyIds, s \in Requests \ {r} : rowLock'[p] = s <=> rowLock[p] = s
  BY NoneAssumption DEF Rollback, Unlocked, Inv, TypeOK
<1>5. TypeOK'
  BY <1>2, <1>3, <1>4 DEF Inv, TypeOK, Rollback, input
<1>6. Filled'
  BY <1>2 DEF Inv, Filled, InTxn, Writing
<1>7. LockDiscipline'
  <2>1. \A s \in Requests : item'[s].policy \in PolicyIds
    BY <1>2 DEF Work
  <2>2. \A p \in PolicyIds, s \in Requests :
          rowLock'[p] = s => item'[s].policy = p /\ pc'[s] \in Writing \cup {"abort"}
    <3> SUFFICES ASSUME NEW p \in PolicyIds, NEW s \in Requests, rowLock'[p] = s
                 PROVE  item'[s].policy = p /\ pc'[s] \in Writing \cup {"abort"}
      OBVIOUS
    <3>1. s # r /\ rowLock[p] = s
      BY <1>4
    <3>2. item[s].policy = p /\ pc[s] \in Writing \cup {"abort"}
      BY <3>1 DEF Inv, LockDiscipline
    <3>3. pc'[s] = pc[s] /\ item'[s] = item[s]
      BY <1>2, <3>1
    <3> QED
      BY <3>2, <3>3
  <2>3. ASSUME NEW s \in Requests, pc'[s] \in Writing
        PROVE  rowLock'[item'[s].policy] = s
    <3>1. s # r
      BY <2>3, <1>2 DEF Writing
    <3>2. rowLock[item[s].policy] = s
      BY <3>1, <2>3, <1>2 DEF Inv, LockDiscipline
    <3> QED
      BY <3>1, <3>2, <2>1, <1>2, <1>4
  <2> QED
    BY <2>2, <2>3 DEF LockDiscipline
<1>8. NumberIsNext'
  BY <1>1, <1>2, TablesUnchanged DEF Inv, NumberIsNext
<1> QED
  BY <1>1, <1>5, <1>6, <1>7, <1>8, TablesUnchanged DEF Inv

\* COMMIT adds the next version of one policy, and no other row.
LEMMA CommitTables ==
  ASSUME Inv, NEW r \in Requests, Commit(r), NEW q \in PolicyIds, q = item[r].policy
  PROVE  /\ NewRow(r) \in Row /\ versions' = versions \cup {NewRow(r)}
         /\ NewRow(r).policy = q /\ NewRow(r).no = no[r]
         /\ NewRow(r).content = item[r].content
         /\ no[r] \in Nat /\ no[r] = MaxNo(Nos(q)) + 1
         /\ no[r] \notin Nos(q)
         /\ VersionsOf(q)' = VersionsOf(q) \cup {NewRow(r)}
         /\ Nos(q)' = 1..no[r] /\ MaxNo(Nos(q)') = no[r]
         /\ \A p \in PolicyIds \ {q} : VersionsOf(p)' = VersionsOf(p) /\ Nos(p)' = Nos(p)
<1>1. pc[r] = "commit" /\ versions' = versions \cup {NewRow(r)}
  BY DEF Commit, Inserted
<1>2. item[r].content \in Contents /\ item[r].from \in Nat
  BY <1>1 DEF Inv, TypeOK, Filled, Work, InTxn, Writing
<1>3. no[r] = MaxNo(Nos(q)) + 1 /\ no[r] \in Nat
  BY <1>1 DEF Inv, TypeOK, NumberIsNext
<1>4. /\ NewRow(r) \in Row /\ NewRow(r).policy = q /\ NewRow(r).no = no[r]
      /\ NewRow(r).content = item[r].content
  BY <1>2, <1>3 DEF NewRow, Row, Author
<1>5. VersionsOf(q)' = VersionsOf(q) \cup {NewRow(r)}
  BY <1>1, <1>4 DEF VersionsOf
<1>6. \A p \in PolicyIds \ {q} : VersionsOf(p)' = VersionsOf(p) /\ Nos(p)' = Nos(p)
  BY <1>1, <1>4 DEF VersionsOf, Nos
<1>7. Nos(q)' = Nos(q) \cup {no[r]}
  BY <1>4, <1>5 DEF Nos
<1>8. Nos(q) = 1..MaxNo(Nos(q)) /\ MaxNo(Nos(q)) \in Nat
  BY MaxOfNos DEF Inv
<1>9. Nos(q) \cup {no[r]} = 1..no[r] /\ no[r] \notin Nos(q)
  BY <1>3, <1>8
<1>10. MaxNo(1..no[r]) = no[r]
  BY <1>3, MaxOfInterval
<1> QED
  BY <1>1, <1>3, <1>4, <1>5, <1>6, <1>7, <1>9, <1>10

\* Row and version are committed together, so the invariant survives.
LEMMA CommitInv ==
  ASSUME Inv, NEW r \in Requests, Commit(r)
  PROVE  Inv'
<1> DEFINE q == item[r].policy
<1>1. q \in PolicyIds /\ pc[r] = "commit" /\ item[r].content \in Contents
  BY DEF Commit, Inv, TypeOK, Filled, Work, InTxn, Writing
<1>2. UNCHANGED <<item, no>>
  BY DEF Commit
<1>3. pc'[r] \in {"committed", "abort"} /\ pc' = [pc EXCEPT ![r] = pc'[r]]
  BY DEF Commit, Inv, TypeOK
<1>4. policies' = [policies EXCEPT ![q] = item[r].content]
  BY DEF Commit, Upserted
<1>5. /\ rowLock' \in [PolicyIds -> Requests \cup {None}]
      /\ \A p \in PolicyIds : rowLock'[p] # r
      /\ \A p \in PolicyIds, s \in Requests \ {r} : rowLock'[p] = s <=> rowLock[p] = s
  BY NoneAssumption DEF Commit, Unlocked, Inv, TypeOK
<1>6. TypeOK'
  <2>1. versions' \subseteq Row
    <3>1. NewRow(r) \in Row /\ versions' = versions \cup {NewRow(r)}
      BY <1>1, CommitTables
    <3>2. versions \subseteq Row
      BY DEF Inv, TypeOK
    <3> QED
      BY <3>1, <3>2
  <2>2. policies' \in [PolicyIds -> Contents \cup {None}]
    BY <1>1, <1>4 DEF Inv, TypeOK
  <2>3. pc' \in [Requests -> PCs]
    BY <1>3 DEF Inv, TypeOK, PCs, Active, Holding
  <2> QED
    BY <1>2, <1>5, <2>1, <2>2, <2>3 DEF Inv, TypeOK, Commit, input
<1>7. Filled'
  BY <1>2, <1>3 DEF Inv, TypeOK, Filled, InTxn, Writing
<1>8. LockDiscipline'
  <2>1. \A p \in PolicyIds, s \in Requests :
          rowLock'[p] = s => item'[s].policy = p /\ pc'[s] \in Writing \cup {"abort"}
    BY <1>2, <1>3, <1>5 DEF Inv, TypeOK, LockDiscipline
  <2>2. ASSUME NEW s \in Requests, pc'[s] \in Writing
        PROVE  rowLock'[item'[s].policy] = s
    <3>1. s # r
      BY <2>2, <1>3 DEF Writing
    <3>2. rowLock[item[s].policy] = s /\ item[s].policy \in PolicyIds
      BY <3>1, <2>2, <1>3 DEF Inv, TypeOK, LockDiscipline, Work
    <3> QED
      BY <3>1, <3>2, <1>2, <1>5
  <2> QED
    BY <2>1, <2>2 DEF LockDiscipline
<1>9. NumberIsNext'
  <2> SUFFICES ASSUME NEW s \in Requests, pc'[s] \in {"insert", "commit"},
                      NEW p \in PolicyIds, p = item'[s].policy
               PROVE  no'[s] = MaxNo(Nos(p)') + 1
    BY <1>6 DEF NumberIsNext, Nos, VersionsOf, TypeOK, Work
  <2>1. s # r /\ pc[s] \in {"insert", "commit"}
    BY <1>3 DEF Inv, TypeOK
  <2>2. rowLock[p] = s /\ rowLock[q] = r /\ no[s] = MaxNo(Nos(p)) + 1
    BY <1>1, <1>2, <2>1 DEF Inv, LockDiscipline, NumberIsNext, Writing
  <2>3. Nos(p)' = Nos(p)
    BY <1>1, <2>1, <2>2, CommitTables
  <2> QED
    BY <1>2, <2>2, <2>3
<1>10. Contiguous'
  <2> SUFFICES ASSUME NEW p \in PolicyIds
               PROVE  \E n \in Nat : Nos(p)' = 1..n
    BY DEF Contiguous
  <2>1. CASE p = q
    BY <2>1, CommitTables
  <2>2. CASE p # q
    BY <1>1, <2>2, CommitTables DEF Inv, Contiguous
  <2> QED
    BY <2>1, <2>2
<1>11. Unique'
  <2>1. versions' = versions \cup {NewRow(r)} /\ NewRow(r).policy = q /\ NewRow(r).no = no[r]
    BY <1>1, CommitTables
  <2>2. \A v \in versions : v.policy = q => v.no # no[r]
    <3>1. no[r] \notin Nos(q)
      BY <1>1, CommitTables
    <3> QED
      BY <3>1 DEF Nos, VersionsOf
  <2> QED
    BY <2>1, <2>2 DEF Inv, Unique
<1>12. CurrentIsLatest'
  <2> SUFFICES ASSUME NEW p \in PolicyIds
               PROVE  IF VersionsOf(p)' = {} THEN policies'[p] = None
                      ELSE \E v \in VersionsOf(p)' :
                             v.no = MaxNo(Nos(p)') /\ v.content = policies'[p]
    BY DEF CurrentIsLatest
  <2>1. CASE p = q
    <3>1. NewRow(r) \in VersionsOf(p)' /\ NewRow(r).no = MaxNo(Nos(p)')
          /\ NewRow(r).content = item[r].content
      BY <1>1, <2>1, CommitTables
    <3>2. policies'[p] = item[r].content
      BY <1>4, <2>1 DEF Inv, TypeOK
    <3> QED
      BY <3>1, <3>2
  <2>2. CASE p # q
    <3>1. VersionsOf(p)' = VersionsOf(p) /\ Nos(p)' = Nos(p) /\ policies'[p] = policies[p]
      BY <1>1, <1>4, <2>2, CommitTables DEF Inv, TypeOK
    <3> QED
      BY <3>1 DEF Inv, CurrentIsLatest
  <2> QED
    BY <2>1, <2>2
<1> QED
  BY <1>6, <1>7, <1>8, <1>9, <1>10, <1>11, <1>12 DEF Inv

\* A crash rolls back what the replica had open; the tables are unharmed.
LEMMA CrashInv ==
  ASSUME Inv, NEW h \in Replicas, Crash(h)
  PROVE  Inv'
<1> DEFINE hit == {r \in Requests : host[r] = h /\ pc[r] \in Active}
<1>1. UNCHANGED <<policies, versions, input, item, rest, no, flawed, audit>>
  BY DEF Crash
<1>2. \A r \in Requests : pc'[r] = IF r \in hit THEN "lost" ELSE pc[r]
  BY DEF Crash
<1>3. /\ rowLock' \in [PolicyIds -> Requests \cup {None}]
      /\ \A p \in PolicyIds, s \in Requests :
           rowLock'[p] = s <=> rowLock[p] = s /\ s \notin hit
  BY NoneAssumption DEF Crash, Inv, TypeOK
<1>4. TypeOK'
  <2>1. pc' \in [Requests -> PCs]
    BY DEF Crash, Inv, TypeOK, PCs, Done
  <2>2. held' \in [Replicas -> 0..PoolMax]
    BY PoolAssumption DEF Crash, Inv, TypeOK
  <2> QED
    BY <1>1, <1>3, <2>1, <2>2 DEF Inv, TypeOK, input
<1>5. Filled'
  BY <1>1, <1>2 DEF Inv, Filled, InTxn, Writing
<1>6. LockDiscipline'
  <2>1. \A p \in PolicyIds, s \in Requests :
          rowLock'[p] = s => item'[s].policy = p /\ pc'[s] \in Writing \cup {"abort"}
    BY <1>1, <1>2, <1>3 DEF Inv, LockDiscipline
  <2>2. ASSUME NEW s \in Requests, pc'[s] \in Writing
        PROVE  rowLock'[item'[s].policy] = s
    <3>1. s \notin hit /\ pc[s] \in Writing
      BY <2>2, <1>2 DEF Writing
    <3>2. rowLock[item[s].policy] = s /\ item[s].policy \in PolicyIds
      BY <3>1 DEF Inv, TypeOK, LockDiscipline, Work
    <3> QED
      BY <3>1, <3>2, <1>1, <1>3
  <2> QED
    BY <2>1, <2>2 DEF LockDiscipline
<1>7. NumberIsNext'
  BY <1>1, <1>2, TablesUnchanged DEF Inv, NumberIsNext
<1> QED
  BY <1>1, <1>4, <1>5, <1>6, <1>7, TablesUnchanged DEF Inv

-----------------------------------------------------------------------------
\* The accounts of the pools.

\* A request that uses a connection is one its pool counts.
LEMMA HeldByUser ==
  ASSUME TypeOK, Accounted, NEW r \in Requests, pc[r] \in Holding
  PROVE  held[host[r]] > 0
<1>1. host[r] \in Replicas
  BY DEF TypeOK
<1>2. r \in Users(host[r]) /\ IsFiniteSet(Users(host[r]))
  BY <1>1 DEF Users, Accounted
<1>3. Cardinality(Users(host[r])) # 0 /\ Cardinality(Users(host[r])) \in Nat
  BY <1>2, FS_EmptySet, FS_CardinalityType
<1> QED
  BY <1>1, <1>3 DEF Accounted

\* A request that keeps, or stays without, a connection changes no account.
LEMMA SameUsers ==
  ASSUME Accounted, TypeOK, NEW r \in Requests, UNCHANGED <<host, held>>,
         pc'[r] \in Holding <=> pc[r] \in Holding,
         \A s \in Requests \ {r} : pc'[s] = pc[s]
  PROVE  Accounted'
<1>1. \A h \in Replicas : Users(h)' = Users(h)
  BY DEF Users
<1> QED
  BY <1>1 DEF Accounted

\* A request that takes a connection is added to its pool's account.
LEMMA ConnectAccounts ==
  ASSUME Accounted, TypeOK, NEW r \in Requests, Connect(r)
  PROVE  Accounted'
<1> SUFFICES ASSUME NEW h \in Replicas
             PROVE  IsFiniteSet(Users(h)') /\ held'[h] = Cardinality(Users(h)')
  BY DEF Accounted
<1>1. /\ pc[r] = "connect" /\ pc' = [pc EXCEPT ![r] = "begin"] /\ host' = host
      /\ held' = [held EXCEPT ![host[r]] = @ + 1]
  BY DEF Connect, input
<1>2. IsFiniteSet(Users(h)) /\ held[h] = Cardinality(Users(h))
  BY DEF Accounted
<1>3. CASE h = host[r]
  <2>1. pc[r] \notin Holding /\ pc'[r] \in Holding /\ \A s \in Requests \ {r} : pc'[s] = pc[s]
    BY <1>1 DEF TypeOK, Holding, InTxn, Writing
  <2>2. Users(h)' = Users(h) \cup {r} /\ r \notin Users(h)
    BY <1>1, <1>3, <2>1 DEF Users
  <2>3. /\ IsFiniteSet(Users(h) \cup {r})
        /\ Cardinality(Users(h) \cup {r}) = Cardinality(Users(h)) + 1
    BY <1>2, <2>2, FS_AddElement
  <2>4. held'[h] = held[h] + 1
    BY <1>1, <1>3 DEF TypeOK
  <2> QED
    BY <1>2, <2>2, <2>3, <2>4
<1>4. CASE h # host[r]
  <2>1. Users(h)' = Users(h)
    BY <1>1, <1>4 DEF Users, TypeOK
  <2> QED
    BY <1>1, <1>2, <1>4, <2>1 DEF TypeOK
<1> QED
  BY <1>3, <1>4

\* A request that gives its connection back is taken off the account.
LEMMA ReleaseAccounts ==
  ASSUME Accounted, TypeOK, NEW r \in Requests, pc[r] \in Holding, pc'[r] \notin Holding,
         host' = host, held' = Released(r), \A s \in Requests \ {r} : pc'[s] = pc[s]
  PROVE  Accounted'
<1> SUFFICES ASSUME NEW h \in Replicas
             PROVE  IsFiniteSet(Users(h)') /\ held'[h] = Cardinality(Users(h)')
  BY DEF Accounted
<1>1. IsFiniteSet(Users(h)) /\ held[h] = Cardinality(Users(h))
  BY DEF Accounted
<1>2. CASE h = host[r]
  <2>1. Users(h)' = Users(h) \ {r} /\ r \in Users(h)
    BY <1>2 DEF Users
  <2>2. /\ IsFiniteSet(Users(h) \ {r})
        /\ Cardinality(Users(h) \ {r}) = Cardinality(Users(h)) - 1
    BY <1>1, <2>1, FS_RemoveElement
  <2>3. held'[h] = held[h] - 1
    BY <1>2 DEF TypeOK, Released
  <2> QED
    BY <1>1, <2>1, <2>2, <2>3
<1>3. CASE h # host[r]
  <2>1. Users(h)' = Users(h)
    BY <1>3 DEF Users
  <2> QED
    BY <1>1, <1>3, <2>1 DEF TypeOK, Released
<1> QED
  BY <1>2, <1>3

\* A crash closes every connection of the replica, and no other.
LEMMA CrashAccounts ==
  ASSUME Accounted, TypeOK, NEW h \in Replicas, Crash(h)
  PROVE  Accounted'
<1> SUFFICES ASSUME NEW g \in Replicas
             PROVE  IsFiniteSet(Users(g)') /\ held'[g] = Cardinality(Users(g)')
  BY DEF Accounted
<1>1. host' = host /\ held' = [held EXCEPT ![h] = 0]
  BY DEF Crash, input
<1>2. \A r \in Requests :
        pc'[r] = IF host[r] = h /\ pc[r] \in Active THEN "lost" ELSE pc[r]
  BY DEF Crash
<1>3. CASE g = h
  <2>1. Users(g)' = {}
    BY <1>1, <1>2, <1>3 DEF Users, Active, Holding, InTxn, Writing
  <2> QED
    BY <1>1, <1>3, <2>1, FS_EmptySet DEF TypeOK
<1>4. CASE g # h
  <2>1. Users(g)' = Users(g)
    BY <1>1, <1>2, <1>4 DEF Users
  <2> QED
    BY <1>1, <1>4, <2>1 DEF TypeOK, Accounted
<1> QED
  BY <1>3, <1>4

-----------------------------------------------------------------------------
IndInv == Inv /\ Accounted

\* Nothing changes, nothing breaks.
LEMMA StutterInv == IndInv /\ UNCHANGED vars => IndInv'
<1> SUFFICES ASSUME IndInv, UNCHANGED vars PROVE IndInv'
  OBVIOUS
<1>1. UNCHANGED <<policies, versions, rowLock, held, pc, host, kind, item, rest, no,
                  flawed, audit>>
  BY DEF vars
<1>2. TypeOK' /\ Filled' /\ LockDiscipline'
  BY <1>1 DEF IndInv, Inv, TypeOK, Filled, LockDiscipline
<1>3. NumberIsNext'
  BY <1>1, TablesUnchanged DEF IndInv, Inv, NumberIsNext
<1>4. Accounted'
  BY <1>1 DEF IndInv, Accounted, Users
<1> QED
  BY <1>1, <1>2, <1>3, <1>4, TablesUnchanged DEF IndInv, Inv

\* Every step keeps the tables, the locks and the numbers in order.
LEMMA StepInv == IndInv /\ Next => Inv'
<1> SUFFICES ASSUME IndInv, Next PROVE Inv'
  OBVIOUS
<1> USE DEF IndInv
<1>1. ASSUME NEW r \in Requests, Request(r) PROVE Inv'
  BY <1>1, ArriveInv
<1>2. ASSUME NEW r \in Requests, Progress(r) PROVE Inv'
  <2>1. CASE Finish(r)
    BY <2>1, FinishInv, HeldByUser DEF Finish, Inv, Holding
  <2>2. CASE Rollback(r)
    BY <2>2, RollbackInv, HeldByUser DEF Rollback, Inv, Holding
  <2> QED
    BY <1>2, <2>1, <2>2, ReadInv, ConnectInv, UpsertRowInv, SelectMaxInv, MoveOnInv, CommitInv
    DEF Progress
<1>3. ASSUME NEW r \in Requests, Failure(r) PROVE Inv'
  BY <1>3, MoveOnInv, ConnectInv DEF Failure
<1>4. ASSUME NEW h \in Replicas, Crash(h) PROVE Inv'
  BY <1>4, CrashInv
<1>5. CASE Terminated
  BY <1>5, StutterInv DEF Terminated
<1> QED
  BY <1>1, <1>2, <1>3, <1>4, <1>5 DEF Next

\* Every step keeps the accounts of the pools.
LEMMA StepAccounts == IndInv /\ Next => Accounted'
<1> SUFFICES ASSUME IndInv, Next PROVE Accounted'
  OBVIOUS
<1>0. Accounted /\ TypeOK /\ TypeOK'
  BY StepInv DEF IndInv, Inv
<1>1. ASSUME NEW r \in Requests, Request(r) PROVE Accounted'
  <2>1. /\ pc[r] = "idle" /\ pc'[r] \in {"connect", "lookup", "read"}
        /\ \A s \in Requests \ {r} : pc'[s] = pc[s]
        /\ UNCHANGED <<host, held>>
    BY <1>0, <1>1
    DEF Request, PostPolicy, BulkUpsert, PostRollback, GetPolicies, Arrive, TypeOK
  <2> QED
    BY <1>0, <2>1, SameUsers DEF Holding, InTxn, Writing
<1>2. ASSUME NEW r \in Requests, NextItem(r, "partial") \/ NextItem(r, AfterWrite(r))
      PROVE  /\ pc'[r] \in {"connect", "reread", "partial", "ok"}
             /\ \A s \in Requests \ {r} : pc'[s] = pc[s]
  <2>1. AfterWrite(r) \in {"reread", "partial", "ok"}
    BY DEF AfterWrite
  <2> QED
    BY <1>0, <1>2, <2>1, NextItemTyped DEF PCs, Active, Reading, Done
<1>3. ASSUME NEW r \in Requests, Connect(r) PROVE Accounted'
  BY <1>0, <1>3, ConnectAccounts
<1>4. ASSUME NEW r \in Requests, Lookup(r) \/ Read(r) \/ Reread(r)
      PROVE  Accounted'
  <2>1. /\ pc[r] \in Reading /\ pc'[r] \in {"connect", "error", "ok"}
        /\ \A s \in Requests \ {r} : pc'[s] = pc[s]
        /\ UNCHANGED <<host, held>>
    BY <1>0, <1>4 DEF Lookup, Read, Reread, Reading, TypeOK, input
  <2> QED
    BY <1>0, <2>1, SameUsers DEF Holding, InTxn, Writing, Reading
<1>5. ASSUME NEW r \in Requests,
             UpsertRow(r) \/ SelectMax(r) \/ InsertVersion(r) \/ TxnError(r) \/ Commit(r)
      PROVE  Accounted'
  <2>1. /\ pc[r] \in InTxn /\ pc'[r] \in Writing \cup {"committed", "abort"}
        /\ \A s \in Requests \ {r} : pc'[s] = pc[s]
        /\ UNCHANGED <<host, held>>
    BY <1>0, <1>5
    DEF UpsertRow, SelectMax, InsertVersion, TxnError, Commit, InTxn, Writing, TypeOK, input
  <2> QED
    BY <1>0, <2>1, SameUsers DEF Holding, InTxn
<1>6. ASSUME NEW r \in Requests, Finish(r) PROVE Accounted'
  <2>1. pc[r] \in Holding /\ host' = host /\ held' = Released(r)
    BY <1>6 DEF Finish, input, Holding
  <2> QED
    BY <1>0, <1>2, <1>6, <2>1, ReleaseAccounts DEF Finish, Holding, InTxn, Writing
<1>7. ASSUME NEW r \in Requests, Rollback(r) PROVE Accounted'
  <2>1. pc[r] \in Holding /\ host' = host /\ held' = Released(r)
    BY <1>7 DEF Rollback, input, Holding
  <2>2. /\ pc'[r] \in {"connect", "reread", "partial", "ok", "error"}
        /\ \A s \in Requests \ {r} : pc'[s] = pc[s]
    BY <1>0, <1>2, <1>7 DEF Rollback, TypeOK
  <2> QED
    BY <1>0, <2>1, <2>2, ReleaseAccounts DEF Holding, InTxn, Writing
<1>8. ASSUME NEW r \in Requests, PoolError(r) PROVE Accounted'
  <2>1. pc[r] \in Reading \cup {"connect"} /\ UNCHANGED <<host, held>>
    BY <1>8 DEF PoolError, input
  <2>2. /\ pc'[r] \in {"connect", "reread", "partial", "ok", "error"}
        /\ \A s \in Requests \ {r} : pc'[s] = pc[s]
    BY <1>0, <1>2, <1>8 DEF PoolError, TypeOK
  <2> QED
    BY <1>0, <2>1, <2>2, SameUsers DEF Reading, Holding, InTxn, Writing
<1>9. ASSUME NEW h \in Replicas, Crash(h) PROVE Accounted'
  BY <1>0, <1>9, CrashAccounts
<1>10. CASE Terminated
  BY <1>10, StutterInv DEF Terminated, IndInv
<1> QED
  BY <1>1, <1>3, <1>4, <1>5, <1>6, <1>7, <1>8, <1>9, <1>10 DEF Next, Progress, Failure

\* The invariant is inductive.
THEOREM Invariance == Spec => []IndInv
<1>1. Init => IndInv
  <2> SUFFICES ASSUME Init PROVE Accounted
    BY InitInv DEF IndInv
  <2>1. \A h \in Replicas : Users(h) = {} /\ held[h] = 0
    BY DEF Init, Users, Holding, InTxn, Writing
  <2> QED
    BY <2>1, FS_EmptySet DEF Accounted
<1>2. IndInv /\ [Next]_vars => IndInv'
  BY StepInv, StepAccounts, StutterInv DEF IndInv
<1> QED
  BY <1>1, <1>2, PTL DEF Spec

\* Type correctness: upsertGovernancePolicy and its callers keep every table
\* and every pool within its type.
THEOREM TypeCorrect == Spec => []TypeOK
BY Invariance, PTL DEF IndInv, Inv

\* The versions of a policy are numbered 1..n without gap or repetition.
THEOREM NumberingIsGapFree == Spec => []GapFree
<1>1. IndInv => GapFree
  BY MaxOfNos DEF IndInv, Inv, GapFree, Unique
<1> QED
  BY <1>1, Invariance, PTL

\* The policy row is the latest version.
THEOREM CurrentMatchesLatest == Spec => []CurrentIsLatest
BY Invariance, PTL DEF IndInv, Inv

\* Row locks are held by open transactions on their row only.
THEOREM LocksAreDisciplined == Spec => []LockDiscipline
BY Invariance, PTL DEF IndInv, Inv

\* The unique index is never hit: two transactions that have read a number
\* for one policy would both hold its lock.
THEOREM IndexNeverClashes == Spec => []NoVersionClash
<1>1. IndInv => NoVersionClash
  <2> SUFFICES ASSUME IndInv, NEW r \in Requests, pc[r] = "insert"
               PROVE  ~Taken(r) /\ ~Pending(r)
    BY DEF NoVersionClash
  <2> USE DEF IndInv, Inv
  <2>1. item[r].policy \in PolicyIds /\ no[r] = MaxNo(Nos(item[r].policy)) + 1
    BY DEF TypeOK, Work, NumberIsNext
  <2>2. ~Taken(r)
    BY <2>1, MaxOfNos DEF Taken
  <2>3. ~Pending(r)
    BY <2>1 DEF Pending, LockDiscipline, Writing
  <2> QED
    BY <2>2, <2>3
<1> QED
  BY <1>1, Invariance, PTL

\* No path of a handler keeps a connection it no longer uses.
THEOREM ClientsAreReleased == Spec => []NoClientLeak
<1>1. IndInv => NoClientLeak
  BY DEF IndInv, Accounted, NoClientLeak
<1> QED
  BY <1>1, Invariance, PTL

\* Only COMMIT writes the tables.
LEMMA OnlyCommitWrites ==
  ASSUME Next, \A r \in Requests : ~Commit(r)
  PROVE  UNCHANGED <<policies, versions>>
BY DEF Next, Request, Progress, Failure, Terminated, vars, store,
       PostPolicy, BulkUpsert, PostRollback, GetPolicies, Arrive, Lookup, Read, Reread,
       Connect, UpsertRow, SelectMax, InsertVersion, TxnError, Finish, Rollback,
       PoolError, Crash

\* The history only grows, by the next version of one policy.
THEOREM HistoryGrows == Spec => AppendOnly
<1> DEFINE Grows == /\ versions \subseteq versions'
                    /\ \A v \in versions' \ versions :
                         /\ v.no = MaxNo(Nos(v.policy)) + 1
                         /\ versions' = versions \cup {v}
<1>1. IndInv /\ [Next]_vars => [Grows]_vars
  <2> SUFFICES ASSUME IndInv, Next PROVE Grows
    OBVIOUS
  <2>1. ASSUME NEW r \in Requests, Commit(r) PROVE Grows
    <3>1. item[r].policy \in PolicyIds
      BY DEF IndInv, Inv, TypeOK, Work
    <3>2. /\ versions' = versions \cup {NewRow(r)}
          /\ NewRow(r).no = MaxNo(Nos(NewRow(r).policy)) + 1
      BY <2>1, <3>1, CommitTables DEF IndInv
    <3> QED
      BY <3>2
  <2>2. CASE \A r \in Requests : ~Commit(r)
    BY <2>2, OnlyCommitWrites
  <2> QED
    BY <2>1, <2>2
<1> QED
  BY <1>1, Invariance, PTL DEF Spec, AppendOnly

-----------------------------------------------------------------------------
\* Refinement: to a reader of the tables each step is a step of the registry.

\* Each number up to the last has exactly one version, with a content.
LEMMA OneVersionPerNo ==
  ASSUME Inv, NEW p \in PolicyIds, NEW n \in 1..MaxNo(Nos(p))
  PROVE  /\ \E v \in VersionsOf(p) : v.no = n
         /\ \A v, w \in VersionsOf(p) : v.no = n /\ w.no = n => v = w
         /\ ContentOf(p, n) \in Contents
<1>1. n \in Nos(p)
  BY MaxOfNos DEF Inv
<1>2. PICK v \in VersionsOf(p) : v.no = n
  BY <1>1 DEF Nos
<1>3. \A x, y \in VersionsOf(p) : x.no = n /\ y.no = n => x = y
  BY DEF Inv, Unique, VersionsOf
<1>4. (CHOOSE w \in VersionsOf(p) : w.no = n) = v
  BY <1>2, <1>3
<1>5. v.content \in Contents
  BY DEF VersionsOf, Inv, TypeOK, Row
<1> QED
  BY <1>2, <1>3, <1>4, <1>5 DEF ContentOf

LEMMA HistoryTyped ==
  ASSUME Inv, NEW p \in PolicyIds
  PROVE  HistoryOf(p) \in Seq(Contents) /\ Len(HistoryOf(p)) = MaxNo(Nos(p))
<1>1. MaxNo(Nos(p)) \in Nat
  BY MaxOfNos DEF Inv
<1>2. \A n \in 1..MaxNo(Nos(p)) : ContentOf(p, n) \in Contents
  BY OneVersionPerNo
<1>3. HistoryOf(p) \in [1..MaxNo(Nos(p)) -> Contents]
  BY <1>2 DEF HistoryOf
<1> QED
  BY <1>1, <1>3

LEMMA CommitIsPut ==
  ASSUME Inv, NEW r \in Requests, Commit(r),
         NEW q \in PolicyIds, q = item[r].policy, NEW c, c = item[r].content
  PROVE  /\ c \in Contents
         /\ HistoryOf(q)' = Append(HistoryOf(q), c)
         /\ \A p \in PolicyIds \ {q} : HistoryOf(p)' = HistoryOf(p)
<1>1. c \in Contents
  BY DEF Commit, Inv, Filled, InTxn, Writing
<1>2. PICK n \in Nat : n = no[r]
  BY DEF Inv, TypeOK
<1>3. /\ VersionsOf(q)' = VersionsOf(q) \cup {NewRow(r)}
      /\ NewRow(r).no = n /\ NewRow(r).content = c
      /\ MaxNo(Nos(q)') = n /\ n = MaxNo(Nos(q)) + 1 /\ n \notin Nos(q)
  BY <1>2, CommitTables
<1>4. MaxNo(Nos(q)) \in Nat
  BY MaxOfNos DEF Inv
<1>5. \A i \in 1..MaxNo(Nos(q)) : ContentOf(q, i)' = ContentOf(q, i)
  <2> TAKE i \in 1..MaxNo(Nos(q))
  <2>1. i # n
    BY <1>3, <1>4
  <2>2. PICK v \in VersionsOf(q) : v.no = i /\ \A w \in VersionsOf(q) : w.no = i => w = v
    BY OneVersionPerNo
  <2>3. (CHOOSE w \in VersionsOf(q) : w.no = i) = v
    BY <2>2
  <2>4. (CHOOSE w \in VersionsOf(q)' : w.no = i) = v
    BY <1>3, <2>1, <2>2
  <2> QED
    BY <2>3, <2>4 DEF ContentOf
<1>6. ContentOf(q, n)' = c
  <2>1. \A w \in VersionsOf(q) : w.no # n
    BY <1>3 DEF Nos
  <2>2. (CHOOSE w \in VersionsOf(q)' : w.no = n) = NewRow(r)
    BY <1>3, <2>1
  <2> QED
    BY <1>3, <2>2 DEF ContentOf
<1>7. HistoryOf(q)' = Append(HistoryOf(q), c)
  <2> DEFINE h == HistoryOf(q)
             g == [i \in 1..n |-> ContentOf(q, i)']
  <2>1. h \in Seq(Contents) /\ Len(h) = MaxNo(Nos(q))
    BY HistoryTyped
  <2>2. \A i \in 1..Len(h) : h[i] = ContentOf(q, i)
    BY <2>1 DEF HistoryOf
  <2>3. \A i \in 1..n : g[i] \in Contents /\ g[i] = IF i = n THEN c ELSE h[i]
    BY <1>1, <1>3, <1>4, <1>5, <1>6, <2>1, <2>2, OneVersionPerNo
  <2>4. g \in Seq(Contents) /\ Len(g) = n
    BY <2>3
  <2>5. /\ Append(h, c) \in Seq(Contents) /\ Len(Append(h, c)) = Len(h) + 1
        /\ \A i \in 1..Len(h) : Append(h, c)[i] = h[i]
        /\ Append(h, c)[Len(h) + 1] = c
    BY <1>1, <2>1, AppendProperties
  <2>6. g = Append(h, c)
    <3>1. Len(g) = Len(Append(h, c))
      BY <1>3, <2>1, <2>4, <2>5
    <3>2. \A i \in 1..Len(g) : g[i] = Append(h, c)[i]
      BY <1>3, <1>4, <2>1, <2>3, <2>4, <2>5
    <3> HIDE DEF g, h
    <3> QED
      BY <2>4, <2>5, <3>1, <3>2, SeqEqual
  <2>7. HistoryOf(q)' = g
    BY <1>3 DEF HistoryOf
  <2> QED
    BY <2>6, <2>7
<1>8. ASSUME NEW p \in PolicyIds \ {q} PROVE HistoryOf(p)' = HistoryOf(p)
  <2>1. VersionsOf(p)' = VersionsOf(p) /\ Nos(p)' = Nos(p)
    BY CommitTables
  <2> QED
    BY <2>1 DEF HistoryOf, ContentOf
<1> QED
  BY <1>1, <1>7, <1>8

\* The store implements the registry: every write of a policy is one atomic
\* change of its content and its history, whatever requests overlap or die.
THEOREM StoreImplementsRegistry == Spec => RegistrySpec
<1> DEFINE hist == [p \in PolicyIds |-> HistoryOf(p)]
<1>1. Init => Registry!Init
  <2> SUFFICES ASSUME Init PROVE hist = [p \in PolicyIds |-> <<>>]
    BY DEF Registry!Init, Init
  <2>1. ASSUME NEW p \in PolicyIds PROVE HistoryOf(p) = <<>>
    <3>1. Nos(p) = {}
      BY DEF Init, Nos, VersionsOf
    <3>2. MaxNo(Nos(p)) = 0 /\ Inv
      BY <3>1, InitInv DEF MaxNo
    <3>3. HistoryOf(p) \in Seq(Contents) /\ Len(HistoryOf(p)) = 0
      BY <3>2, HistoryTyped
    <3> QED
      BY <3>3, EmptySeq
  <2> QED
    BY <2>1
<1>2. IndInv /\ [Next]_vars => [Registry!Next]_(Registry!registryVars)
  <2> SUFFICES ASSUME IndInv, [Next]_vars
               PROVE  Registry!Next \/ UNCHANGED Registry!registryVars
    OBVIOUS
  <2> USE DEF IndInv
  <2>1. CASE UNCHANGED <<policies, versions>>
    <3>1. \A p \in PolicyIds : HistoryOf(p)' = HistoryOf(p)
      BY <2>1 DEF HistoryOf, ContentOf, VersionsOf, Nos
    <3> QED
      BY <2>1, <3>1 DEF Registry!registryVars
  <2>2. ASSUME NEW r \in Requests, Commit(r) PROVE Registry!Next
    <3>1. PICK q \in PolicyIds : q = item[r].policy
      BY DEF Inv, TypeOK, Work
    <3>2. PICK c : c = item[r].content
      OBVIOUS
    <3>3. /\ c \in Contents /\ HistoryOf(q)' = Append(HistoryOf(q), c)
          /\ \A p \in PolicyIds \ {q} : HistoryOf(p)' = HistoryOf(p)
      BY <2>2, <3>1, <3>2, CommitIsPut
    <3>4. policies' = [policies EXCEPT ![q] = c]
      BY <2>2, <3>1, <3>2 DEF Commit, Upserted
    <3>5. hist' = [hist EXCEPT ![q] = Append(@, c)]
      BY <3>3
    <3>6. Registry!Put(q, c)
      BY <3>4, <3>5 DEF Registry!Put
    <3> QED
      BY <3>3, <3>6 DEF Registry!Next
  <2>3. CASE Next /\ \A r \in Requests : ~Commit(r)
    BY <2>1, <2>3, OnlyCommitWrites
  <2>4. CASE UNCHANGED vars
    BY <2>1, <2>4 DEF vars
  <2> QED
    BY <2>2, <2>3, <2>4
<1> QED
  BY <1>1, <1>2, Invariance, PTL DEF Spec, RegistrySpec, Registry!Spec
-----------------------------------------------------------------------------
(***************************************************************************)
(* What the history says of where its versions came from, what the audit   *)
(* trail says of the history, and what the answers say of both.  A request *)
(* reads, writes, is told and tells in separate steps, so the invariant    *)
(* says of each request how far its story has come.                        *)
(***************************************************************************)

\* An upsert on its way to restore a version has found it.
HasFound(r) == pc[r] \in {"connect"} \cup InTxn /\ item[r].from > 0 =>
  \E w \in versions : /\ w.policy = item[r].policy /\ w.no = item[r].from
                      /\ w.content = item[r].content

\* Only a bulk request goes on after a failed item.
IsFlawed(r) == r \in flawed => kind[r] = "bulk" /\ pc[r] # "idle"

\* A listing writes nothing in its own name, and only a listing reads the
\* policies.
IsWriter(r) == pc[r] \in {"read", "reread"} => kind[r] = "list"

\* A success, of an item or of the request, is of a committed version.
IsTrue(r) ==
  /\ pc[r] = "committed" => NewRow(r) \in versions
  /\ pc[r] = "ok" /\ kind[r] # "list" => r \notin flawed /\ NewRow(r) \in versions

\* The entry a version should have.
EntryOf(v) == [policy |-> v.policy, no |-> v.no, by |-> v.by]

\* A version without an entry: its author has still to make it, or has failed.
IsAudited(r) == \A v \in versions : v.by = r =>
  /\ pc[r] # "idle" /\ kind[r] # "list"
  /\ \/ EntryOf(v) \in audit \/ r \in flawed
     \/ pc[r] \in {"abort", "error", "lost"}
     \/ pc[r] = "committed" /\ v = NewRow(r)

Story(r) == HasFound(r) /\ IsFlawed(r) /\ IsWriter(r) /\ IsTrue(r) /\ IsAudited(r)

EntriesNameVersions == \A e \in audit : \E v \in versions :
  v.policy = e.policy /\ v.no = e.no /\ v.by = e.by

History == RollbackRestores /\ EntriesNameVersions /\ \A r \in Requests : Story(r)

-----------------------------------------------------------------------------
\* The step is one of request r: the others are where they were, tables only
\* grow, and a new version is by r or a seed.
StepOf(r) ==
  /\ \A s \in Requests \ {r} :
       /\ pc'[s] = pc[s] /\ kind'[s] = kind[s] /\ item'[s] = item[s] /\ no'[s] = no[s]
       /\ s \in flawed' <=> s \in flawed
  /\ versions \subseteq versions' /\ \A v \in versions' \ versions : v.by \in {r, Seed}
  /\ audit \subseteq audit'

\* The step of one request leaves the stories of the others as they are.
LEMMA OthersKeep ==
  ASSUME History, NEW r \in Requests, StepOf(r), NEW s \in Requests \ {r}
  PROVE  Story(s)'
<1>1. Story(s)
  BY DEF History
<1>2. /\ pc'[s] = pc[s] /\ kind'[s] = kind[s] /\ item'[s] = item[s] /\ no'[s] = no[s]
      /\ s \in flawed' <=> s \in flawed
      /\ versions \subseteq versions' /\ audit \subseteq audit'
      /\ \A v \in versions' : v.by = s => v \in versions
  BY SeedAssumption DEF StepOf
<1>3. HasFound(s)' /\ IsFlawed(s)' /\ IsWriter(s)'
  BY <1>1, <1>2 DEF Story, HasFound, IsFlawed, IsWriter
<1>4. NewRow(s)' = NewRow(s)
  BY <1>2 DEF NewRow, Author
<1>5. IsTrue(s)'
  BY <1>1, <1>2, <1>4 DEF Story, IsTrue
<1>6. IsAudited(s)'
  BY <1>1, <1>2, <1>4 DEF Story, IsAudited, EntryOf
<1> QED
  BY <1>3, <1>5, <1>6 DEF Story

\* So a step that changes no table is right if the story of its request is.
LEMMA QuietKeeps ==
  ASSUME History, NEW r \in Requests, StepOf(r), UNCHANGED <<versions, audit>>, Story(r)'
  PROVE  History'
<1>1. RollbackRestores' /\ EntriesNameVersions'
  BY DEF History, RollbackRestores, EntriesNameVersions
<1> QED
  BY <1>1, OthersKeep DEF History

\* The body of a bulk request restores nothing.
LEMMA UpsertRestoresNothing == \A u \in Upserts : u.from = 0
BY DEF Upserts, Upsert

\* The next item of a bulk request restores nothing; without one the item is
\* the same as before.
LEMMA NextItemRestoresNothing ==
  ASSUME TypeOK, NEW r \in Requests, NEW end, NextItem(r, end)
  PROVE  /\ \/ pc'[r] = "connect" /\ item'[r].from = 0
            \/ pc'[r] = end /\ item'[r] = item[r]
         /\ \A s \in Requests \ {r} : pc'[s] = pc[s] /\ item'[s] = item[s]
<1>1. CASE rest[r] # <<>>
  <2>1. rest[r] \in Seq(Upserts)
    BY DEF TypeOK
  <2>2. Head(rest[r]) \in Upserts
    BY <2>1, <1>1, HeadTailProperties
  <2>3. Head(rest[r]).from = 0
    BY <2>2, UpsertRestoresNothing
  <2> QED
    BY <1>1, <2>3 DEF NextItem, TypeOK
<1>2. CASE rest[r] = <<>>
  BY <1>2 DEF NextItem, TypeOK
<1> QED
  BY <1>1, <1>2

-----------------------------------------------------------------------------
\* A request that arrives has written nothing yet, and an upsert that needs no
\* lookup restores nothing.
LEMMA ArriveKeeps ==
  ASSUME Inv, History, NEW r \in Requests, Request(r)
  PROVE  History'
<1>1. PICK k \in Kinds, start \in {"connect", "lookup", "read"}, w \in Work,
             more \in Seq(Upserts) :
        /\ Arrive(r, k, start, w, more)
        /\ start = "connect" => w.from = 0
        /\ start = "read" => k = "list"
  <2>1. CASE PostPolicy(r)
    <3>1. PICK p \in PolicyIds, c \in Contents : Arrive(r, "post", "connect", Upsert(p, c), <<>>)
      BY <2>1 DEF PostPolicy
    <3>2. Upsert(p, c) \in Work /\ Upsert(p, c).from = 0
      BY DEF Upsert, Work
    <3> QED
      BY <3>1, <3>2, EmptySeqTyped DEF Kinds
  <2>2. CASE BulkUpsert(r)
    <3>1. PICK b \in BulkLists : Arrive(r, "bulk", "connect", Head(b), Tail(b))
      BY <2>2 DEF BulkUpsert
    <3>2. Head(b) \in Upserts /\ Tail(b) \in Seq(Upserts)
      BY BulkAssumption, HeadTailProperties
    <3>3. Head(b) \in Work
      BY <3>2, UpsertIsWork
    <3>4. Head(b).from = 0
      BY <3>2, UpsertRestoresNothing
    <3> QED
      BY <3>1, <3>2, <3>3, <3>4 DEF Kinds
  <2>3. CASE PostRollback(r)
    <3>1. PICK p \in PolicyIds, n \in Targets :
            Arrive(r, "rollback", "lookup", [policy |-> p, content |-> None, from |-> n], <<>>)
      BY <2>3 DEF PostRollback
    <3>2. [policy |-> p, content |-> None, from |-> n] \in Work
      BY TargetAssumption DEF Work
    <3> QED
      BY <3>1, <3>2, EmptySeqTyped DEF Kinds
  <2>4. CASE GetPolicies(r)
    <3>1. Upsert(DefaultId, None) \in Work
      BY DefaultAssumption DEF Upsert, Work
    <3> QED
      BY <2>4, <3>1, EmptySeqTyped DEF GetPolicies, Kinds
  <2> QED
    BY <2>1, <2>2, <2>3, <2>4 DEF Request
<1>2. /\ pc[r] = "idle" /\ pc'[r] = start /\ kind'[r] = k /\ item'[r] = w
      /\ UNCHANGED <<versions, audit, no, flawed>>
      /\ \A s \in Requests \ {r} : pc'[s] = pc[s] /\ kind'[s] = kind[s] /\ item'[s] = item[s]
  BY <1>1 DEF Arrive, store, Inv, TypeOK
<1>3. StepOf(r)
  BY <1>2 DEF StepOf
<1>4. r \notin flawed /\ \A v \in versions : v.by # r
  BY <1>2 DEF History, Story, IsFlawed, IsAudited
<1>5. Story(r)'
  BY <1>1, <1>2, <1>4 DEF Story, HasFound, IsFlawed, IsWriter, IsTrue, IsAudited, InTxn, Writing
<1> QED
  BY <1>2, <1>3, <1>5, QuietKeeps

\* The lookup finds what is to be restored; versions are never removed, so it
\* is there when the copy is written.
LEMMA LookupKeeps ==
  ASSUME Inv, History, NEW r \in Requests, Lookup(r)
  PROVE  History'
<1>1. pc[r] = "lookup" /\ UNCHANGED <<versions, audit, no, flawed, kind>>
  BY DEF Lookup, store, input
<1>2. PICK v \in versions \cup {None} :
        /\ \/ pc'[r] = "error" /\ item'[r] = item[r]
           \/ /\ pc'[r] = "connect" /\ v \in Target(r)
              /\ item'[r] = [item[r] EXCEPT !.content = v.content]
        /\ \A s \in Requests \ {r} : pc'[s] = pc[s] /\ item'[s] = item[s]
  BY DEF Lookup, Target, VersionsOf, Inv, TypeOK
<1>3. StepOf(r)
  BY <1>1, <1>2 DEF StepOf
<1>4. HasFound(r)'
  <2>1. item[r] \in Work
    BY DEF Inv, TypeOK
  <2> QED
    BY <1>1, <1>2, <2>1 DEF HasFound, Target, VersionsOf, Work, InTxn, Writing
<1>5. IsFlawed(r)' /\ IsWriter(r)' /\ IsTrue(r)' /\ IsAudited(r)'
  BY <1>1, <1>2 DEF History, Story, IsFlawed, IsWriter, IsTrue, IsAudited, EntryOf
<1> QED
  BY <1>1, <1>3, <1>4, <1>5, QuietKeeps DEF Story

\* A listing reads, and seeds in nobody's name.
LEMMA ReadKeeps ==
  ASSUME Inv, History, NEW r \in Requests, Read(r) \/ Reread(r)
  PROVE  History'
<1>1. /\ pc[r] \in {"read", "reread"} /\ pc'[r] \in {"ok", "connect"}
      /\ pc'[r] = "connect" => item'[r].from = 0
      /\ UNCHANGED <<versions, audit, no, flawed, kind>>
      /\ \A s \in Requests \ {r} : pc'[s] = pc[s] /\ item'[s] = item[s]
  BY DEF Read, Reread, Upsert, store, input, Inv, TypeOK
<1>2. StepOf(r)
  BY <1>1 DEF StepOf
<1>3. Story(r)'
  BY <1>1 DEF History, Story, HasFound, IsFlawed, IsWriter, IsTrue, IsAudited, EntryOf,
     InTxn, Writing
<1> QED
  BY <1>1, <1>2, <1>3, QuietKeeps

\* On the way to its commit, or to its rollback, a transaction keeps its item.
LEMMA TransactionKeeps ==
  ASSUME Inv, History, NEW r \in Requests,
         Connect(r) \/ UpsertRow(r) \/ SelectMax(r) \/ InsertVersion(r) \/ TxnError(r)
  PROVE  History'
<1>1. /\ pc[r] \in {"connect"} \cup InTxn /\ pc'[r] \in InTxn \cup {"abort"}
      /\ UNCHANGED <<versions, audit, flawed, kind, item>>
      /\ \A s \in Requests \ {r} : pc'[s] = pc[s] /\ no'[s] = no[s]
  BY DEF Connect, UpsertRow, SelectMax, InsertVersion, TxnError, store, input, InTxn, Writing,
     Inv, TypeOK
<1>2. StepOf(r)
  BY <1>1 DEF StepOf
<1>3. Story(r)'
  BY <1>1 DEF History, Story, HasFound, IsFlawed, IsWriter, IsTrue, IsAudited, EntryOf,
     InTxn, Writing
<1> QED
  BY <1>1, <1>2, <1>3, QuietKeeps

\* A failed item of a bulk request is remembered; any other failure is the end.
LEMMA FailureKeeps ==
  ASSUME Inv, History, NEW r \in Requests, Rollback(r) \/ PoolError(r)
  PROVE  History'
<1>1. /\ pc[r] \notin {"idle", "committed"}
      /\ UNCHANGED <<versions, audit, no, kind>>
      /\ IF kind[r] = "bulk" THEN NextItem(r, "partial") /\ flawed' = flawed \cup {r}
         ELSE pc' = [pc EXCEPT ![r] = "error"] /\ UNCHANGED <<item, flawed>>
  BY DEF Rollback, PoolError, store, input, Reading
<1>2. /\ \/ kind[r] = "bulk" /\ r \in flawed' /\ pc'[r] = "connect" /\ item'[r].from = 0
         \/ kind[r] = "bulk" /\ r \in flawed' /\ pc'[r] = "partial"
         \/ pc'[r] = "error" /\ (r \in flawed' => r \in flawed)
      /\ \A s \in Requests \ {r} : /\ pc'[s] = pc[s] /\ item'[s] = item[s]
                                   /\ s \in flawed' <=> s \in flawed
  <2>1. CASE kind[r] = "bulk"
    BY <1>1, <2>1, NextItemRestoresNothing DEF Inv
  <2>2. CASE kind[r] # "bulk"
    BY <1>1, <2>2 DEF Inv, TypeOK
  <2> QED
    BY <2>1, <2>2
<1>3. StepOf(r)
  BY <1>1, <1>2 DEF StepOf
<1>4. Story(r)'
  BY <1>1, <1>2 DEF History, Story, HasFound, IsFlawed, IsWriter, IsTrue, IsAudited, EntryOf,
     InTxn, Writing
<1> QED
  BY <1>1, <1>3, <1>4, QuietKeeps

-----------------------------------------------------------------------------
\* A commit adds the one version its request carries; what that restores has
\* a lower number.
LEMMA CommitKeeps ==
  ASSUME Inv, History, NEW r \in Requests, Commit(r)
  PROVE  History'
<1>1. /\ pc[r] = "commit" /\ pc'[r] \in {"committed", "abort"}
      /\ UNCHANGED <<audit, no, flawed, kind, item>>
      /\ \A s \in Requests \ {r} : pc'[s] = pc[s]
  BY DEF Commit, input, Inv, TypeOK
<1>2. /\ item[r].policy \in PolicyIds /\ item[r].from \in Nat
  BY DEF Inv, TypeOK, Work
<1>3. /\ versions' = versions \cup {NewRow(r)} /\ NewRow(r)' = NewRow(r)
      /\ no[r] = MaxNo(Nos(item[r].policy)) + 1
  BY <1>1, <1>2, CommitTables DEF NewRow, Author
<1>4. StepOf(r)
  BY <1>1, <1>3 DEF StepOf, NewRow, Author
<1>5. Story(r)'
  <2>1. Story(r)
    BY DEF History
  <2>2. HasFound(r)' /\ IsFlawed(r)' /\ IsWriter(r)' /\ IsTrue(r)'
    BY <1>1, <1>3, <2>1 DEF Story, HasFound, IsFlawed, IsWriter, IsTrue, InTxn, Writing
  <2>3. IsAudited(r)'
    <3> SUFFICES ASSUME NEW v \in versions', v.by = r
                 PROVE  /\ kind[r] # "list"
                        /\ \/ EntryOf(v) \in audit \/ r \in flawed
                           \/ pc'[r] \in {"abort", "error", "lost"}
                           \/ pc'[r] = "committed" /\ v = NewRow(r)
      BY <1>1, <1>3 DEF IsAudited, EntryOf
    <3>1. CASE v \in versions
      BY <1>1, <2>1, <3>1 DEF Story, IsAudited
    <3>2. CASE v = NewRow(r)
      BY <1>1, <3>2, SeedAssumption DEF NewRow, Author
    <3> QED
      BY <1>3, <3>1, <3>2
  <2> QED
    BY <2>2, <2>3 DEF Story
<1>6. EntriesNameVersions'
  BY <1>1, <1>3 DEF History, EntriesNameVersions
<1>7. RollbackRestores'
  <2> SUFFICES ASSUME NEW v \in versions', v.from > 0
               PROVE  \E w \in versions : /\ w.policy = v.policy /\ w.no = v.from
                                          /\ w.no < v.no /\ w.content = v.content
    BY <1>3 DEF RollbackRestores
  <2>1. CASE v \in versions
    BY <2>1 DEF History, RollbackRestores
  <2>2. CASE v = NewRow(r)
    <3>1. /\ v.policy = item[r].policy /\ v.content = item[r].content
          /\ v.from = item[r].from /\ v.no = no[r]
      BY <2>2 DEF NewRow
    <3>2. PICK w \in versions : /\ w.policy = item[r].policy /\ w.no = item[r].from
                                /\ w.content = item[r].content
      BY <1>1, <3>1 DEF History, Story, HasFound, InTxn, Writing
    <3>3. w.no \in Nos(item[r].policy)
      BY <3>2 DEF Nos, VersionsOf
    <3>4. w.no < no[r]
      BY <1>2, <1>3, <3>3, MaxOfNos DEF Inv
    <3> QED
      BY <3>1, <3>2, <3>4
  <2> QED
    BY <1>3, <2>1, <2>2
<1> QED
  BY <1>4, <1>5, <1>6, <1>7, OthersKeep DEF History

\* The entry is made of the version that was committed, and the request ends
\* in success only if no item failed before.
LEMMA FinishKeeps ==
  ASSUME Inv, History, NEW r \in Requests, Finish(r)
  PROVE  History'
<1>1. /\ pc[r] = "committed" /\ NextItem(r, AfterWrite(r))
      /\ audit' = audit \cup Entries(r)
      /\ UNCHANGED <<versions, no, flawed, kind>>
  BY DEF Finish, store, input
<1>2. /\ \/ pc'[r] = "connect" /\ item'[r].from = 0
         \/ pc'[r] = AfterWrite(r) /\ item'[r] = item[r]
      /\ \A s \in Requests \ {r} : pc'[s] = pc[s] /\ item'[s] = item[s]
  BY <1>1, NextItemRestoresNothing DEF Inv
<1>3. NewRow(r) \in versions
  BY <1>1 DEF History, Story, IsTrue
<1>4. StepOf(r)
  BY <1>1, <1>2 DEF StepOf
<1>5. AfterWrite(r) = IF kind[r] = "list" THEN "reread"
                      ELSE IF r \in flawed THEN "partial" ELSE "ok"
  BY DEF AfterWrite
<1>6. Story(r)'
  <2>1. HasFound(r)' /\ IsFlawed(r)' /\ IsWriter(r)'
    BY <1>1, <1>2, <1>5 DEF History, Story, HasFound, IsFlawed, IsWriter, InTxn, Writing
  <2>2. IsTrue(r)'
    BY <1>1, <1>2, <1>3, <1>5 DEF IsTrue, NewRow, Author
  <2>3. IsAudited(r)'
    <3> SUFFICES ASSUME NEW v \in versions, v.by = r
                 PROVE  kind[r] # "list" /\ (EntryOf(v) \in audit' \/ r \in flawed)
      BY <1>1, <1>2, <1>5 DEF IsAudited, EntryOf
    <3>1. /\ kind[r] # "list"
          /\ EntryOf(v) \in audit \/ r \in flawed \/ v = NewRow(r)
      BY <1>1 DEF History, Story, IsAudited
    <3>2. v = NewRow(r) => EntryOf(v) \in Entries(r)
      BY <3>1 DEF EntryOf, Entries, NewRow, Author
    <3> QED
      BY <1>1, <3>1, <3>2
  <2> QED
    BY <2>1, <2>2, <2>3 DEF Story
<1>7. EntriesNameVersions'
  <2> SUFFICES ASSUME NEW e \in audit'
               PROVE  \E v \in versions : v.policy = e.policy /\ v.no = e.no /\ v.by = e.by
    BY <1>1 DEF EntriesNameVersions
  <2>1. CASE e \in audit
    BY <2>1 DEF History, EntriesNameVersions
  <2>2. CASE e \in Entries(r)
    BY <1>3, <2>2 DEF Entries, NewRow, Author
  <2> QED
    BY <1>1, <2>1, <2>2
<1>8. RollbackRestores'
  BY <1>1 DEF History, RollbackRestores
<1> QED
  BY <1>4, <1>6, <1>7, <1>8, OthersKeep DEF History

\* A crash leaves the tables, and the requests it hits without an answer.
LEMMA CrashKeeps ==
  ASSUME Inv, History, NEW h \in Replicas, Crash(h)
  PROVE  History'
<1>1. /\ UNCHANGED <<versions, audit, no, flawed, kind, item>>
      /\ \A r \in Requests : (pc'[r] = "lost" /\ pc[r] \in Active) \/ pc'[r] = pc[r]
  BY DEF Crash, input
<1>2. ASSUME NEW r \in Requests PROVE Story(r)'
  <2>1. Story(r) /\ NewRow(r)' = NewRow(r)
    BY <1>1 DEF History, NewRow, Author
  <2>2. CASE pc'[r] = pc[r]
    BY <1>1, <2>1, <2>2
    DEF Story, HasFound, IsFlawed, IsWriter, IsTrue, IsAudited, EntryOf
  <2>3. CASE pc'[r] = "lost" /\ pc[r] \in Active
    BY <1>1, <2>1, <2>3
    DEF Story, HasFound, IsFlawed, IsWriter, IsTrue, IsAudited, EntryOf, InTxn, Writing
  <2> QED
    BY <1>1, <2>2, <2>3
<1>3. RollbackRestores' /\ EntriesNameVersions'
  BY <1>1 DEF History, RollbackRestores, EntriesNameVersions
<1> QED
  BY <1>2, <1>3 DEF History

-----------------------------------------------------------------------------
LEMMA InitHistory == Init => History
<1> SUFFICES ASSUME Init PROVE History
  OBVIOUS
<1> QED
  BY DEF Init, History, RollbackRestores, EntriesNameVersions, Story, HasFound, IsFlawed,
     IsWriter, IsTrue, IsAudited, InTxn, Writing

LEMMA StepHistory == Inv /\ History /\ [Next]_vars => History'
<1> SUFFICES ASSUME Inv, History, [Next]_vars PROVE History'
  OBVIOUS
<1>1. CASE UNCHANGED vars
  <2>1. RollbackRestores' /\ EntriesNameVersions'
    BY <1>1 DEF vars, store, History, RollbackRestores, EntriesNameVersions
  <2>2. ASSUME NEW r \in Requests PROVE Story(r)'
    BY <1>1 DEF vars, store, input, History, Story, HasFound, IsFlawed, IsWriter, IsTrue,
       IsAudited, EntryOf, NewRow, Author
  <2> QED
    BY <2>1, <2>2 DEF History
<1>2. ASSUME NEW r \in Requests, Request(r) \/ Progress(r) \/ Failure(r) PROVE History'
  BY <1>2, ArriveKeeps, LookupKeeps, ReadKeeps, TransactionKeeps, FailureKeeps, CommitKeeps,
     FinishKeeps DEF Progress, Failure
<1>3. ASSUME NEW h \in Replicas, Crash(h) PROVE History'
  BY <1>3, CrashKeeps
<1> QED
  BY <1>1, <1>2, <1>3 DEF Next, Terminated

-----------------------------------------------------------------------------
\* The inductive invariant of what requests have found, written and reported.
THEOREM HistoryInvariance == Spec => []History
<1> QED
  BY InitHistory, StepHistory, Invariance, PTL DEF Spec, IndInv

\* What a rollback wrote is an earlier version of the same policy, although
\* others commit between its lookup and its transaction.
THEOREM RollbacksRestore == Spec => []RollbackRestores
BY HistoryInvariance, PTL DEF History

\* No entry of the audit trail is about a version that is not there, and no
\* author is told of success without the entries of all its versions.
THEOREM AuditTellsTruth == Spec => []AuditMatchesHistory
<1>1. Inv /\ History => AuditMatchesHistory
  <2> SUFFICES ASSUME Inv, History PROVE AuditMatchesHistory
    OBVIOUS
  <2>1. ASSUME NEW v \in versions, v.by # Seed, pc[v.by] = "ok"
        PROVE  EntryOf(v) \in audit
    <3>1. v.by \in Requests
      BY <2>1 DEF Inv, TypeOK, Row
    <3>2. IsAudited(v.by) /\ IsTrue(v.by)
      BY <3>1 DEF History, Story
    <3> QED
      BY <2>1, <3>2 DEF IsAudited, IsTrue
  <2> QED
    BY <2>1 DEF History, EntriesNameVersions, AuditMatchesHistory, EntryOf
<1> QED
  BY <1>1, HistoryInvariance, Invariance, PTL DEF IndInv

\* A write answered as a full success is in the history, and none of its items
\* failed.
THEOREM AnswersAreTruthful == Spec => []AnswerIsTruthful
<1>1. History => AnswerIsTruthful
  BY DEF History, Story, IsTrue, AnswerIsTruthful
<1> QED
  BY <1>1, HistoryInvariance, PTL
=============================================================================
