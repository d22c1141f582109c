------------------------- MODULE PolicyMemoryProofs -------------------------
(***************************************************************************)
(* Proofs about PolicyMemory, for any policies, contents, bulk bodies and  *)
(* bound.  Every step that changes the store is one Put whose arguments    *)
(* come from the request or, for a rollback, from a version of the same    *)
(* policy; the audit log is what the numbers are counted by.  The last     *)
(* part compares the store with the one of PolicyParity that has a         *)
(* database.                                                               *)
(***************************************************************************)
EXTENDS PolicyParity, SequenceTheorems, TLAPS

\* The policy is as its last version says, or as it was preset.
CurrentIsLatest == \A p \in PolicyIds :
  IF VersionsOf(p) = {} THEN policies[p] = Preset[p]
  ELSE \E v \in VersionsOf(p) : v.no = MaxNo(Nos(p)) /\ v.content = policies[p]

Inv == TypeOK /\ AuditTellsHistory /\ CurrentIsLatest

\* A Put with arguments as the handlers give them.
Wrote(p, c, n, a) ==
  /\ Put(p, c, n, a)
  /\ a = "ROLLBACK_POLICY" <=> n > 0
  /\ n > 0 => \E w \in VersionsOf(p) : w.no = n /\ w.content = c

SomeoneWrote == \E p \in PolicyIds, c \in Contents, n \in Nat, a \in AuditActions :
  Wrote(p, c, n, a)

-----------------------------------------------------------------------------
\* The greatest number of the interval 1..n is n.
LEMMA MaxOfInterval == \A n \in Nat : MaxNo(1..n) = n
<1> TAKE n \in Nat
<1>1. CASE n = 0
  <2>1. 1..n = {}
    BY <1>1
  <2> QED
    BY <1>1, <2>1 DEF MaxNo
<1>2. CASE n # 0
  <2>1. n \in 1..n /\ \A m \in 1..n : m <= n
    BY <1>2
  <2>2. \A k \in 1..n : (\A m \in 1..n : m <= k) => k = n
    BY <2>1
  <2> QED
    BY <2>1, <2>2 DEF MaxNo
<1> QED
  BY <1>1, <1>2

\* The log of a policy counts its versions.
LEMMA LogCounts ==
  ASSUME Inv, NEW p \in PolicyIds
  PROVE  /\ Len(audited[p]) \in Nat /\ audited[p] \in Seq(AuditActions)
         /\ Nos(p) = 1..Len(audited[p]) /\ MaxNo(Nos(p)) = Len(audited[p])
<1>1. audited[p] \in Seq(AuditActions) /\ Nos(p) = 1..Len(audited[p])
  BY DEF Inv, TypeOK, AuditTellsHistory
<1>2. Len(audited[p]) \in Nat
  BY <1>1
<1> QED
  BY <1>1, <1>2, MaxOfInterval

\* What a write does: one version more, with the next number.
LEMMA PutExtends ==
  ASSUME Inv, NEW q \in PolicyIds, NEW c \in Contents, NEW k \in Nat,
         NEW a \in AuditActions, Put(q, c, k, a),
         NEW n, n = Len(audited[q]) + 1,
         NEW row, row = [policy |-> q, no |-> n, content |-> c, from |-> k]
  PROVE  /\ n \in Nat /\ row \in Row /\ n \notin Nos(q) /\ Nos(q) = 1..(n - 1)
         /\ versions' = versions \cup {row}
         /\ VersionsOf(q)' = VersionsOf(q) \cup {row}
         /\ Nos(q)' = 1..n /\ MaxNo(Nos(q)') = n
         /\ audited' = [audited EXCEPT ![q] = Append(@, a)]
         /\ policies' = [policies EXCEPT ![q] = c]
         /\ \A p \in PolicyIds \ {q} : VersionsOf(p)' = VersionsOf(p) /\ Nos(p)' = Nos(p)
<1>1. n \in Nat /\ n > 0 /\ Nos(q) = 1..(n - 1) /\ NextNo(q) = n
  BY LogCounts DEF NextNo
<1>2. n \notin Nos(q)
  BY <1>1
<1>3. versions' = versions \cup {row}
  BY <1>1 DEF Put
<1>4. row \in Row
  BY <1>1 DEF Row
<1>5. VersionsOf(q)' = VersionsOf(q) \cup {row}
  BY <1>3 DEF VersionsOf
<1>6. Nos(q)' = Nos(q) \cup {n}
  BY <1>5 DEF Nos
<1>7. Nos(q)' = 1..n
  BY <1>1, <1>6
<1>8. MaxNo(Nos(q)') = n
  BY <1>1, <1>7, MaxOfInterval
<1>9. \A p \in PolicyIds \ {q} : VersionsOf(p)' = VersionsOf(p)
  BY <1>3 DEF VersionsOf
<1>10. \A p \in PolicyIds \ {q} : Nos(p)' = Nos(p)
  BY <1>9 DEF Nos
<1> QED
  BY <1>1, <1>2, <1>3, <1>4, <1>5, <1>7, <1>8, <1>9, <1>10 DEF Put, Audited, Listed

\* Every step writes once, or leaves the store alone; the bulk items left are
\* items in either case.
LEMMA StepWritesOnce ==
  ASSUME TypeOK, [Next]_vars
  PROVE  (SomeoneWrote \/ UNCHANGED memory) /\ todo' \in Seq(Items)
<1>1. ASSUME NEW p \in PolicyIds, NEW c \in Contents, PostPolicy(p, c)
      PROVE  SomeoneWrote /\ todo' \in Seq(Items)
  <2>1. Wrote(p, c, 0, "UPSERT_POLICY")
    BY <1>1 DEF PostPolicy, Wrote
  <2> QED
    BY <1>1, <2>1 DEF PostPolicy, SomeoneWrote, AuditActions, TypeOK
<1>2. ASSUME NEW b \in BulkLists, BulkUpsert(b)
      PROVE  UNCHANGED memory /\ todo' \in Seq(Items)
  BY <1>2, BulkAssumption DEF BulkUpsert
<1>3. ASSUME BulkItem PROVE SomeoneWrote /\ todo' \in Seq(Items)
  <2>1. todo \in Seq(Items) /\ todo # <<>>
    BY <1>3 DEF BulkItem, TypeOK
  <2>2. Head(todo) \in Items /\ Tail(todo) \in Seq(Items)
    BY <2>1, HeadTailProperties
  <2>3. Head(todo).policy \in PolicyIds /\ Head(todo).content \in Contents
    BY <2>2 DEF Items
  <2>4. Wrote(Head(todo).policy, Head(todo).content, 0, "UPSERT_POLICY_BULK")
    BY <1>3 DEF BulkItem, Wrote
  <2> QED
    BY <1>3, <2>2, <2>3, <2>4 DEF BulkItem, SomeoneWrote, AuditActions
<1>4. ASSUME NEW p \in PolicyIds, NEW n \in 1..MaxNumber, PostRollback(p, n)
      PROVE  SomeoneWrote /\ todo' \in Seq(Items)
  <2>1. PICK v \in Target(p, n) :
          Put(p, v.content, n, "ROLLBACK_POLICY") /\ UNCHANGED todo
    BY <1>4 DEF PostRollback
  <2>2. v \in VersionsOf(p) /\ v.no = n /\ v.content \in Contents
    BY DEF Target, VersionsOf, TypeOK, Row
  <2>3. n \in Nat /\ n > 0
    BY MaxAssumption
  <2>4. Wrote(p, v.content, n, "ROLLBACK_POLICY")
    BY <2>1, <2>2, <2>3 DEF Wrote
  <2> QED
    BY <2>1, <2>2, <2>3, <2>4 DEF SomeoneWrote, AuditActions, TypeOK
<1>5. CASE UNCHANGED vars
  BY <1>5 DEF vars, memory, TypeOK
<1> QED
  BY <1>1, <1>2, <1>3, <1>4, <1>5 DEF Next

-----------------------------------------------------------------------------
LEMMA InitInv == Init => Inv
<1> SUFFICES ASSUME Init PROVE Inv
  OBVIOUS
<1>1. \A p \in PolicyIds : VersionsOf(p) = {} /\ Nos(p) = {}
  BY DEF Init, VersionsOf, Nos
<1>2. TypeOK
  BY DefaultAssumption DEF Init, TypeOK, Preset
<1>3. AuditTellsHistory
  <2>1. \A p \in PolicyIds : audited[p] = <<>>
    BY DEF Init
  <2>2. Len(<<>>) = 0 /\ 1..0 = {}
    OBVIOUS
  <2> QED
    BY <1>1, <2>1, <2>2 DEF AuditTellsHistory
<1>4. CurrentIsLatest
  BY <1>1 DEF Init, CurrentIsLatest
<1> QED
  BY <1>2, <1>3, <1>4 DEF Inv

LEMMA WriteInv ==
  ASSUME Inv, SomeoneWrote, todo' \in Seq(Items) PROVE Inv'
<1>1. PICK q \in PolicyIds, c \in Contents, k \in Nat, a \in AuditActions : Wrote(q, c, k, a)
  BY DEF SomeoneWrote
<1>2. PICK n : n = Len(audited[q]) + 1
  OBVIOUS
<1>3. PICK row : row = [policy |-> q, no |-> n, content |-> c, from |-> k]
  OBVIOUS
<1>4. /\ n \in Nat /\ row \in Row /\ n \notin Nos(q) /\ Nos(q) = 1..(n - 1)
      /\ versions' = versions \cup {row}
      /\ VersionsOf(q)' = VersionsOf(q) \cup {row}
      /\ Nos(q)' = 1..n /\ MaxNo(Nos(q)') = n
      /\ audited' = [audited EXCEPT ![q] = Append(@, a)]
      /\ policies' = [policies EXCEPT ![q] = c]
      /\ \A p \in PolicyIds \ {q} : VersionsOf(p)' = VersionsOf(p) /\ Nos(p)' = Nos(p)
  BY <1>1, <1>2, <1>3, PutExtends DEF Wrote
<1>5. /\ audited[q] \in Seq(AuditActions) /\ Len(audited[q]) \in Nat
      /\ audited'[q] = Append(audited[q], a)
      /\ \A p \in PolicyIds \ {q} : audited'[p] = audited[p] /\ policies'[p] = policies[p]
      /\ policies'[q] = c
  BY <1>4, LogCounts DEF Inv, TypeOK
<1>6. /\ audited'[q] \in Seq(AuditActions) /\ Len(audited'[q]) = n
      /\ \A i \in 1..(n - 1) : audited'[q][i] = audited[q][i]
      /\ audited'[q][n] = a
  BY <1>2, <1>5, AppendProperties
<1>7. TypeOK'
  <2>1. audited' \in [PolicyIds -> Seq(AuditActions)]
    BY <1>4, <1>6, <1>5 DEF Inv, TypeOK
  <2> QED
    BY <1>4, <2>1 DEF Inv, TypeOK
<1>8. AuditTellsHistory'
  <2> SUFFICES ASSUME NEW p \in PolicyIds
               PROVE  /\ Nos(p)' = 1..Len(audited'[p])
                      /\ \A v, w \in VersionsOf(p)' : v.no = w.no => v = w
                      /\ \A v \in VersionsOf(p)' :
                           /\ audited'[p][v.no] = "ROLLBACK_POLICY" <=> v.from > 0
                           /\ v.from > 0 => \E w \in VersionsOf(p)' :
                                w.no = v.from /\ w.no < v.no /\ w.content = v.content
    BY DEF AuditTellsHistory
  <2>1. CASE p # q
    BY <1>4, <1>5, <2>1 DEF Inv, AuditTellsHistory
  <2>2. CASE p = q
    <3>1. \A v \in VersionsOf(q) : v.no \in Nos(q) /\ v.no # n /\ v.no \in 1..(n - 1)
      BY <1>4 DEF Nos
    <3>2. row.no = n /\ row.from = k /\ row.content = c
      BY <1>3
    <3>3. \A v, w \in VersionsOf(q)' : v.no = w.no => v = w
      BY <1>4, <3>1, <3>2 DEF Inv, AuditTellsHistory
    <3>4. ASSUME NEW v \in VersionsOf(q)
          PROVE  /\ audited'[q][v.no] = "ROLLBACK_POLICY" <=> v.from > 0
                 /\ v.from > 0 => \E w \in VersionsOf(q)' :
                      w.no = v.from /\ w.no < v.no /\ w.content = v.content
      <4>1. audited'[q][v.no] = audited[q][v.no]
        BY <1>6, <3>1
      <4> QED
        BY <1>4, <4>1 DEF Inv, AuditTellsHistory
    <3>5. /\ audited'[q][row.no] = "ROLLBACK_POLICY" <=> row.from > 0
          /\ row.from > 0 => \E w \in VersionsOf(q)' :
               w.no = row.from /\ w.no < row.no /\ w.content = row.content
      <4>1. a = "ROLLBACK_POLICY" <=> k > 0
        BY <1>1 DEF Wrote
      <4>2. k > 0 => \E w \in VersionsOf(q) : w.no = k /\ w.content = c
        BY <1>1 DEF Wrote
      <4> QED
        BY <1>4, <1>6, <3>1, <3>2, <4>1, <4>2
    <3> QED
      BY <1>4, <1>6, <2>2, <3>3, <3>4, <3>5
  <2> QED
    BY <2>1, <2>2
<1>9. CurrentIsLatest'
  <2> SUFFICES ASSUME NEW p \in PolicyIds
               PROVE  IF VersionsOf(p)' = {} THEN policies'[p] = Preset[p]
                      ELSE \E v \in VersionsOf(p)' :
                             v.no = MaxNo(Nos(p)') /\ v.content = policies'[p]
    BY DEF CurrentIsLatest, Preset
  <2>1. CASE p # q
    BY <1>4, <1>5, <2>1 DEF Inv, CurrentIsLatest
  <2>2. CASE p = q
    <3>1. row \in VersionsOf(q)' /\ row.no = MaxNo(Nos(q)') /\ row.content = policies'[q]
      BY <1>3, <1>4, <1>5
    <3> QED
      BY <2>2, <3>1
  <2> QED
    BY <2>1, <2>2
<1> QED
  BY <1>7, <1>8, <1>9 DEF Inv

\* What the store holds does not depend on the bulk items left.
LEMMA UnchangedInv ==
  ASSUME Inv, UNCHANGED memory, todo' \in Seq(Items) PROVE Inv'
<1>1. policies' = policies /\ versions' = versions /\ audited' = audited
  BY DEF memory
<1>2. TypeOK'
  BY <1>1 DEF Inv, TypeOK
<1>3. AuditTellsHistory'
  BY <1>1 DEF Inv, AuditTellsHistory, VersionsOf, Nos
<1>4. CurrentIsLatest'
  BY <1>1 DEF Inv, CurrentIsLatest, VersionsOf, Nos, Preset
<1> QED
  BY <1>2, <1>3, <1>4 DEF Inv

\* The inductive invariant of the in-memory policy store.
THEOREM MemoryInvariance == Spec => []Inv
<1>1. Inv /\ [Next]_vars => Inv'
  BY StepWritesOnce, WriteInv, UnchangedInv DEF Inv
<1> QED
  BY InitInv, <1>1, PTL DEF Spec

\* Types; in particular nothing without content is ever stored.
THEOREM MemoryTypeCorrect == Spec => []TypeOK
BY MemoryInvariance, PTL DEF Inv

\* The audit log of a process without a database tells the history of each
\* policy, and rollbacks repeat what they name.
THEOREM MemoryAuditTellsHistory == Spec => []AuditTellsHistory
BY MemoryInvariance, PTL DEF Inv

\* The diff of any two versions explains one from the other.
THEOREM DiffsExplain == Spec => []DiffExplains
<1>1. TypeOK => DiffExplains
  <2> SUFFICES ASSUME TypeOK, NEW v \in versions, NEW w \in versions,
                      NEW d, d = Diff(v.content, w.content)
      PROVE  /\ w.content = [f \in Fields |-> IF f \in DOMAIN d THEN d[f].after ELSE v.content[f]]
             /\ v.content = [f \in Fields |-> IF f \in DOMAIN d THEN d[f].before ELSE w.content[f]]
             /\ HasChanges(v.content, w.content) <=> v.content # w.content
    BY DEF DiffExplains
  <2>1. v.content \in [Fields -> Values] /\ w.content \in [Fields -> Values]
    BY ContentsAssumption DEF TypeOK, Row
  <2>2. DOMAIN d = {f \in Fields : v.content[f] # w.content[f]}
    BY DEF Diff, Changed, Compared, Fields
  <2>3. \A f \in DOMAIN d : d[f].before = v.content[f] /\ d[f].after = w.content[f]
    BY DEF Diff
  <2>4. w.content = [f \in Fields |-> IF f \in DOMAIN d THEN d[f].after ELSE v.content[f]]
    BY <2>1, <2>2, <2>3
  <2>5. v.content = [f \in Fields |-> IF f \in DOMAIN d THEN d[f].before ELSE w.content[f]]
    BY <2>1, <2>2, <2>3
  <2>6. HasChanges(v.content, w.content) <=> v.content # w.content
    BY <2>1 DEF HasChanges, Changed, Compared, Fields
  <2> QED
    BY <2>4, <2>5, <2>6
<1> QED
  BY <1>1, MemoryTypeCorrect, PTL

-----------------------------------------------------------------------------
\* Each number up to the last has exactly one version, with a content.
LEMMA OneVersionPerNo ==
  ASSUME Inv, NEW p \in PolicyIds, NEW n \in 1..MaxNo(Nos(p))
  PROVE  \E v \in VersionsOf(p) :
           /\ v.no = n /\ v.content \in Contents
           /\ \A w \in VersionsOf(p) : w.no = n => w = v
           /\ ContentOf(p, n) = v.content
<1>1. n \in Nos(p)
  BY LogCounts
<1>2. PICK v \in VersionsOf(p) : v.no = n
  BY <1>1 DEF Nos
<1>3. \A w \in VersionsOf(p) : w.no = n => w = v
  BY <1>2 DEF Inv, AuditTellsHistory
<1>4. (CHOOSE w \in VersionsOf(p) : w.no = n) = v
  BY <1>2, <1>3
<1>5. v.content \in Contents
  BY DEF VersionsOf, Inv, TypeOK, Row
<1> QED
  BY <1>2, <1>3, <1>4, <1>5 DEF ContentOf

\* A write appends its content to the history of its policy.
LEMMA WriteAppends ==
  ASSUME Inv, NEW q \in PolicyIds, NEW c \in Contents, NEW k \in Nat,
         NEW a \in AuditActions, Put(q, c, k, a)
  PROVE  /\ HistoryOf(q)' = Append(HistoryOf(q), c)
         /\ \A p \in PolicyIds \ {q} : HistoryOf(p)' = HistoryOf(p)
<1>1. PICK n \in Nat : n = Len(audited[q]) + 1
  BY LogCounts
<1>2. PICK row : row = [policy |-> q, no |-> n, content |-> c, from |-> k]
  OBVIOUS
<1>3. /\ n \in Nat /\ n \notin Nos(q) /\ MaxNo(Nos(q)') = n
      /\ VersionsOf(q)' = VersionsOf(q) \cup {row}
      /\ \A p \in PolicyIds \ {q} : VersionsOf(p)' = VersionsOf(p) /\ Nos(p)' = Nos(p)
  BY <1>1, <1>2, PutExtends
<1>4. MaxNo(Nos(q)) = n - 1 /\ row.no = n /\ row.content = c
  BY <1>1, <1>2, <1>3, LogCounts
<1>5. ASSUME NEW i \in 1..(n - 1)
      PROVE  ContentOf(q, i)' = ContentOf(q, i) /\ ContentOf(q, i) \in Contents
  <2>1. PICK v \in VersionsOf(q) :
          /\ v.no = i /\ v.content \in Contents
          /\ \A w \in VersionsOf(q) : w.no = i => w = v
          /\ ContentOf(q, i) = v.content
    BY <1>4, OneVersionPerNo
  <2>2. (CHOOSE w \in VersionsOf(q)' : w.no = i) = v
    BY <1>3, <1>4, <2>1
  <2> QED
    BY <2>1, <2>2 DEF ContentOf
<1>6. ContentOf(q, n)' = c
  <2>1. \A w \in VersionsOf(q) : w.no # n
    BY <1>3 DEF Nos
  <2>2. (CHOOSE w \in VersionsOf(q)' : w.no = n) = row
    BY <1>3, <1>4, <2>1
  <2> QED
    BY <1>4, <2>2 DEF ContentOf
<1>7. HistoryOf(q)' = Append(HistoryOf(q), c)
  <2> DEFINE h == HistoryOf(q)
             g == [i \in 1..n |-> ContentOf(q, i)']
  <2>1. n - 1 \in Nat /\ DOMAIN h = 1..(n - 1)
    BY <1>1, <1>4, LogCounts DEF HistoryOf
  <2>2. \A i \in 1..(n - 1) : h[i] = ContentOf(q, i) /\ h[i] \in Contents
    BY <1>4, <1>5 DEF HistoryOf
  <2>3. h \in [1..(n - 1) -> Contents]
    BY <1>4, <1>5 DEF HistoryOf
  <2>4. h \in Seq(Contents) /\ Len(h) = n - 1
    BY <2>1, <2>3
  <2>5. \A i \in 1..n : g[i] \in Contents /\ g[i] = IF i = n THEN c ELSE h[i]
    BY <1>5, <1>6, <2>1, <2>2
  <2>6. g \in Seq(Contents) /\ Len(g) = n
    BY <2>5
  <2>7. HistoryOf(q)' = g
    BY <1>3 DEF HistoryOf
  <2> HIDE DEF h, g
  <2>8. /\ Append(h, c) \in Seq(Contents) /\ Len(Append(h, c)) = Len(h) + 1
        /\ \A i \in 1..Len(h) : Append(h, c)[i] = h[i]
        /\ Append(h, c)[Len(h) + 1] = c
    BY <2>4, AppendProperties
  <2>9. Len(g) = Len(Append(h, c)) /\ \A i \in 1..Len(g) : g[i] = Append(h, c)[i]
    BY <2>1, <2>4, <2>5, <2>6, <2>8
  <2>10. g = Append(h, c)
    BY <2>6, <2>8, <2>9, SeqEqual
  <2> QED
    BY <2>7, <2>10 DEF h
<1>8. ASSUME NEW p \in PolicyIds \ {q} PROVE HistoryOf(p)' = HistoryOf(p)
  <2>1. VersionsOf(p)' = VersionsOf(p) /\ Nos(p)' = Nos(p)
    BY <1>3
  <2> QED
    BY <2>1 DEF HistoryOf, ContentOf
<1> QED
  BY <1>7, <1>8

\* The store of a process without a database implements the registry, too: to
\* its readers each write changes the content and the history of one policy.
THEOREM MemoryImplementsRegistry == Spec => RegistrySpec
<1> DEFINE hist == [p \in PolicyIds |-> HistoryOf(p)]
<1>1. Init => Registry!Init
  <2> SUFFICES ASSUME Init PROVE hist = [p \in PolicyIds |-> <<>>]
    BY DEF Registry!Init, Init
  <2>1. ASSUME NEW p \in PolicyIds PROVE HistoryOf(p) = <<>>
    <3>1. Nos(p) = {}
      BY DEF Init, Nos, VersionsOf
    <3>2. MaxNo(Nos(p)) = 0
      BY <3>1 DEF MaxNo
    <3>3. 1..0 = {}
      OBVIOUS
    <3> QED
      BY <3>2, <3>3 DEF HistoryOf
  <2> QED
    BY <2>1
<1>2. Inv /\ [Next]_vars => [Registry!Next]_(Registry!registryVars)
  <2> SUFFICES ASSUME Inv, [Next]_vars
               PROVE  Registry!Next \/ UNCHANGED Registry!registryVars
    OBVIOUS
  <2>1. CASE UNCHANGED memory
    <3>1. \A p \in PolicyIds : HistoryOf(p)' = HistoryOf(p)
      BY <2>1 DEF memory, HistoryOf, ContentOf, VersionsOf, Nos
    <3> QED
      BY <2>1, <3>1 DEF memory, Registry!registryVars
  <2>2. CASE SomeoneWrote
    <3>1. PICK q \in PolicyIds, c \in Contents, k \in Nat, a \in AuditActions : Put(q, c, k, a)
      BY <2>2 DEF SomeoneWrote, Wrote
    <3>2. /\ HistoryOf(q)' = Append(HistoryOf(q), c)
          /\ \A p \in PolicyIds \ {q} : HistoryOf(p)' = HistoryOf(p)
      BY <3>1, WriteAppends
    <3>3. policies' = [policies EXCEPT ![q] = c]
      BY <3>1 DEF Put, Listed
    <3>4. hist' = [hist EXCEPT ![q] = Append(@, c)]
      BY <3>2
    <3>5. Registry!Put(q, c)
      BY <3>3, <3>4 DEF Registry!Put
    <3> QED
      BY <3>5 DEF Registry!Next
  <2> QED
    BY <2>1, <2>2, StepWritesOnce DEF Inv
<1> QED
  BY <1>1, <1>2, MemoryInvariance, PTL DEF Spec, RegistrySpec, Registry!Spec
-----------------------------------------------------------------------------
\* A policy of the database that was never written has no content, and any
\* other one has.
WrittenOrNone ==
  /\ dbCurrent \in [PolicyIds -> Contents \cup {None}]
  /\ dbHistory \in [PolicyIds -> Seq(Contents)]
  /\ \A p \in PolicyIds : dbCurrent[p] = None => dbHistory[p] = <<>>

Parity == Inv /\ WrittenOrNone /\ OthersAgree

\* The same content is written in both stores.
BothWrote(q, c) ==
  /\ \E k \in Nat, a \in AuditActions : Wrote(q, c, k, a)
  /\ Database!Put(q, c)

LEMMA InitParity == Init2 => Parity
<1> SUFFICES ASSUME Init2 PROVE Parity
  OBVIOUS
<1>1. Inv
  BY InitInv DEF Init2
<1>2. /\ dbCurrent = [p \in PolicyIds |-> None]
      /\ dbHistory = [p \in PolicyIds |-> <<>>]
  BY DEF Init2, Database!Init
<1>3. <<>> \in Seq(Contents)
  OBVIOUS
<1>4. WrittenOrNone
  BY <1>2, <1>3 DEF WrittenOrNone
<1>5. ASSUME NEW p \in PolicyIds \ {DefaultId}
      PROVE  policies[p] = dbCurrent[p] /\ HistoryOf(p) = dbHistory[p]
  <2>1. Nos(p) = {}
    BY DEF Init2, Init, Nos, VersionsOf
  <2>2. MaxNo(Nos(p)) = 0 /\ 1..0 = {}
    BY <2>1 DEF MaxNo
  <2>3. HistoryOf(p) = <<>>
    BY <2>2 DEF HistoryOf
  <2> QED BY <1>2, <2>3 DEF Init2, Init, Preset
<1> QED BY <1>1, <1>4, <1>5 DEF Parity, OthersAgree

\* What the database does with a write.
LEMMA DatabasePut ==
  ASSUME WrittenOrNone, NEW q \in PolicyIds, NEW c \in Contents, Database!Put(q, c)
  PROVE  /\ WrittenOrNone'
         /\ dbCurrent'[q] = c /\ dbHistory'[q] = Append(dbHistory[q], c)
         /\ \A p \in PolicyIds \ {q} : dbCurrent'[p] = dbCurrent[p] /\ dbHistory'[p] = dbHistory[p]
<1>1. /\ dbCurrent' = [dbCurrent EXCEPT ![q] = c]
      /\ dbHistory' = [dbHistory EXCEPT ![q] = Append(@, c)]
  BY DEF Database!Put
<1>2. Append(dbHistory[q], c) \in Seq(Contents)
  BY DEF WrittenOrNone
<1>3. WrittenOrNone'
  BY <1>1, <1>2, NoneAssumption DEF WrittenOrNone
<1> QED BY <1>1, <1>3 DEF WrittenOrNone

\* What both stores do with a write.
LEMMA BothAppend ==
  ASSUME Inv, WrittenOrNone, NEW q \in PolicyIds, NEW c \in Contents, BothWrote(q, c)
  PROVE  /\ policies'[q] = c /\ dbCurrent'[q] = c
         /\ HistoryOf(q)' = Append(HistoryOf(q), c)
         /\ dbHistory'[q] = Append(dbHistory[q], c)
         /\ \A p \in PolicyIds \ {q} :
              /\ policies'[p] = policies[p] /\ dbCurrent'[p] = dbCurrent[p]
              /\ HistoryOf(p)' = HistoryOf(p) /\ dbHistory'[p] = dbHistory[p]
         /\ SomeoneWrote /\ WrittenOrNone'
<1>1. PICK k \in Nat, a \in AuditActions : Wrote(q, c, k, a)
  BY DEF BothWrote
<1>2. /\ HistoryOf(q)' = Append(HistoryOf(q), c)
      /\ \A p \in PolicyIds \ {q} : HistoryOf(p)' = HistoryOf(p)
  BY <1>1, WriteAppends DEF Wrote
<1>3. policies'[q] = c /\ \A p \in PolicyIds \ {q} : policies'[p] = policies[p]
  BY <1>1 DEF Wrote, Put, Listed, Inv, TypeOK
<1>4. /\ WrittenOrNone'
      /\ dbCurrent'[q] = c /\ dbHistory'[q] = Append(dbHistory[q], c)
      /\ \A p \in PolicyIds \ {q} : dbCurrent'[p] = dbCurrent[p] /\ dbHistory'[p] = dbHistory[p]
  BY DatabasePut DEF BothWrote
<1>5. SomeoneWrote
  BY <1>1 DEF SomeoneWrote
<1> QED BY <1>2, <1>3, <1>4, <1>5

\* A version that memory restores is the one that its history has at that
\* number.
LEMMA RestoresFromHistory ==
  ASSUME Inv, NEW p \in PolicyIds, NEW n \in 1..MaxNumber
  PROVE  /\ Target(p, n) # {} <=> n \in DOMAIN HistoryOf(p)
         /\ \A v \in Target(p, n) : v.content = HistoryOf(p)[n] /\ v.content \in Contents
<1>1. DOMAIN HistoryOf(p) = 1..MaxNo(Nos(p)) /\ Nos(p) = 1..MaxNo(Nos(p))
  BY LogCounts DEF HistoryOf
<1>2. Target(p, n) # {} <=> n \in Nos(p)
  BY DEF Target, Nos
<1>3. ASSUME NEW v \in Target(p, n)
      PROVE  v.content = HistoryOf(p)[n] /\ v.content \in Contents
  <2>1. v \in VersionsOf(p) /\ v.no = n /\ n \in 1..MaxNo(Nos(p))
    BY <1>1, <1>2 DEF Target
  <2>2. PICK w \in VersionsOf(p) :
          /\ w.no = n /\ w.content \in Contents
          /\ \A u \in VersionsOf(p) : u.no = n => u = w
          /\ ContentOf(p, n) = w.content
    BY <2>1, OneVersionPerNo
  <2>3. HistoryOf(p)[n] = ContentOf(p, n)
    BY <2>1 DEF HistoryOf
  <2> QED BY <2>1, <2>2, <2>3
<1> QED BY <1>1, <1>2, <1>3

\* A rollback of a policy on which the stores agree restores the same content
\* in both, or nothing in either.
LEMMA RollbackAgrees ==
  ASSUME Inv, WrittenOrNone, NEW p \in PolicyIds, NEW n \in 1..MaxNumber, Rollback(p, n),
         HistoryOf(p) = dbHistory[p]
  PROVE  (\E c \in Contents : BothWrote(p, c)) \/ UNCHANGED <<memory, db>>
<1>1. CASE n \in DOMAIN dbHistory[p]
  <2>1. Target(p, n) # {} /\ Database!Put(p, dbHistory[p][n])
    BY <1>1, RestoresFromHistory DEF Rollback
  <2>2. PICK v \in Target(p, n) : Put(p, v.content, n, "ROLLBACK_POLICY")
    BY <2>1 DEF Rollback, PostRollback
  <2>3. v.content = dbHistory[p][n] /\ v.content \in Contents
    BY RestoresFromHistory
  <2>4. v \in VersionsOf(p) /\ v.no = n /\ n \in Nat /\ n > 0
    BY MaxAssumption DEF Target
  <2>5. Wrote(p, v.content, n, "ROLLBACK_POLICY") /\ "ROLLBACK_POLICY" \in AuditActions
    BY <2>2, <2>4 DEF Wrote, AuditActions
  <2>6. BothWrote(p, v.content)
    BY <2>1, <2>3, <2>4, <2>5 DEF BothWrote
  <2> QED BY <2>3, <2>6
<1>2. CASE n \notin DOMAIN dbHistory[p]
  <2>1. Target(p, n) = {}
    BY <1>2, RestoresFromHistory
  <2>2. UNCHANGED vars /\ UNCHANGED db
    BY <1>2, <2>1 DEF Rollback, PostRollback
  <2> QED BY <2>2 DEF vars
<1> QED BY <1>1, <1>2

\* The same is written in both stores, or nothing in either, or the database
\* is seeded, or the default policy is rolled back.
LEMMA ParityCases ==
  ASSUME Parity, [Next2]_parityVars
  PROVE  \/ \E q \in PolicyIds, c \in Contents : BothWrote(q, c)
         \/ UNCHANGED <<memory, db>>
         \/ /\ NeedsSeed /\ UNCHANGED memory
            /\ Database!Put(DefaultId, DefaultContent)
         \/ \E n \in 1..MaxNumber : Rollback(DefaultId, n)
<1>1. ASSUME NEW p \in PolicyIds, NEW c \in Contents, Post(p, c) PROVE BothWrote(p, c)
  <2>1. Wrote(p, c, 0, "UPSERT_POLICY") /\ "UPSERT_POLICY" \in AuditActions
    BY <1>1 DEF Post, PostPolicy, Wrote, AuditActions
  <2> QED BY <1>1, <2>1 DEF Post, BothWrote
<1>2. ASSUME Item PROVE \E q \in PolicyIds, c \in Contents : BothWrote(q, c)
  <2> DEFINE q == Head(todo).policy
             c == Head(todo).content
  <2>1. todo \in Seq(Items) /\ todo # <<>>
    BY <1>2 DEF Item, BulkItem, Parity, Inv, TypeOK
  <2>2. Head(todo) \in Items
    BY <2>1, HeadTailProperties
  <2>3. q \in PolicyIds /\ c \in Contents
    BY <2>2 DEF Items
  <2>4. Wrote(q, c, 0, "UPSERT_POLICY_BULK") /\ "UPSERT_POLICY_BULK" \in AuditActions
    BY <1>2 DEF Item, BulkItem, Wrote, AuditActions
  <2>5. BothWrote(q, c)
    BY <1>2, <2>4 DEF Item, BothWrote
  <2> QED BY <2>3, <2>5
<1>3. ASSUME NEW p \in PolicyIds, NEW n \in 1..MaxNumber, Rollback(p, n), p # DefaultId
      PROVE  (\E c \in Contents : BothWrote(p, c)) \/ UNCHANGED <<memory, db>>
  BY <1>3, RollbackAgrees DEF Parity, OthersAgree
<1>4. ASSUME NEW b \in BulkLists, Bulk(b) PROVE UNCHANGED <<memory, db>>
  BY <1>4 DEF Bulk, BulkUpsert
<1>5. ASSUME List
      PROVE  \/ UNCHANGED <<memory, db>>
             \/ /\ NeedsSeed /\ UNCHANGED memory
                /\ Database!Put(DefaultId, DefaultContent)
  BY <1>5 DEF List, vars
<1>6. CASE UNCHANGED parityVars
  BY <1>6 DEF parityVars, vars
<1> QED BY <1>1, <1>2, <1>3, <1>4, <1>5, <1>6 DEF Next2

\* To the process without a database each step is one of its own, or none.
LEMMA ParityStepsAreSteps == [Next2]_parityVars => [Next]_vars
BY DEF Next2, Post, Bulk, Item, Rollback, List, parityVars, Next

LEMMA ParityStep == Parity /\ [Next2]_parityVars => Parity'
<1> SUFFICES ASSUME Parity, [Next2]_parityVars PROVE Parity'
  OBVIOUS
<1>1. Inv'
  BY ParityStepsAreSteps, StepWritesOnce, WriteInv, UnchangedInv DEF Parity, Inv
<1>2. ASSUME NEW q \in PolicyIds, NEW c \in Contents, BothWrote(q, c)
      PROVE  WrittenOrNone' /\ OthersAgree'
  <2>1. WrittenOrNone'
    BY <1>2, BothAppend DEF Parity
  <2>2. ASSUME NEW p \in PolicyIds \ {DefaultId}
        PROVE  policies'[p] = dbCurrent'[p] /\ HistoryOf(p)' = dbHistory'[p]
    <3>1. policies[p] = dbCurrent[p] /\ HistoryOf(p) = dbHistory[p]
      BY DEF Parity, OthersAgree
    <3>2. CASE p = q
      BY <1>2, <3>1, <3>2, BothAppend DEF Parity
    <3>3. CASE p # q
      BY <1>2, <3>1, <3>3, BothAppend DEF Parity
    <3> QED BY <3>2, <3>3
  <2> QED BY <2>1, <2>2 DEF OthersAgree
<1>3. ASSUME UNCHANGED memory
      PROVE  \A p \in PolicyIds : policies'[p] = policies[p] /\ HistoryOf(p)' = HistoryOf(p)
  BY <1>3 DEF memory, HistoryOf, ContentOf, VersionsOf, Nos
<1>4. ASSUME UNCHANGED <<memory, db>> PROVE WrittenOrNone' /\ OthersAgree'
  BY <1>3, <1>4 DEF Parity, WrittenOrNone, OthersAgree, db
<1>5. ASSUME UNCHANGED memory, NEW c \in Contents, Database!Put(DefaultId, c)
      PROVE  WrittenOrNone' /\ OthersAgree'
  BY <1>3, <1>5, DatabasePut, DefaultAssumption DEF Parity, OthersAgree
<1>6. ASSUME NEW n \in 1..MaxNumber, Rollback(DefaultId, n)
      PROVE  WrittenOrNone' /\ OthersAgree'
  <2>1. \A p \in PolicyIds \ {DefaultId} :
          policies'[p] = policies[p] /\ HistoryOf(p)' = HistoryOf(p)
    <3>1. CASE UNCHANGED vars
      BY <1>3, <3>1 DEF vars
    <3>2. CASE PostRollback(DefaultId, n)
      <4>1. PICK v \in Target(DefaultId, n) : Put(DefaultId, v.content, n, "ROLLBACK_POLICY")
        BY <3>2 DEF PostRollback
      <4>2. v.content \in Contents /\ n \in Nat /\ "ROLLBACK_POLICY" \in AuditActions
        BY RestoresFromHistory, DefaultAssumption DEF Parity, AuditActions
      <4>3. \A p \in PolicyIds \ {DefaultId} : HistoryOf(p)' = HistoryOf(p)
        BY <4>1, <4>2, WriteAppends, DefaultAssumption DEF Parity
      <4> QED BY <4>1, <4>3 DEF Put, Listed, Parity, Inv, TypeOK
    <3> QED BY <1>6, <3>1, <3>2 DEF Rollback
  <2>2. CASE UNCHANGED db
    BY <2>1, <2>2 DEF db, Parity, WrittenOrNone, OthersAgree
  <2>3. CASE n \in DOMAIN dbHistory[DefaultId] /\ Database!Put(DefaultId, dbHistory[DefaultId][n])
    <3>1. dbHistory[DefaultId][n] \in Contents
      BY <2>3, DefaultAssumption DEF Parity, WrittenOrNone
    <3>2. /\ WrittenOrNone'
          /\ \A p \in PolicyIds \ {DefaultId} :
               dbCurrent'[p] = dbCurrent[p] /\ dbHistory'[p] = dbHistory[p]
      BY <2>3, <3>1, DatabasePut, DefaultAssumption DEF Parity
    <3> QED BY <2>1, <3>2 DEF Parity, OthersAgree
  <2> QED BY <1>6, <2>2, <2>3 DEF Rollback
<1>7. WrittenOrNone' /\ OthersAgree'
  BY <1>2, <1>4, <1>5, <1>6, ParityCases, DefaultAssumption
<1> QED BY <1>1, <1>7 DEF Parity

\* The invariant of the two stores side by side.
THEOREM ParityInvariance == ParitySpec => []Parity
BY InitParity, ParityStep, PTL DEF ParitySpec

\* Of the default policy, the database has the seed more, or nothing.
LEMMA SeedStays ==
  ASSUME Parity, UpToSeed, [Next2]_parityVars,
         \A n \in 1..MaxNumber : ~Rollback(DefaultId, n)
  PROVE  UpToSeed'
<1> DEFINE d == DefaultId
           h == HistoryOf(d)
           t == dbHistory[d]
<1>1. /\ t \in {h, <<DefaultContent>> \o h} /\ t \in Seq(Contents)
      /\ h # <<>> => policies[d] = dbCurrent[d]
  BY DefaultAssumption DEF UpToSeed, Parity, WrittenOrNone
<1>2. h \in Seq(Contents)
  <2>1. \A n \in 1..MaxNo(Nos(d)) : ContentOf(d, n) \in Contents
    BY OneVersionPerNo, DefaultAssumption DEF Parity
  <2>2. MaxNo(Nos(d)) \in Nat
    BY LogCounts, DefaultAssumption DEF Parity
  <2> QED BY <2>1, <2>2 DEF HistoryOf
<1>3. ASSUME UNCHANGED <<memory, db>> PROVE UpToSeed'
  <2>1. h' = h
    BY <1>3 DEF memory, HistoryOf, ContentOf, VersionsOf, Nos
  <2>2. t' = t /\ policies'[d] = policies[d] /\ dbCurrent'[d] = dbCurrent[d]
    BY <1>3 DEF memory, db
  <2> QED BY <1>1, <2>1, <2>2 DEF UpToSeed
<1>4. ASSUME NEW q \in PolicyIds, NEW c \in Contents, BothWrote(q, c) PROVE UpToSeed'
  <2>1. CASE q = d
    <3>1. /\ policies'[d] = dbCurrent'[d]
          /\ h' = Append(h, c) /\ t' = Append(t, c)
      BY <1>4, <2>1, BothAppend DEF Parity
    <3> HIDE DEF h, t
    <3>2. Append(<<DefaultContent>> \o h, c) = <<DefaultContent>> \o Append(h, c)
      BY <1>2, DefaultAssumption
    <3>3. t' \in {h', <<DefaultContent>> \o h'}
      BY <1>1, <3>1, <3>2
    <3> QED BY <3>1, <3>3 DEF UpToSeed, h, t
  <2>2. CASE q # d
    <3>1. /\ policies'[d] = policies[d] /\ dbCurrent'[d] = dbCurrent[d]
          /\ h' = h /\ t' = t
      BY <1>4, <2>2, BothAppend, DefaultAssumption DEF Parity
    <3> QED BY <1>1, <3>1 DEF UpToSeed
  <2> QED BY <2>1, <2>2
<1>5. ASSUME NeedsSeed, UNCHANGED memory, Database!Put(d, DefaultContent) PROVE UpToSeed'
  <2>1. t = <<>>
    BY <1>5, DefaultAssumption DEF NeedsSeed, Parity, WrittenOrNone
  <2>2. t' = Append(t, DefaultContent)
    BY <1>5, DatabasePut, DefaultAssumption DEF Parity
  <2>3. h' = h
    BY <1>5 DEF memory, HistoryOf, ContentOf, VersionsOf, Nos
  <2> HIDE DEF h, t
  <2>4. h = <<>>
    <3>1. Len(<<DefaultContent>> \o h) = 1 + Len(h) /\ Len(h) \in Nat /\ Len(<<>>) = 0
      BY <1>2, DefaultAssumption
    <3> QED BY <1>1, <2>1, <3>1
  <2>5. t' = <<DefaultContent>> \o h'
    BY <2>1, <2>2, <2>3, <2>4, DefaultAssumption
  <2> QED BY <2>3, <2>4, <2>5 DEF UpToSeed, h, t
<1> QED BY <1>3, <1>4, <1>5, ParityCases

\* The two stores agree, up to the seed: on every other policy always, on the
\* default one until it is rolled back.
THEOREM StoresAlwaysAgree == ParitySpec => StoresAgree
<1>1. Parity => OthersAgree
  BY DEF Parity
<1>2. Parity /\ [Next2]_parityVars =>
        [UpToSeed => UpToSeed' \/ \E n \in 1..MaxNumber : Rollback(DefaultId, n)]_parityVars
  BY SeedStays
<1> QED BY <1>1, <1>2, ParityInvariance, PTL DEF ParitySpec, StoresAgree
=============================================================================
