------------------------ MODULE DashboardCacheProofs ------------------------
(***************************************************************************)
(* Whatever number of readers compute, store and reuse dashboards, every   *)
(* count they are given is what the query of its list shows, up to its     *)
(* LIMIT and its retention, of rows that were there after the reader       *)
(* began, and policies are never missing.  The invariant that carries this *)
(* speaks of the readers in progress (InProgress): a list that is read has *)
(* been read since its reader began, and rows only come and only age, so   *)
(* the rows and the retention it was read at stay among those passed.      *)
(***************************************************************************)
EXTENDS DashboardCache, TLAPS

\* A count of a payload is what its query shows of a moment since its start.
Window(p, x) ==
  \E n \in p.since[x]..rows[x], o \in p.gone[x]..old[x] : p.shown[x] = Shown(x, n, o)

InProgress ==
  \A r \in busy :
    /\ \A x \in Lists : work[r].since[x] <= rows[x] /\ work[r].gone[x] <= old[x]
    /\ \A x \in Lists \ todo[r] : Window(work[r], x)
    /\ Policies \notin todo[r] => work[r].shown[Policies] >= 1

\* Who is about to write the seed has not read the policies yet.
SeedsWait == \A r \in seeds : Policies \in todo[r]

Inv == TypeOK /\ SeedsWait /\ InProgress /\ CountsAreFromTheWindow /\ PoliciesAreSeeded

-----------------------------------------------------------------------------
LEMMA BlankType == Blank \in Payload
BY MaxAssumption DEF Blank, Zero, Payload, Counts

LEMMA InitInv == Init => Inv
<1> SUFFICES ASSUME Init PROVE Inv
  OBVIOUS
<1> USE DEF Init
<1>1. Zero \in Counts /\ \A x \in Lists : Zero[x] <= IF x \in Retained THEN Zero[x] ELSE 0
  BY MaxAssumption DEF Zero, Counts
<1>2. TypeOK
  BY <1>1, BlankType DEF TypeOK
<1>3. Given = {}
  BY DEF Given
<1> QED
  BY <1>2, <1>3 DEF Inv, SeedsWait, InProgress, CountsAreFromTheWindow, PoliciesAreSeeded

\* What a query shows is a count.
LEMMA ShownType ==
  ASSUME TypeOK, NEW x \in Lists
  PROVE  /\ rows[x] \in 0..MaxRows /\ old[x] \in 0..MaxRows
         /\ Shown(x, rows[x], old[x]) \in 0..MaxRows
<1>1. rows[x] \in 0..MaxRows /\ old[x] \in 0..MaxRows /\ old[x] <= rows[x]
  BY DEF TypeOK, Counts
<1> QED BY <1>1, MaxAssumption, LimitAssumption DEF Shown

\* Rows come and age, and are never more than there may be.
LEMMA RowsStep ==
  ASSUME TypeOK, [Next]_vars
  PROVE  /\ rows' \in Counts /\ old' \in Counts
         /\ \A x \in Lists : /\ rows[x] \in Nat /\ rows'[x] \in Nat /\ rows[x] <= rows'[x]
                             /\ old[x] \in Nat /\ old'[x] \in Nat /\ old[x] <= old'[x]
                             /\ old'[x] <= IF x \in Retained THEN rows'[x] ELSE 0
<1> DEFINE Grown == /\ rows' \in Counts /\ old' \in Counts
                    /\ \A x \in Lists :
                         /\ rows[x] \in Nat /\ rows'[x] \in Nat /\ rows[x] <= rows'[x]
                         /\ old[x] \in Nat /\ old'[x] \in Nat /\ old[x] <= old'[x]
                         /\ old'[x] <= IF x \in Retained THEN rows'[x] ELSE 0
<1>1. \A x \in Lists : /\ rows[x] \in 0..MaxRows /\ old[x] \in 0..MaxRows
                       /\ old[x] <= IF x \in Retained THEN rows[x] ELSE 0
  BY DEF TypeOK, Counts
<1>2. rows \in [Lists -> 0..MaxRows] /\ old \in [Lists -> 0..MaxRows]
  BY DEF TypeOK, Counts
<1>3. ASSUME NEW y \in Lists, Write(y) PROVE Grown
  BY <1>1, <1>2, <1>3, MaxAssumption DEF Write, Counts
<1>4. ASSUME NEW y \in Lists, Age(y) PROVE Grown
  BY <1>1, <1>2, <1>4, MaxAssumption DEF Age, Counts
<1>5. ASSUME NEW r \in Readers, WriteSeed(r) PROVE Grown
  BY <1>1, <1>2, <1>5, MaxAssumption, ListsAssumption DEF WriteSeed, Counts
<1>6. CASE UNCHANGED stored
  BY <1>1, <1>2, <1>6, MaxAssumption DEF Counts, stored
<1> QED
  BY <1>3, <1>4, <1>5, <1>6
  DEF Next, Progress, Hit, Miss, ReadList, FindNoPolicies, SetCache, Fail, Expire, vars

LEMMA TypeStep == TypeOK /\ SeedsWait /\ [Next]_vars => TypeOK'
<1> SUFFICES ASSUME TypeOK, SeedsWait, [Next]_vars PROVE TypeOK'
  OBVIOUS
<1> DEFINE ReadersOK ==
      /\ cache' \in Payload \cup {None} /\ answer' \in Payload \cup {None}
      /\ busy' \subseteq Readers /\ seeds' \subseteq busy'
      /\ todo' \in [Readers -> SUBSET Lists]
      /\ work' \in [Readers -> Payload]
<1>1. ASSUME UNCHANGED <<cache, reading, seeds, answer>> PROVE ReadersOK
  BY <1>1 DEF TypeOK, reading
<1>2. ASSUME NEW r \in Readers, Hit(r) PROVE ReadersOK
  BY <1>2 DEF Hit, reading, TypeOK
<1>3. ASSUME NEW r \in Readers, Miss(r) PROVE ReadersOK
  <2>1. [Blank EXCEPT !.since = rows, !.gone = old] \in Payload
    BY BlankType DEF Payload, TypeOK
  <2> QED BY <1>3, <2>1 DEF Miss, TypeOK
<1>4. ASSUME NEW r \in Readers, ReadList(r) PROVE ReadersOK
  <2>1. PICK x \in todo[r] :
          /\ work' = [work EXCEPT ![r].shown[x] = Shown(x, rows[x], old[x])]
          /\ todo' = [todo EXCEPT ![r] = @ \ {x}]
    BY <1>4 DEF ReadList
  <2>2. x \in Lists
    BY DEF TypeOK
  <2>3. Shown(x, rows[x], old[x]) \in 0..MaxRows
    BY <2>2, ShownType
  <2>4. work' \in [Readers -> Payload] /\ todo' \in [Readers -> SUBSET Lists]
    BY <2>1, <2>3 DEF TypeOK, Payload, Counts
  <2> QED BY <1>4, <2>4 DEF ReadList, TypeOK
<1>5. ASSUME NEW r \in Readers, FindNoPolicies(r) PROVE ReadersOK
  BY <1>5 DEF FindNoPolicies, reading, TypeOK
<1>6. ASSUME NEW r \in Readers, WriteSeed(r) PROVE ReadersOK
  BY <1>6 DEF WriteSeed, reading, TypeOK
<1>7. ASSUME NEW r \in Readers, SetCache(r) PROVE ReadersOK
  <2>1. r \notin seeds
    BY <1>7 DEF SetCache, Ready, SeedsWait
  <2>2. work[r] \in Payload /\ work' \in [Readers -> Payload]
    BY <1>7, BlankType DEF SetCache, TypeOK
  <2> QED BY <1>7, <2>1, <2>2 DEF SetCache, TypeOK
<1>8. ASSUME NEW r \in Readers, Fail(r) PROVE ReadersOK
  BY <1>8, BlankType DEF Fail, TypeOK
<1>9. ASSUME Expire PROVE ReadersOK
  BY <1>9 DEF Expire, reading, TypeOK
<1>10. ReadersOK
  BY <1>1, <1>2, <1>3, <1>4, <1>5, <1>6, <1>7, <1>8, <1>9
  DEF Next, Progress, Write, Age, vars
<1> QED
  BY <1>10, RowsStep DEF TypeOK

\* A payload within its window stays within it.
LEMMA WindowStays ==
  ASSUME TypeOK, [Next]_vars, NEW x \in Lists, NEW p \in Payload, Window(p, x)
  PROVE  Window(p, x)'
<1>1. PICK n \in p.since[x]..rows[x], o \in p.gone[x]..old[x] : p.shown[x] = Shown(x, n, o)
  BY DEF Window
<1>2. p.since[x] \in Nat /\ p.gone[x] \in Nat
  BY MaxAssumption DEF Payload, Counts
<1>3. n \in p.since[x]..rows'[x] /\ o \in p.gone[x]..old'[x]
  BY <1>1, <1>2, RowsStep
<1> QED
  BY <1>1, <1>3 DEF Window

\* What a step newly hands out is the finished work of a reader, or the cache.
LEMMA GivenStep ==
  ASSUME TypeOK, [Next]_vars
  PROVE  \A p \in Given' : p \in Given \/ \E r \in Readers : Ready(r) /\ p = work[r]
<1> SUFFICES ASSUME NEW p \in Given', p \notin Given
             PROVE  \E r \in Readers : Ready(r) /\ p = work[r]
  OBVIOUS
<1> USE DEF Given, TypeOK
<1>1. ASSUME NEW r \in Readers, Hit(r) PROVE FALSE
  BY <1>1 DEF Hit
<1>2. ASSUME NEW r \in Readers, SetCache(r) PROVE Ready(r) /\ p = work[r]
  BY <1>2 DEF SetCache
<1>3. CASE Expire
  BY <1>3 DEF Expire
<1>4. CASE UNCHANGED <<cache, answer>>
  BY <1>4
<1> QED
  BY <1>1, <1>2, <1>3, <1>4
  DEF Next, Progress, Write, Age, Miss, ReadList, FindNoPolicies, WriteSeed, Fail, vars

\* Payloads are never taken for None, nor None for a payload.
LEMMA GivenType == TypeOK => Given \subseteq Payload
BY DEF Given, TypeOK

LEMMA SeedsStep == TypeOK /\ SeedsWait /\ [Next]_vars => SeedsWait'
<1> SUFFICES ASSUME TypeOK, SeedsWait, [Next]_vars, NEW r \in seeds'
             PROVE  Policies \in todo'[r]
  BY DEF SeedsWait
<1> USE DEF TypeOK, SeedsWait
<1>1. ASSUME NEW q \in Readers, ReadList(q) PROVE Policies \in todo'[r]
  BY <1>1 DEF ReadList
<1>2. ASSUME NEW q \in Readers, FindNoPolicies(q) PROVE Policies \in todo'[r]
  BY <1>2 DEF FindNoPolicies, NeedsSeed, reading
<1>3. ASSUME NEW q \in Readers, Miss(q) PROVE Policies \in todo'[r]
  BY <1>3, ListsAssumption DEF Miss
<1>4. CASE seeds' \subseteq seeds /\ todo' = todo
  BY <1>4
<1>5. ASSUME NEW q \in Readers, Fail(q) PROVE Policies \in todo'[r]
  BY <1>5 DEF Fail
<1> QED
  BY <1>1, <1>2, <1>3, <1>4, <1>5
  DEF Next, Progress, Write, Age, Hit, WriteSeed, SetCache, Expire, vars, reading

\* Each step keeps what is known of the readers in progress.
LEMMA ProgressStep == Inv /\ [Next]_vars => InProgress'
<1> DEFINE Good(r) ==
      /\ \A x \in Lists : work[r].since[x] <= rows[x] /\ work[r].gone[x] <= old[x]
      /\ \A x \in Lists \ todo[r] : Window(work[r], x)
      /\ Policies \notin todo[r] => work[r].shown[Policies] >= 1
<1> SUFFICES ASSUME Inv, [Next]_vars, NEW r \in busy' PROVE Good(r)'
  BY DEF InProgress
<1>1. TypeOK /\ TypeOK'
  BY TypeStep DEF Inv
<1>2. r \in Readers /\ work[r] \in Payload
  BY <1>1 DEF TypeOK
<1>3. \A x \in Lists : /\ rows[x] \in Nat /\ rows'[x] \in Nat /\ rows[x] <= rows'[x]
                       /\ old[x] \in Nat /\ old'[x] \in Nat /\ old[x] <= old'[x]
  BY <1>1, RowsStep
<1>4. \A x \in Lists : work[r].since[x] \in Nat /\ work[r].gone[x] \in Nat
  BY <1>2, MaxAssumption DEF Payload, Counts
<1>5. CASE r \in busy /\ work'[r] = work[r] /\ todo'[r] = todo[r]
  <2>1. Good(r)
    BY <1>5 DEF Inv, InProgress
  <2>2. \A x \in Lists : work'[r].since[x] <= rows'[x] /\ work'[r].gone[x] <= old'[x]
    BY <1>3, <1>4, <1>5, <2>1
  <2>3. \A x \in Lists \ todo[r] : Window(work[r], x)'
    <3> SUFFICES ASSUME NEW x \in Lists \ todo[r] PROVE Window(work[r], x)'
      OBVIOUS
    <3>1. PICK p \in Payload : p = work[r]
      BY <1>2
    <3>2. Window(p, x)
      BY <2>1, <3>1 DEF Window
    <3>3. Window(p, x)'
      BY <1>1, <3>2, WindowStays
    <3> QED BY <1>5, <3>1, <3>3 DEF Window
  <2> QED BY <1>5, <2>1, <2>2, <2>3
<1>6. ASSUME NEW q \in Readers, Miss(q), q = r PROVE Good(r)'
  <2>1. work'[r] = [Blank EXCEPT !.since = rows, !.gone = old] /\ todo'[r] = Lists
    BY <1>1, <1>6 DEF Miss, TypeOK
  <2>2. work'[r].since = rows /\ work'[r].gone = old /\ UNCHANGED stored
    BY <1>6, <2>1 DEF Miss, Blank
  <2> QED BY <1>3, <2>1, <2>2, ListsAssumption DEF stored
<1>7. ASSUME NEW q \in Readers, ReadList(q), q = r PROVE Good(r)'
  <2>1. PICK y \in todo[r] :
          /\ ~NeedsSeed(y)
          /\ work' = [work EXCEPT ![r].shown[y] = Shown(y, rows[y], old[y])]
          /\ todo' = [todo EXCEPT ![r] = @ \ {y}]
          /\ rows' = rows /\ old' = old /\ r \in busy
    BY <1>7 DEF ReadList, stored
  <2>2. y \in Lists /\ todo'[r] = todo[r] \ {y}
    BY <1>1, <1>2, <2>1 DEF TypeOK
  <2>3. /\ work'[r].since = work[r].since /\ work'[r].gone = work[r].gone
        /\ work'[r].shown[y] = Shown(y, rows[y], old[y])
        /\ \A x \in Lists \ {y} : work'[r].shown[x] = work[r].shown[x]
    BY <1>1, <1>2, <2>1, <2>2 DEF TypeOK, Payload, Counts
  <2>4. y = Policies => Shown(y, rows[y], old[y]) >= 1
    <3>1. old[Policies] = 0 /\ rows[Policies] \in Nat
      BY <1>1, <1>3, ListsAssumption DEF TypeOK
    <3> QED BY <2>1, <3>1, ListsAssumption DEF NeedsSeed, Shown
  <2>5. Good(r)
    BY <2>1 DEF Inv, InProgress
  <2>6. \A x \in Lists : work'[r].since[x] <= rows'[x] /\ work'[r].gone[x] <= old'[x]
    BY <2>1, <2>3, <2>5
  <2>7. Window(work[r], y)'
    <3>1. rows[y] \in work[r].since[y]..rows[y] /\ old[y] \in work[r].gone[y]..old[y]
      BY <1>3, <1>4, <2>2, <2>5
    <3> QED BY <2>1, <2>3, <3>1 DEF Window, Shown
  <2>8. \A x \in Lists \ todo[r] : Window(work[r], x)'
    BY <2>1, <2>2, <2>3, <2>5 DEF Window, Shown
  <2>9. \A x \in Lists \ todo'[r] : Window(work[r], x)'
    BY <2>2, <2>7, <2>8
  <2>10. Policies \notin todo'[r] => work'[r].shown[Policies] >= 1
    BY <2>2, <2>3, <2>4, <2>5, ListsAssumption
  <2> QED BY <2>6, <2>9, <2>10
<1>8. ASSUME NEW q \in Readers, Miss(q) \/ ReadList(q), q # r
      PROVE  r \in busy /\ work'[r] = work[r] /\ todo'[r] = todo[r]
  BY <1>1, <1>2, <1>8 DEF Miss, ReadList, TypeOK
<1>9. ASSUME NEW q \in Readers, SetCache(q) \/ Fail(q)
      PROVE  r \in busy /\ work'[r] = work[r] /\ todo'[r] = todo[r]
  BY <1>1, <1>2, <1>9 DEF SetCache, Fail, TypeOK
<1>10. CASE busy' \subseteq busy /\ work' = work /\ todo' = todo
  BY <1>5, <1>10
<1>11. ASSUME NEW q \in Readers, Miss(q) \/ ReadList(q) PROVE Good(r)'
  <2>1. CASE q = r
    BY <1>6, <1>7, <1>11, <2>1
  <2>2. CASE q # r
    BY <1>5, <1>8, <1>11, <2>2
  <2> QED BY <2>1, <2>2
<1>12. ASSUME NEW q \in Readers, SetCache(q) \/ Fail(q) PROVE Good(r)'
  BY <1>5, <1>9, <1>12
<1> HIDE DEF Good
<1> QED
  BY <1>10, <1>11, <1>12
  DEF Next, Progress, Write, Age, Hit, FindNoPolicies, WriteSeed, Expire, vars, reading

\* Each step keeps the invariant.
LEMMA NextInv == Inv /\ [Next]_vars => Inv'
<1> SUFFICES ASSUME Inv, [Next]_vars PROVE Inv'
  OBVIOUS
<1>1. TypeOK /\ TypeOK' /\ SeedsWait' /\ InProgress'
  BY TypeStep, SeedsStep, ProgressStep DEF Inv
<1>2. \A p \in Given' : /\ p \in Payload
                        /\ \A x \in Lists : Window(p, x)
                        /\ p.shown[Policies] >= 1
  <2> SUFFICES ASSUME NEW p \in Given'
               PROVE  /\ p \in Payload
                      /\ \A x \in Lists : Window(p, x)
                      /\ p.shown[Policies] >= 1
    OBVIOUS
  <2>1. CASE p \in Given
    BY <1>1, <2>1, GivenType DEF Inv, CountsAreFromTheWindow, PoliciesAreSeeded, Window
  <2>2. ASSUME NEW r \in Readers, Ready(r), p = work[r]
        PROVE  /\ p \in Payload
               /\ \A x \in Lists : Window(p, x)
               /\ p.shown[Policies] >= 1
    BY <1>1, <2>2 DEF Ready, Inv, InProgress, TypeOK
  <2> QED BY <1>1, <2>1, <2>2, GivenStep
<1>3. CountsAreFromTheWindow'
  <2> SUFFICES ASSUME NEW p \in Given', NEW x \in Lists PROVE Window(p, x)'
    BY DEF CountsAreFromTheWindow, Window
  <2>1. p \in Payload /\ Window(p, x)
    BY <1>2
  <2> QED BY <1>1, <2>1, WindowStays
<1>4. PoliciesAreSeeded'
  BY <1>2 DEF PoliciesAreSeeded
<1> QED
  BY <1>1, <1>3, <1>4 DEF Inv

-----------------------------------------------------------------------------
\* The invariant holds in every reachable state.
THEOREM DashboardInvariance == Spec => []Inv
BY InitInv, NextInv, PTL DEF Spec

\* Every variable holds a value of its kind.
THEOREM DashboardTypeCorrect == Spec => []TypeOK
BY DashboardInvariance, PTL DEF Inv

\* Every count that a dashboard shows is what the query of its list, with its
\* LIMIT and its retention, shows of rows that were there after the reader began.
THEOREM DashboardsAreTrue == Spec => []CountsAreFromTheWindow
BY DashboardInvariance, PTL DEF Inv

\* Every dashboard shows the policies of its tenant, the seed at least.
THEOREM DashboardsShowPolicies == Spec => []PoliciesAreSeeded
BY DashboardInvariance, PTL DEF Inv
=============================================================================
