--------------------------- MODULE ListingProofs ---------------------------
(***************************************************************************)
(* What the operators of Listing return, for sequences of any length, and  *)
(* the two forms of induction that these facts rest on.                    *)
(***************************************************************************)
EXTENDS Listing, FiniteSetTheorems, SequenceTheorems, TLAPS

-----------------------------------------------------------------------------
\* A member of a family of sets, by induction over the finite sets below it.
LEMMA FiniteSetInduction ==
  ASSUME NEW D, IsFiniteSet(D), NEW Good,
         \A T \in SUBSET D : (\A U \in SUBSET T : U # T => U \in Good) => T \in Good
  PROVE  D \in Good
<1> SUFFICES ASSUME D \notin Good PROVE FALSE
  OBVIOUS
<1> DEFINE R == StrictSubsetOrdering(D)
           Bad == {T \in SUBSET D : T \notin Good}
<1>1. IsWellFoundedOn(R, FiniteSubsetsOf(D)) /\ FiniteSubsetsOf(D) = SUBSET D
  BY FS_StrictSubsetOrderingWellFounded, FS_FiniteSubsetsOfFinite
<1>2. Bad \subseteq FiniteSubsetsOf(D) /\ Bad # {}
  BY <1>1
<1>3. PICK T \in Bad : \A U \in Bad : <<U, T>> \notin R
  <2> HIDE DEF R, Bad
  <2> QED BY <1>1, <1>2, WFMin
<1>4. \A U \in SUBSET T : U # T => U \in Good
  BY <1>3 DEF StrictSubsetOrdering
<1> QED BY <1>3, <1>4

\* A member of a set of numbers, by counting up to it.
LEMMA CountingUp ==
  ASSUME NEW m \in Nat, NEW Good, 0 \in Good, \A n \in 1..m : n - 1 \in Good => n \in Good
  PROVE  m \in Good
<1> DEFINE D == 1..m
           Fine == {U \in SUBSET (1..m) : \A n \in 0..m : U = 1..n => n \in Good}
<1>1. ASSUME NEW T \in SUBSET (1..m), \A U \in SUBSET T : U # T => U \in Fine
      PROVE  T \in Fine
  <2> SUFFICES ASSUME NEW n \in 1..m, T = 1..n PROVE n \in Good
    OBVIOUS
  <2>1. 1..(n - 1) \subseteq T /\ n \in T /\ n \notin 1..(n - 1) /\ n - 1 \in 0..m
    OBVIOUS
  <2>2. 1..(n - 1) \in Fine
    <3> HIDE DEF Fine
    <3> QED BY <1>1, <2>1
  <2>3. n - 1 \in Good
    BY <2>1, <2>2
  <2> QED BY <2>3
<1>2. IsFiniteSet(1..m)
  BY FS_Interval
<1>3. D \in Fine
  <2>1. IsFiniteSet(D)
    BY <1>2
  <2>2. \A T \in SUBSET D : (\A U \in SUBSET T : U # T => U \in Fine) => T \in Fine
    BY <1>1
  <2> HIDE DEF D, Fine
  <2> QED BY <2>1, <2>2, FiniteSetInduction
<1> QED BY <1>3

-----------------------------------------------------------------------------
\* The recursion that Those is defined by, up to m.
IsSelection(f, m, s, S) ==
  f = [n \in 0..m |-> IF n = 0 THEN <<>>
                      ELSE IF s[n] \in S THEN Append(f[n - 1], s[n]) ELSE f[n - 1]]

LEMMA SelectionExists ==
  ASSUME NEW s, NEW S, NEW m \in Nat
  PROVE  \E f : IsSelection(f, m, s, S)
<1> DEFINE Good == {n \in 0..m : \E f : IsSelection(f, n, s, S)}
<1>1. 0 \in Good
  <2>1. IsSelection([n \in 0..0 |-> <<>>], 0, s, S)
    <3>1. \A n \in 0..0 : n = 0
      OBVIOUS
    <3> QED BY <3>1 DEF IsSelection
  <2> QED BY <2>1
<1>2. ASSUME NEW n \in 1..m, n - 1 \in Good PROVE n \in Good
  <2>1. PICK f : IsSelection(f, n - 1, s, S)
    BY <1>2
  <2> DEFINE g == [k \in 0..n |-> IF k < n THEN f[k]
                     ELSE IF s[n] \in S THEN Append(f[n - 1], s[n]) ELSE f[n - 1]]
  <2>2. \A k \in 0..(n - 1) :
          f[k] = IF k = 0 THEN <<>>
                 ELSE IF s[k] \in S THEN Append(f[k - 1], s[k]) ELSE f[k - 1]
    <3> DEFINE D == 0..(n - 1)
    <3> HIDE DEF D
    <3>1. \A k \in D :
            f[k] = IF k = 0 THEN <<>>
                   ELSE IF s[k] \in S THEN Append(f[k - 1], s[k]) ELSE f[k - 1]
      BY <2>1 DEF IsSelection, D
    <3> QED BY <3>1 DEF D
  <2>3. ASSUME NEW k \in 0..n
        PROVE  g[k] = IF k = 0 THEN <<>>
                      ELSE IF s[k] \in S THEN Append(g[k - 1], s[k]) ELSE g[k - 1]
    <3>1. CASE k = n
      <4>1. g[k] = IF s[n] \in S THEN Append(f[n - 1], s[n]) ELSE f[n - 1]
        BY <3>1
      <4>2. g[n - 1] = f[n - 1] /\ k # 0
        BY <3>1
      <4> QED BY <3>1, <4>1, <4>2
    <3>2. CASE k = 0
      BY <2>2, <3>2
    <3>3. CASE k # n /\ k # 0
      <4>1. k \in 0..(n - 1) /\ k - 1 \in 0..n /\ k < n /\ k - 1 < n
        BY <3>3
      <4>2. g[k] = f[k] /\ g[k - 1] = f[k - 1]
        BY <4>1
      <4> QED BY <2>2, <3>3, <4>1, <4>2
    <3> QED BY <3>1, <3>2, <3>3
  <2>4. IsSelection(g, n, s, S)
    <3>1. g = [k \in 0..n |-> g[k]]
      OBVIOUS
    <3> HIDE DEF g
    <3> QED BY <2>3, <3>1 DEF IsSelection
  <2> QED BY <2>4
<1> HIDE DEF Good
<1>3. m \in Good
  BY <1>1, <1>2, CountingUp
<1> QED BY <1>3 DEF Good

\* A selection has the elements that are selected, in their order.
LEMMA SelectionKeepsOrder ==
  ASSUME NEW A, NEW s \in Seq(A), NEW S
  PROVE  LET t == Those(s, S) IN
         /\ t \in Seq(A) /\ ToSet(t) = ToSet(s) \cap S
         /\ \A n, o \in DOMAIN t : n < o =>
              \E i, j \in DOMAIN s : i < j /\ t[n] = s[i] /\ t[o] = s[j]
<1> DEFINE m == Len(s)
           f == CHOOSE f : IsSelection(f, m, s, S)
           In(n) == {s[i] : i \in 1..n} \cap S
           Ordered(t, k) == \A n, o \in DOMAIN t : n < o =>
              \E i, j \in 1..k : i < j /\ t[n] = s[i] /\ t[o] = s[j]
           Good == {n \in 0..m : f[n] \in Seq(A) /\ ToSet(f[n]) = In(n) /\ Ordered(f[n], n)}
<1>1. m \in Nat /\ DOMAIN s = 1..m
  OBVIOUS
<1>2. IsSelection(f, m, s, S)
  BY <1>1, SelectionExists
<1>3. Those(s, S) = f[m]
  BY DEF Those, IsSelection
<1> HIDE DEF f, m
<1>4. \A n \in 0..m :
        f[n] = IF n = 0 THEN <<>>
               ELSE IF s[n] \in S THEN Append(f[n - 1], s[n]) ELSE f[n - 1]
  BY <1>2 DEF IsSelection
<1>5. 0 \in Good
  <2>1. f[0] = <<>> /\ 0 \in 0..m
    BY <1>1, <1>4
  <2>2. DOMAIN f[0] = {} /\ f[0] \in Seq(A) /\ 1..0 = {}
    BY <2>1
  <2>3. ToSet(f[0]) = {} /\ In(0) = {} /\ Ordered(f[0], 0)
    BY <2>2 DEF ToSet
  <2> QED BY <2>1, <2>2, <2>3
<1>6. ASSUME NEW n \in 1..m, n - 1 \in Good PROVE n \in Good
  <2> DEFINE t == f[n - 1]
             u == f[n]
  <2>1. t \in Seq(A) /\ ToSet(t) = In(n - 1) /\ Ordered(t, n - 1) /\ n \in 0..m
    BY <1>6
  <2>2. u = IF s[n] \in S THEN Append(t, s[n]) ELSE t
    BY <1>4, <2>1
  <2>3. s[n] \in A /\ 1..n = 1..(n - 1) \cup {n}
    BY <1>1
  <2>4. In(n) = In(n - 1) \cup ({s[n]} \cap S)
    BY <2>3
  <2> HIDE DEF t, u
  <2>5. CASE s[n] \notin S
    BY <2>1, <2>2, <2>4, <2>5 DEF t, u
  <2>6. CASE s[n] \in S
    <3>1. /\ u \in Seq(A) /\ Len(u) = Len(t) + 1 /\ Len(t) \in Nat
          /\ \A i \in 1..Len(t) : u[i] = t[i] 
          /\ u[Len(t) + 1] = s[n]
      BY <2>1, <2>2, <2>3, <2>6
    <3>2. ToSet(u) = ToSet(t) \cup {s[n]}
      <4>1. 1..(Len(t) + 1) = 1..Len(t) \cup {Len(t) + 1}
        BY <3>1
      <4> QED BY <2>1, <3>1, <4>1 DEF ToSet
    <3>3. ASSUME NEW a \in DOMAIN u, NEW b \in DOMAIN u, a < b
          PROVE  \E i, j \in 1..n : i < j /\ u[a] = s[i] /\ u[b] = s[j]
      <4>1. a \in 1..Len(t) /\ u[a] = t[a]
        BY <3>1, <3>3
      <4>2. CASE b \in 1..Len(t)
        <5>1. a \in DOMAIN t /\ b \in DOMAIN t /\ u[b] = t[b]
          BY <2>1, <3>1, <4>1, <4>2
        <5>2. PICK i, j \in 1..(n - 1) : i < j /\ t[a] = s[i] /\ t[b] = s[j]
          BY <2>1, <3>3, <5>1
        <5> QED BY <4>1, <5>1, <5>2, <2>3
      <4>3. CASE b = Len(t) + 1
        <5>1. t[a] \in ToSet(t)
          BY <2>1, <4>1 DEF ToSet
        <5>2. PICK i \in 1..(n - 1) : t[a] = s[i]
          BY <2>1, <5>1
        <5>3. i \in 1..n /\ n \in 1..n /\ i < n
          OBVIOUS
        <5> QED BY <3>1, <4>1, <4>3, <5>2, <5>3
      <4> QED BY <3>1, <4>2, <4>3
    <3>4. ToSet(u) = In(n)
      BY <2>1, <2>4, <2>6, <3>2
    <3> QED BY <2>1, <3>1, <3>3, <3>4 DEF u
  <2> QED BY <2>5, <2>6
<1>7. m \in Good
  <2> HIDE DEF Good
  <2> QED BY <1>1, <1>5, <1>6, CountingUp
<1>8. In(m) = ToSet(s) \cap S
  BY <1>1 DEF ToSet
<1>9. f[m] \in Seq(A) /\ ToSet(f[m]) = ToSet(s) \cap S /\ Ordered(f[m], m)
  BY <1>7, <1>8
<1>10. \A n, o \in DOMAIN f[m] : n < o =>
         \E i, j \in DOMAIN s : i < j /\ f[m][n] = s[i] /\ f[m][o] = s[j]
  <2>1. \A n, o \in DOMAIN f[m] : n < o =>
          \E i, j \in 1..m : i < j /\ f[m][n] = s[i] /\ f[m][o] = s[j]
    BY <1>9
  <2>2. DOMAIN s = 1..m
    BY <1>1
  <2> HIDE DEF In, Ordered, Good
  <2> QED BY <2>1, <2>2
<1> HIDE DEF In, Ordered, Good
<1> QED BY <1>3, <1>9, <1>10

-----------------------------------------------------------------------------
\* The position of an element.
LEMMA PositionOf ==
  ASSUME NEW A, NEW s \in Seq(A), NEW c \in ToSet(s)
  PROVE  Position(s, c) \in 1..Len(s) /\ s[Position(s, c)] = c
BY DEF Position, ToSet

LEMMA PositionIs ==
  ASSUME NEW A, NEW s \in Seq(A), IsInjective(s), NEW i \in 1..Len(s)
  PROVE  Position(s, s[i]) = i
<1>1. s[i] \in ToSet(s)
  BY DEF ToSet
<1>2. Position(s, s[i]) \in 1..Len(s) /\ s[Position(s, s[i])] = s[i]
  BY <1>1, PositionOf
<1> QED BY <1>2 DEF IsInjective

\* A sequence without repetition is as long as it has elements.
LEMMA LenIsCardinality ==
  ASSUME NEW A, NEW s \in Seq(A), IsInjective(s)
  PROVE  IsFiniteSet(ToSet(s)) /\ Cardinality(ToSet(s)) = Len(s)
<1>1. s \in Surjection(1..Len(s), ToSet(s)) /\ s \in Injection(1..Len(s), ToSet(s))
  BY DEF Surjection, Injection, ToSet, IsInjective
<1>2. IsFiniteSet(1..Len(s)) /\ Cardinality(1..Len(s)) = Len(s)
  <2>1. Len(s) \in Nat
    OBVIOUS
  <2> QED BY <2>1, FS_Interval
<1> QED BY <1>1, <1>2, FS_Surjection

\* In t everything is newer than what follows, by the order of s.
NewestFirst(t, s) ==
  /\ ToSet(t) \subseteq ToSet(s)
  /\ \A i, j \in DOMAIN t : i < j => Position(s, t[j]) < Position(s, t[i])

LEMMA NewestFirstInjective ==
  ASSUME NEW A, NEW s \in Seq(A), NEW t \in Seq(A), NewestFirst(t, s)
  PROVE  IsInjective(t)
<1> SUFFICES ASSUME NEW i \in 1..Len(t), NEW j \in 1..Len(t), t[i] = t[j], i < j PROVE FALSE
  <2>1. \A i, j \in 1..Len(t) : i # j => i < j \/ j < i
    OBVIOUS
  <2> QED BY <2>1 DEF IsInjective
<1>1. t[i] \in ToSet(s)
  <2>1. t[i] \in ToSet(t)
    BY DEF ToSet
  <2> QED BY <2>1 DEF NewestFirst
<1>2. Position(s, t[i]) \in 1..Len(s)
  BY <1>1, PositionOf
<1> QED BY <1>2 DEF NewestFirst

\* What is selected from a sequence that is newest first is newest first.
LEMMA NewestFirstKept ==
  ASSUME NEW A, NEW s \in Seq(A), NEW u \in Seq(A), NewestFirst(u, s), NEW S
  PROVE  /\ Those(u, S) \in Seq(A) /\ NewestFirst(Those(u, S), s)
         /\ ToSet(Those(u, S)) = ToSet(u) \cap S
<1> DEFINE t == Those(u, S)
<1>1. /\ t \in Seq(A) /\ ToSet(t) = ToSet(u) \cap S
      /\ \A n, o \in DOMAIN t : n < o =>
           \E i, j \in DOMAIN u : i < j /\ t[n] = u[i] /\ t[o] = u[j]
  BY SelectionKeepsOrder
<1> HIDE DEF t
<1>2. NewestFirst(t, s)
  BY <1>1 DEF NewestFirst
<1> QED BY <1>1, <1>2 DEF t

\* Rows sorted by age: those that are selected, each once, the newest first.
LEMMA ByAgeIsNewestFirst ==
  ASSUME NEW A, NEW s \in Seq(A), IsInjective(s), NEW S
  PROVE  /\ ByAge(s, S) \in Seq(A) /\ NewestFirst(ByAge(s, S), s)
         /\ ToSet(ByAge(s, S)) = ToSet(s) \cap S
<1> DEFINE t == Those(s, S)
           r == ByAge(s, S)
           N == Len(t)
<1>1. /\ t \in Seq(A) /\ ToSet(t) = ToSet(s) \cap S
      /\ \A n, o \in DOMAIN t : n < o =>
           \E i, j \in DOMAIN s : i < j /\ t[n] = s[i] /\ t[o] = s[j]
  BY SelectionKeepsOrder
<1>2. N \in Nat /\ DOMAIN t = 1..N /\ r = [n \in 1..N |-> t[N - n + 1]]
  BY <1>1 DEF ByAge, Reverse
<1> HIDE DEF t, r, N
<1>3. r \in Seq(A) /\ DOMAIN r = 1..N /\ Len(r) = N
  <2>1. \A n \in 1..N : N - n + 1 \in 1..N /\ t[N - n + 1] \in A
    BY <1>1, <1>2
  <2> QED BY <1>2, <2>1
<1>4. ToSet(r) = ToSet(t)
  <2>1. \A n \in 1..N : N - n + 1 \in 1..N /\ N - (N - n + 1) + 1 = n
    BY <1>2
  <2> QED BY <1>2, <2>1 DEF ToSet
<1>5. ASSUME NEW n \in 1..N, NEW o \in 1..N, n < o
      PROVE  Position(s, r[o]) < Position(s, r[n])
  <2> DEFINE b == N - n + 1
             a == N - o + 1
  <2>1. a < b /\ a \in 1..N /\ b \in 1..N /\ r[n] = t[b] /\ r[o] = t[a]
    BY <1>2, <1>5
  <2> HIDE DEF a, b
  <2>2. PICK i, j \in DOMAIN s : i < j /\ t[a] = s[i] /\ t[b] = s[j]
    <3>1. a \in DOMAIN t /\ b \in DOMAIN t
      BY <1>2, <2>1
    <3>2. \A c, d \in DOMAIN t : c < d =>
            \E i, j \in DOMAIN s : i < j /\ t[c] = s[i] /\ t[d] = s[j]
      BY <1>1
    <3> QED BY <2>1, <3>1, <3>2
  <2>3. r[o] = s[i] /\ r[n] = s[j]
    BY <2>1, <2>2
  <2> QED BY <2>2, <2>3, PositionIs
<1>6. NewestFirst(r, s)
  BY <1>1, <1>3, <1>4, <1>5 DEF NewestFirst
<1> QED BY <1>1, <1>3, <1>4, <1>6 DEF r

\* The first n of a sequence that is newest first: as many as asked for or all
\* there are, in order, and every one left out is older than every one shown.
LEMMA PageIsNewest ==
  ASSUME NEW A, NEW s \in Seq(A), NEW t \in Seq(A), NewestFirst(t, s), NEW n \in Nat,
         NEW page, page = FirstOf(t, n), NEW all, all = ToSet(t)
  PROVE  /\ page \in Seq(A) /\ NewestFirst(page, s) /\ ToSet(page) \subseteq all
         /\ IsFiniteSet(all)
         /\ Cardinality(ToSet(page)) = Len(page)
         /\ n < Cardinality(all) => Len(page) = n
         /\ ~(n < Cardinality(all)) => Len(page) = Cardinality(all)
         /\ \A c \in all \ ToSet(page), d \in ToSet(page) : Position(s, c) < Position(s, d)
<1> DEFINE m == IF n < Len(t) THEN n ELSE Len(t)
<1>1. m \in Nat /\ m <= Len(t) /\ Len(t) \in Nat
  OBVIOUS
<1>2. page \in Seq(A) /\ Len(page) = m /\ \A i \in 1..m : i \in 1..Len(t) /\ page[i] = t[i]
  <2> HIDE DEF m
  <2>1. page = [i \in 1..m |-> t[i]]
    <3>1. page = SubSeq(t, 1, m)
      BY DEF FirstOf, m
    <3> QED BY <3>1, <1>1
  <2> QED BY <2>1, <1>1
<1>3. IsInjective(t) /\ IsFiniteSet(ToSet(t)) /\ Cardinality(ToSet(t)) = Len(t)
  BY NewestFirstInjective, LenIsCardinality
<1> HIDE DEF m
<1>4. ToSet(page) \subseteq ToSet(t)
  BY <1>1, <1>2 DEF ToSet
<1>5. NewestFirst(page, s)
  BY <1>1, <1>2, <1>4 DEF NewestFirst
<1>6. Cardinality(ToSet(page)) = Len(page)
  BY <1>2, <1>5, NewestFirstInjective, LenIsCardinality
<1>7. ASSUME NEW c \in ToSet(t) \ ToSet(page), NEW d \in ToSet(page)
      PROVE  Position(s, c) < Position(s, d)
  <2>1. PICK i \in 1..Len(t) : c = t[i]
    BY <1>7 DEF ToSet
  <2>2. PICK j \in 1..m : d = page[j]
    BY <1>2, <1>7 DEF ToSet
  <2>3. ~(i \in 1..m)
    <3>1. \A k \in 1..m : page[k] \in ToSet(page) /\ page[k] = t[k]
      BY <1>2 DEF ToSet
    <3> QED BY <2>1, <3>1
  <2>4. j < i
    <3>1. i \in Nat /\ i >= 1 /\ j \in Nat /\ j <= m
      BY <1>1
    <3>2. ~(i <= m)
      BY <1>1, <2>3, <3>1
    <3> QED BY <1>1, <3>1, <3>2
  <2>5. d = t[j] /\ j \in 1..Len(t)
    BY <1>2, <2>2
  <2> QED BY <2>1, <2>4, <2>5 DEF NewestFirst
<1> QED BY <1>2, <1>3, <1>4, <1>5, <1>6, <1>7 DEF m

\* Something that is in the table is listed, unless as many newer ones are as
\* a list takes.
LEMMA ListedUnlessFull ==
  ASSUME NEW A, NEW s \in Seq(A), IsInjective(s), NEW S, S \subseteq ToSet(s),
         NEW n \in Nat, NEW c \in S
  PROVE  LET page == FirstOf(ByAge(s, S), n) IN
         \/ c \in ToSet(page)
         \/ /\ Len(page) = n
            /\ \A d \in ToSet(page) : Position(s, c) < Position(s, d)
<1> DEFINE t == ByAge(s, S)
           page == FirstOf(t, n)
<1>1. t \in Seq(A) /\ NewestFirst(t, s) /\ ToSet(t) = S
  <2>1. t \in Seq(A) /\ NewestFirst(t, s) /\ ToSet(t) = ToSet(s) \cap S
    BY ByAgeIsNewestFirst
  <2>2. ToSet(s) \cap S = S
    OBVIOUS
  <2> QED BY <2>1, <2>2
<1> HIDE DEF t
<1>2. /\ ToSet(page) \subseteq S /\ IsFiniteSet(S) /\ Cardinality(ToSet(page)) = Len(page)
      /\ Len(page) # n => Len(page) = Cardinality(S)
      /\ \A b \in S \ ToSet(page), d \in ToSet(page) : Position(s, b) < Position(s, d)
  <2> DEFINE all == ToSet(t)
  <2> HIDE DEF page, all
  <2>1. page = FirstOf(t, n) /\ all = ToSet(t)
    BY DEF page, all
  <2>2. ToSet(page) \subseteq all /\ IsFiniteSet(all)
    BY <1>1, <2>1, PageIsNewest
  <2>5. Cardinality(ToSet(page)) = Len(page)
    BY <1>1, <2>1, PageIsNewest
  <2>6. \A b \in all \ ToSet(page), d \in ToSet(page) : Position(s, b) < Position(s, d)
    BY <1>1, <2>1, PageIsNewest
  <2>3. n < Cardinality(all) => Len(page) = n
    BY <1>1, <2>1, PageIsNewest
  <2>4. ~(n < Cardinality(all)) => Len(page) = Cardinality(all)
    BY <1>1, <2>1, PageIsNewest
  <2> QED BY <1>1, <2>2, <2>3, <2>4, <2>5, <2>6 DEF all
<1> HIDE DEF page
<1>3. CASE c \in ToSet(page)
  BY <1>3 DEF page, t
<1>4. CASE c \notin ToSet(page)
  <2>1. Cardinality(ToSet(page)) # Cardinality(S)
    BY <1>2, <1>4, FS_Subset
  <2>2. Len(page) = n
    BY <1>2, <2>1
  <2> QED BY <1>2, <1>4, <2>2 DEF page, t
<1> QED BY <1>3, <1>4

-----------------------------------------------------------------------------
\* The elements of a sequence with one more in front.
LEMMA ToSetOfCons ==
  ASSUME NEW S, NEW x \in S, NEW s \in Seq(S)
  PROVE  <<x>> \o s \in Seq(S) /\ ToSet(<<x>> \o s) = {x} \cup ToSet(s)
<1>1. /\ <<x>> \o s \in Seq(S) /\ Len(<<x>> \o s) = Len(s) + 1
      /\ (<<x>> \o s)[1] = x
      /\ \A i \in 1..Len(s) : (<<x>> \o s)[i + 1] = s[i]
      /\ DOMAIN (<<x>> \o s) = 1..(Len(s) + 1) /\ DOMAIN s = 1..Len(s)
      /\ Len(s) \in Nat
  OBVIOUS
<1>2. ToSet(<<x>> \o s) \subseteq {x} \cup ToSet(s)
  <2> SUFFICES ASSUME NEW i \in 1..(Len(s) + 1) PROVE (<<x>> \o s)[i] \in {x} \cup ToSet(s)
    BY <1>1 DEF ToSet
  <2>1. CASE i = 1
    BY <1>1, <2>1
  <2>2. CASE i # 1
    <3>1. i - 1 \in 1..Len(s) /\ (i - 1) + 1 = i
      BY <1>1, <2>2
    <3>2. (<<x>> \o s)[i] = s[i - 1]
      BY <1>1, <3>1
    <3> QED
      BY <1>1, <3>1, <3>2 DEF ToSet
  <2> QED
    BY <2>1, <2>2
<1>3. ToSet(s) \subseteq ToSet(<<x>> \o s)
  <2> SUFFICES ASSUME NEW i \in 1..Len(s) PROVE s[i] \in ToSet(<<x>> \o s)
    BY <1>1 DEF ToSet
  <2>1. i + 1 \in 1..(Len(s) + 1)
    BY <1>1
  <2> QED
    BY <1>1, <2>1 DEF ToSet
<1>4. x \in ToSet(<<x>> \o s)
  <2>1. 1 \in 1..(Len(s) + 1)
    BY <1>1
  <2> QED
    BY <1>1, <2>1 DEF ToSet
<1> QED
  BY <1>1, <1>2, <1>3, <1>4

\* Those of none.
LEMMA ToSetOfEmpty == ToSet(<<>>) = {}
BY DEF ToSet

\* A new element at the end leaves the others where they are.
LEMMA AppendOnce ==
  ASSUME NEW A, NEW s \in Seq(A), IsInjective(s), NEW x \in A, x \notin ToSet(s)
  PROVE  LET u == Append(s, x) IN
         /\ u \in Seq(A) /\ IsInjective(u) /\ ToSet(u) = ToSet(s) \cup {x}
         /\ \A c \in ToSet(s) : Position(u, c) = Position(s, c) /\ Position(s, c) \in 1..Len(s)
         /\ Position(u, x) = Len(s) + 1
<1> DEFINE u == Append(s, x)
<1>1. /\ u \in Seq(A) /\ Len(u) = Len(s) + 1 /\ Len(s) \in Nat
      /\ \A i \in 1..Len(s) : u[i] = s[i] /\ i \in 1..Len(u) /\ i # Len(s) + 1
      /\ u[Len(s) + 1] = x /\ Len(s) + 1 \in 1..Len(u)
      /\ 1..Len(u) = 1..Len(s) \cup {Len(s) + 1}
  OBVIOUS
<1> HIDE DEF u
<1>2. ToSet(u) = ToSet(s) \cup {x}
  BY <1>1 DEF ToSet
<1>3. IsInjective(u)
  <2> SUFFICES ASSUME NEW i \in 1..Len(u), NEW j \in 1..Len(u), u[i] = u[j] PROVE i = j
    BY <1>1 DEF IsInjective
  <2>1. \A k \in 1..Len(s) : s[k] # x
    BY DEF ToSet
  <2> QED BY <1>1, <2>1 DEF IsInjective
<1>4. ASSUME NEW c \in ToSet(s)
      PROVE  Position(u, c) = Position(s, c) /\ Position(s, c) \in 1..Len(s)
  <2>1. Position(s, c) \in 1..Len(s) /\ s[Position(s, c)] = c
    BY PositionOf
  <2>2. u[Position(s, c)] = c /\ Position(s, c) \in 1..Len(u)
    BY <1>1, <2>1
  <2>3. Position(u, u[Position(s, c)]) = Position(s, c)
    BY <1>1, <1>3, <2>2, PositionIs
  <2> QED BY <2>1, <2>2, <2>3
<1>5. Position(u, x) = Len(s) + 1
  <2>1. Position(u, u[Len(s) + 1]) = Len(s) + 1
    BY <1>1, <1>3, PositionIs
  <2> QED BY <1>1, <2>1
<1> QED BY <1>1, <1>2, <1>3, <1>4, <1>5 DEF u

\* What is newest first stays so when something newer comes, in front of it or
\* elsewhere.
LEMMA NewestFirstGrows ==
  ASSUME NEW A, NEW s \in Seq(A), IsInjective(s), NEW x \in A, x \notin ToSet(s),
         NEW t \in Seq(A), NewestFirst(t, s)
  PROVE  /\ NewestFirst(t, Append(s, x))
         /\ NewestFirst(<<x>> \o t, Append(s, x))
<1> DEFINE u == Append(s, x)
           v == <<x>> \o t
<1>1. /\ u \in Seq(A) /\ ToSet(u) = ToSet(s) \cup {x}
      /\ \A c \in ToSet(s) : Position(u, c) = Position(s, c) /\ Position(s, c) \in 1..Len(s)
      /\ Position(u, x) = Len(s) + 1
  BY AppendOnce
<1>2. ToSet(v) = {x} \cup ToSet(t)
  BY ToSetOfCons
<1>3. /\ v \in Seq(A) /\ DOMAIN v = 1..(Len(t) + 1) /\ v[1] = x /\ Len(t) \in Nat
      /\ \A i \in 2..(Len(t) + 1) : i - 1 \in 1..Len(t) /\ v[i] = t[i - 1]
  OBVIOUS
<1> HIDE DEF u, v
<1>4. \A i \in DOMAIN t : t[i] \in ToSet(s)
  <2>1. \A i \in DOMAIN t : t[i] \in ToSet(t)
    BY DEF ToSet
  <2> QED BY <2>1 DEF NewestFirst
<1>5. NewestFirst(t, u)
  BY <1>1, <1>4 DEF NewestFirst
<1>6. ASSUME NEW i \in 1..(Len(t) + 1), NEW j \in 1..(Len(t) + 1), i < j
      PROVE  Position(u, v[j]) < Position(u, v[i])
  <2>1. j - 1 \in DOMAIN t /\ v[j] = t[j - 1]
    BY <1>3, <1>6
  <2>2. CASE i = 1
    <3>1. Position(u, v[j]) \in 1..Len(s) /\ Position(u, v[i]) = Len(s) + 1
      BY <1>1, <1>3, <1>4, <2>1, <2>2
    <3> QED BY <3>1
  <2>3. CASE i # 1
    <3>1. i - 1 \in DOMAIN t /\ v[i] = t[i - 1] /\ i - 1 < j - 1
      BY <1>3, <1>6, <2>3
    <3> QED BY <1>5, <2>1, <3>1 DEF NewestFirst
  <2> QED BY <2>2, <2>3
<1>7. NewestFirst(v, u)
  BY <1>1, <1>2, <1>3, <1>6 DEF NewestFirst
<1> QED BY <1>5, <1>7 DEF u, v
=============================================================================
