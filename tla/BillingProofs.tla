---------------------------- MODULE BillingProofs ----------------------------
(***************************************************************************)
(* Proofs about Billing: an invoice is complete and adds up, a checkout    *)
(* charges what was owed while it ran, and what is owed does not shrink.   *)
(*                                                                         *)
(* The sum that an invoice is made of is a fold over a set, so the first   *)
(* part proves, by induction over the finite sets, what sums have to do    *)
(* with their addends.                                                     *)
(***************************************************************************)
EXTENDS Billing, ListingProofs

-----------------------------------------------------------------------------
\* The member of a set that the fold over it takes next.
Pick(s) == CHOOSE x \in s : TRUE

\* What the fold over a finite set D is defined by.
IsSum(g, c, D) ==
  g = [s \in SUBSET D |-> IF s = {} THEN 0 ELSE c[Pick(s)] + g[s \ {Pick(s)}]]

\* The recursion has one solution at most, whatever the set it is taken over.
LEMMA SumUnique ==
  ASSUME NEW c, NEW D, NEW E, NEW g, NEW h, IsSum(g, c, D), IsSum(h, c, E),
         NEW V, V \subseteq D, V \subseteq E, IsFiniteSet(V)
  PROVE  g[V] = h[V]
<1> DEFINE Good == {W \in SUBSET V : g[W] = h[W]}
<1>1. ASSUME NEW T \in SUBSET V, \A U \in SUBSET T : U # T => U \in Good PROVE T \in Good
  <2>1. g[T] = IF T = {} THEN 0 ELSE c[Pick(T)] + g[T \ {Pick(T)}]
    BY DEF IsSum
  <2>2. h[T] = IF T = {} THEN 0 ELSE c[Pick(T)] + h[T \ {Pick(T)}]
    BY DEF IsSum
  <2>3. CASE T = {}
    BY <2>1, <2>2, <2>3
  <2>4. CASE T # {}
    <3>1. Pick(T) \in T
      BY <2>4 DEF Pick
    <3>2. g[T \ {Pick(T)}] = h[T \ {Pick(T)}]
      BY <1>1, <3>1
    <3> QED BY <2>1, <2>2, <3>2, <2>4
  <2> QED BY <2>3, <2>4
<1> HIDE DEF Good
<1>2. V \in Good
  BY <1>1, FiniteSetInduction
<1> QED BY <1>2 DEF Good

\* The recursion has a solution.
LEMMA SumExists ==
  ASSUME NEW c, NEW D, IsFiniteSet(D)
  PROVE  \E g : IsSum(g, c, D)
<1> DEFINE Good == {T \in SUBSET D : \E g : IsSum(g, c, T)}
<1>1. ASSUME NEW T \in SUBSET D, \A U \in SUBSET T : U # T => U \in Good PROVE T \in Good
  <2> DEFINE G(U) == CHOOSE g : IsSum(g, c, U)
             g == [s \in SUBSET T |-> IF s = {} THEN 0
                      ELSE c[Pick(s)] + G(s \ {Pick(s)})[s \ {Pick(s)}]]
  <2>1. ASSUME NEW U \in SUBSET T, U # T PROVE IsSum(G(U), c, U)
    <3>1. \E f : IsSum(f, c, U)
      BY <2>1, <1>1
    <3> QED BY <3>1
  <2>2. ASSUME NEW s \in SUBSET T, s # {} PROVE Pick(s) \in s
    BY <2>2 DEF Pick
  <2>3. ASSUME NEW U \in SUBSET T, U # T PROVE g[U] = G(U)[U]
    <3> HIDE DEF G
    <3>1. G(U)[U] = IF U = {} THEN 0 ELSE c[Pick(U)] + G(U)[U \ {Pick(U)}]
      BY <2>1, <2>3 DEF IsSum
    <3>2. CASE U = {}
      BY <3>1, <3>2
    <3>3. CASE U # {}
      <4> DEFINE V == U \ {Pick(U)}
      <4>1. Pick(U) \in U /\ V \subseteq U /\ V # T /\ V \subseteq T /\ IsFiniteSet(V)
        BY <2>2, <2>3, <3>3, FS_Subset
      <4>2. IsSum(G(U), c, U) /\ IsSum(G(V), c, V)
        BY <2>1, <2>3, <4>1
      <4>3. G(U)[V] = G(V)[V]
        <5> HIDE DEF V
        <5> QED BY <4>1, <4>2, SumUnique
      <4>4. g[U] = c[Pick(U)] + G(V)[V]
        BY <3>3
      <4> QED BY <3>1, <3>3, <4>3, <4>4
    <3> QED BY <3>2, <3>3
  <2>4. IsSum(g, c, T)
    <3>1. ASSUME NEW s \in SUBSET T, s # {}
          PROVE  g[s] = c[Pick(s)] + g[s \ {Pick(s)}]
      <4>1. s \ {Pick(s)} \in SUBSET T /\ s \ {Pick(s)} # T
        BY <2>2, <3>1
      <4>2. g[s \ {Pick(s)}] = G(s \ {Pick(s)})[s \ {Pick(s)}]
        <5> HIDE DEF g, G
        <5> QED BY <2>3, <4>1
      <4>3. g[s] = c[Pick(s)] + G(s \ {Pick(s)})[s \ {Pick(s)}]
        BY <3>1
      <4> QED BY <4>2, <4>3
    <3>2. g[{}] = 0
      OBVIOUS
    <3>3. DOMAIN g = SUBSET T /\ g = [s \in SUBSET T |-> g[s]]
      OBVIOUS
    <3> HIDE DEF g
    <3> QED BY <3>1, <3>2, <3>3 DEF IsSum
  <2> HIDE DEF g
  <2> QED BY <2>4
<1> HIDE DEF Good
<1>2. D \in Good
  BY <1>1, FiniteSetInduction
<1> QED BY <1>2 DEF Good

\* The fold of the library is that solution.
LEMMA SumDef ==
  ASSUME NEW c, NEW S, IsFiniteSet(S)
  PROVE  \E g : IsSum(g, c, S) /\ SumFunctionOnSet(c, S) = g[S]
<1> DEFINE iter == CHOOSE g : IsSum(g, c, S)
<1>1. IsSum(iter, c, S)
  BY SumExists
<1>2. SumFunctionOnSet(c, S) = iter[S]
  BY DEF SumFunctionOnSet, FoldFunctionOnSet, MapThenFoldSet, IsSum, Pick
<1> QED BY <1>1, <1>2

\* A sum, unfolded once.
LEMMA SumStep ==
  ASSUME NEW c, NEW S, IsFiniteSet(S)
  PROVE  /\ S = {} => SumFunctionOnSet(c, S) = 0
         /\ S # {} => \E x \in S : SumFunctionOnSet(c, S) = c[x] + SumFunctionOnSet(c, S \ {x})
<1>1. PICK g : IsSum(g, c, S) /\ SumFunctionOnSet(c, S) = g[S]
  BY SumDef
<1>2. g[S] = IF S = {} THEN 0 ELSE c[Pick(S)] + g[S \ {Pick(S)}]
  BY <1>1 DEF IsSum
<1>3. ASSUME S # {} PROVE Pick(S) \in S /\ g[S \ {Pick(S)}] = SumFunctionOnSet(c, S \ {Pick(S)})
  <2>1. Pick(S) \in S
    BY <1>3 DEF Pick
  <2> DEFINE V == S \ {Pick(S)}
  <2>2. V \subseteq S /\ IsFiniteSet(V)
    BY FS_Subset
  <2> HIDE DEF V
  <2>3. PICK h : IsSum(h, c, V) /\ SumFunctionOnSet(c, V) = h[V]
    BY <2>2, SumDef
  <2>4. g[V] = h[V]
    BY <1>1, <2>2, <2>3, SumUnique
  <2> QED BY <2>1, <2>3, <2>4 DEF V
<1> QED BY <1>1, <1>2, <1>3

\* A sum of natural numbers is one.
LEMMA SumType ==
  ASSUME NEW c, NEW S, IsFiniteSet(S), \A x \in S : c[x] \in Nat
  PROVE  SumFunctionOnSet(c, S) \in Nat
<1> DEFINE Good == {T \in SUBSET S : SumFunctionOnSet(c, T) \in Nat}
<1>1. ASSUME NEW T \in SUBSET S, \A U \in SUBSET T : U # T => U \in Good PROVE T \in Good
  <2>1. IsFiniteSet(T)
    BY FS_Subset
  <2>2. CASE T = {}
    BY <2>1, <2>2, SumStep
  <2>3. CASE T # {}
    <3>1. PICK x \in T : SumFunctionOnSet(c, T) = c[x] + SumFunctionOnSet(c, T \ {x})
      BY <2>1, <2>3, SumStep
    <3>2. SumFunctionOnSet(c, T \ {x}) \in Nat
      BY <1>1, <3>1
    <3> QED BY <3>1, <3>2
  <2> QED BY <2>2, <2>3
<1> HIDE DEF Good
<1>2. S \in Good
  BY <1>1, FiniteSetInduction
<1> QED BY <1>2 DEF Good

\* Any element may be added last.
LEMMA SumRemove ==
  ASSUME NEW c, NEW S, IsFiniteSet(S), \A x \in S : c[x] \in Nat, NEW e \in S
  PROVE  SumFunctionOnSet(c, S) = c[e] + SumFunctionOnSet(c, S \ {e})
<1> DEFINE Sum(T) == SumFunctionOnSet(c, T)
           Good == {T \in SUBSET S : \A x \in T : Sum(T) = c[x] + Sum(T \ {x})}
<1>1. ASSUME NEW T \in SUBSET S, \A U \in SUBSET T : U # T => U \in Good, NEW x \in T
      PROVE  Sum(T) = c[x] + Sum(T \ {x})
  <2>1. IsFiniteSet(T)
    BY FS_Subset
  <2>2. PICK y \in T : Sum(T) = c[y] + Sum(T \ {y})
    BY <2>1, SumStep
  <2>3. CASE x # y
    <3>1. T \ {y} \in Good /\ T \ {x} \in Good
      BY <1>1, <2>2
    <3>2. (T \ {y}) \ {x} = (T \ {x}) \ {y}
      OBVIOUS
    <3>3. /\ Sum(T \ {y}) = c[x] + Sum((T \ {y}) \ {x})
          /\ Sum(T \ {x}) = c[y] + Sum((T \ {x}) \ {y})
      BY <3>1, <2>3
    <3>4. Sum((T \ {x}) \ {y}) \in Nat /\ c[x] \in Nat /\ c[y] \in Nat
      <4>1. IsFiniteSet((T \ {x}) \ {y})
        BY <2>1, FS_Subset
      <4> QED BY <4>1, SumType
    <3> HIDE DEF Sum
    <3> QED BY <2>2, <3>2, <3>3, <3>4
  <2> QED BY <2>2, <2>3
<1>2. S \in Good
  <2> HIDE DEF Sum
  <2>1. \A T \in SUBSET S : (\A U \in SUBSET T : U # T => U \in Good) => T \in Good
    BY <1>1
  <2> HIDE DEF Good
  <2> QED BY <2>1, FiniteSetInduction
<1> QED BY <1>2

\* Fewer addends, no more.
LEMMA SumMonotonic ==
  ASSUME NEW c, NEW S, IsFiniteSet(S), \A x \in S : c[x] \in Nat, NEW T \in SUBSET S
  PROVE  SumFunctionOnSet(c, T) <= SumFunctionOnSet(c, S)
<1> DEFINE Sum(U) == SumFunctionOnSet(c, U)
           Good == {U \in SUBSET S : Sum(T \cap U) <= Sum(U)}
<1>1. ASSUME NEW U \in SUBSET S, \A V \in SUBSET U : V # U => V \in Good PROVE U \in Good
  <2>1. IsFiniteSet(U) /\ IsFiniteSet(T \cap U)
    BY FS_Subset
  <2>2. Sum(U) \in Nat /\ Sum(T \cap U) \in Nat
    BY <2>1, SumType
  <2>3. CASE U \subseteq T
    <3>1. T \cap U = U
      BY <2>3
    <3> QED BY <2>2, <3>1
  <2>4. CASE ~(U \subseteq T)
    <3>1. PICK x \in U : x \notin T
      BY <2>4
    <3>2. T \cap U = T \cap (U \ {x}) /\ U \ {x} \in Good
      BY <1>1, <3>1
    <3>3. Sum(U) = c[x] + Sum(U \ {x}) /\ c[x] \in Nat /\ Sum(U \ {x}) \in Nat
      <4>1. IsFiniteSet(U \ {x})
        BY <2>1, FS_Subset
      <4> QED BY <2>1, <4>1, SumRemove, SumType
    <3> HIDE DEF Sum
    <3> QED BY <2>2, <3>2, <3>3
  <2> QED BY <2>3, <2>4
<1>2. S \in Good
  <2> HIDE DEF Good
  <2> QED BY <1>1, FiniteSetInduction
<1>3. T \cap S = T
  OBVIOUS
<1> QED BY <1>2, <1>3

\* Equal addends, equal sums.
LEMMA SumEqual ==
  ASSUME NEW c, NEW d, NEW S, IsFiniteSet(S), \A x \in S : c[x] = d[x]
  PROVE  SumFunctionOnSet(c, S) = SumFunctionOnSet(d, S)
<1>1. PICK g : IsSum(g, c, S) /\ SumFunctionOnSet(c, S) = g[S]
  BY SumDef
<1>2. PICK h : IsSum(h, d, S) /\ SumFunctionOnSet(d, S) = h[S]
  BY SumDef
<1>3. IsSum(h, c, S)
  <2>1. \A s \in SUBSET S : s # {} => Pick(s) \in s
    BY DEF Pick
  <2> QED BY <1>2, <2>1 DEF IsSum
<1> QED BY <1>1, <1>2, <1>3, SumUnique
-----------------------------------------------------------------------------
\* What the events of S cost if they report what use says.
Cost(u) == u.units * unitCosts[u.category]
Owing(use, S) == SumFunctionOnSet([e \in S |-> Cost(use[e])], S)

\* Costs are whole hundredths of a cent.
LEMMA CostType == \A u \in Usages : Cost(u) \in Nat
BY DEF Usages, Cost, unitCosts

\* Events that report the same and more of them cost no less.
LEMMA OwingGrows ==
  ASSUME NEW use, NEW new, NEW T, IsFiniteSet(T), NEW S \in SUBSET T,
         \A e \in S : new[e] = use[e], \A e \in T : new[e] \in Usages
  PROVE  /\ Owing(use, S) \in Nat /\ Owing(new, T) \in Nat
         /\ Owing(use, S) <= Owing(new, T)
         /\ Owing(new, S) = Owing(use, S)
<1> DEFINE c == [e \in S |-> Cost(use[e])]
           n == [e \in S |-> Cost(new[e])]
           d == [e \in T |-> Cost(new[e])]
<1>1. IsFiniteSet(S)
  BY FS_Subset
<1>2. /\ \A e \in T : d[e] \in Nat
      /\ \A e \in S : c[e] = d[e] /\ c[e] \in Nat /\ n[e] = c[e]
  BY CostType
<1>3. Owing(use, S) = SumFunctionOnSet(c, S) /\ Owing(new, T) = SumFunctionOnSet(d, T)
  BY DEF Owing
<1>4. Owing(new, S) = SumFunctionOnSet(n, S)
  BY DEF Owing
<1> HIDE DEF c, n, d
<1>5. SumFunctionOnSet(c, S) = SumFunctionOnSet(d, S)
  BY <1>1, <1>2, SumEqual
<1>6. SumFunctionOnSet(n, S) = SumFunctionOnSet(c, S)
  BY <1>1, <1>2, SumEqual
<1>7. SumFunctionOnSet(d, S) <= SumFunctionOnSet(d, T)
  BY <1>2, SumMonotonic
<1>8. SumFunctionOnSet(c, S) \in Nat
  BY <1>1, <1>2, SumType
<1>9. SumFunctionOnSet(d, T) \in Nat
  BY <1>2, SumType
<1> QED BY <1>3, <1>4, <1>5, <1>6, <1>7, <1>8, <1>9

\* The charge of an invoice is that sum, now and after a step.
LEMMA ChargeIsOwing ==
  ASSUME NEW S
  PROVE  ChargeOf(S) = Owing(usage, S)
BY DEF ChargeOf, Charge, Owing, Cost, SumFunction

\* A rounded amount is within half a cent.
LEMMA Rounded ==
  ASSUME NEW m \in Nat, NEW n \in RoundCents(m)
  PROVE  /\ n \in Nat
         /\ 2 * Cent * n >= 2 * m - Cent
         /\ 2 * Cent * n <= 2 * m + Cent
BY DEF RoundCents, Cent

\* What the usage query returns of the rows R of events recorded in the order s.
LEMMA ListedOf ==
  ASSUME NEW s \in Seq(Events), IsInjective(s), NEW R \in SUBSET ToSet(s),
         NEW limited \in BOOLEAN, NEW page,
         page = IF limited THEN FirstOf(ByAge(s, R), Limit) ELSE ByAge(s, R)
  PROVE  /\ IsFiniteSet(R) /\ Cardinality(R) \in Nat
         /\ ToSet(page) \subseteq R
         /\ Len(page) = Cardinality(ToSet(page))
         /\ Cardinality(R) <= Limit => ToSet(page) = R
         /\ ~limited => ToSet(page) = R
         /\ R \ ToSet(page) # {} => Cardinality(ToSet(page)) = Limit
         /\ \A e \in R \ ToSet(page), d \in ToSet(page) : Position(s, e) < Position(s, d)
<1> DEFINE t == ByAge(s, R)
           first == FirstOf(t, Limit)
<1>1. t \in Seq(Events) /\ NewestFirst(t, s) /\ ToSet(t) = R
  <2>1. ToSet(s) \cap R = R
    OBVIOUS
  <2> HIDE DEF t
  <2> QED BY <2>1, ByAgeIsNewestFirst DEF t
<1>2. Limit \in Nat
  BY LimitAssumption
<1>3. page = (IF limited THEN first ELSE t) /\ first = FirstOf(t, Limit)
  OBVIOUS
<1> HIDE DEF t, first
<1>4. IsFiniteSet(R) /\ Cardinality(R) = Len(t) /\ Cardinality(R) \in Nat
  <2>1. IsInjective(t)
    BY <1>1, NewestFirstInjective
  <2>2. IsFiniteSet(ToSet(t)) /\ Cardinality(ToSet(t)) = Len(t)
    BY <1>1, <2>1, LenIsCardinality
  <2>3. Len(t) \in Nat
    BY <1>1
  <2> QED BY <1>1, <2>2, <2>3
<1>5. ToSet(first) \subseteq R /\ Cardinality(ToSet(first)) = Len(first)
  <2>1. ToSet(first) \subseteq R
    BY <1>1, <1>2, <1>3, PageIsNewest
  <2>2. Cardinality(ToSet(first)) = Len(first)
    BY <1>1, <1>2, <1>3, PageIsNewest
  <2> QED BY <2>1, <2>2
<1>6. Limit < Cardinality(R) => Len(first) = Limit
  BY <1>1, <1>2, <1>3, PageIsNewest
<1>7. ~(Limit < Cardinality(R)) => Len(first) = Cardinality(R)
  BY <1>1, <1>2, <1>3, PageIsNewest
<1>8. \A e \in R \ ToSet(first), d \in ToSet(first) : Position(s, e) < Position(s, d)
  BY <1>1, <1>2, <1>3, PageIsNewest
<1>9. ~(Limit < Cardinality(R)) => ToSet(first) = R
  BY <1>4, <1>5, <1>7, FS_Subset
<1>10. Cardinality(R) <= Limit => ~(Limit < Cardinality(R))
  BY <1>2, <1>4
<1>11. CASE limited
  BY <1>3, <1>4, <1>5, <1>6, <1>8, <1>9, <1>10, <1>11
<1>12. CASE ~limited
  BY <1>1, <1>3, <1>4, <1>12
<1> QED BY <1>11, <1>12
-----------------------------------------------------------------------------
\* An event is recorded once, and what it reports stays known.
RecordedOnce ==
  /\ IsInjective(created)
  /\ \A e \in Events : call[e] = "new" <=> e \notin ToSet(created)
  /\ \A e \in ToSet(created) : usage[e] \in Usages

\* A row, and so an audit entry, is of a recorded event.
RowsAreRecorded ==
  /\ rows \subseteq ToSet(created) /\ audited \subseteq rows
  /\ \A e \in Events : call[e] = "stored" => e \in rows

Owed(use, S) == Subscription + Owing(use, S)
AtMost(t, owed)  == 2 * Cent * t <= 2 * owed + Cent
AtLeast(t, owed) == 2 * Cent * t >= 2 * owed - Cent

\* The total of a checkout that has a price is at least the subscription and
\* at most what is owed by now, and, below the limit, no less than was owed
\* when it was asked for.
TotalsFromWindow == \A k \in Clients :
  /\ since[k] \subseteq rows
  /\ checkout[k] = "priced" =>
       /\ AtLeast(total[k], Subscription)
       /\ AtMost(total[k], Owed(usage, rows))
       /\ Cardinality(rows) <= Limit => AtLeast(total[k], Owed(usage, since[k]))

FromWindow(s, use) ==
  /\ AtMost(s.cents, Owed(use, s.until))
  /\ Cardinality(s.until) <= Limit => AtLeast(s.cents, Owed(use, s.since))

\* So is what a session charges, and both ends of its window are of rows.
SessionsFromWindow == \A k \in Clients : \A i \in DOMAIN sessions[k] :
  /\ sessions[k][i].since \subseteq rows /\ sessions[k][i].until \subseteq rows
  /\ FromWindow(sessions[k][i], usage)

Inv == /\ TypeOK
       /\ RecordedOnce
       /\ RowsAreRecorded
       /\ TotalsFromWindow
       /\ SessionsFromWindow

-----------------------------------------------------------------------------
\* The invariant holds where nothing is recorded.
LEMMA InitInv == Init => Inv
<1> SUFFICES ASSUME Init PROVE Inv
  OBVIOUS
<1>1. ToSet(created) = {} /\ IsInjective(created)
  BY ToSetOfEmpty DEF Init, IsInjective
<1>2. TypeOK
  BY DEF Init, TypeOK, Calls, Phases
<1> QED
  BY <1>1, <1>2
     DEF Init, Inv, RecordedOnce, RowsAreRecorded, TotalsFromWindow, SessionsFromWindow

\* POST /usage records one more event.
LEMMA PostUsageRecords ==
  ASSUME Inv, NEW e \in Events, NEW u \in Bodies, PostUsage(e, u)
  PROVE  /\ TypeOK' /\ RecordedOnce' /\ RowsAreRecorded'
         /\ rows \subseteq rows' /\ \A d \in rows : usage'[d] = usage[d]
<1>1. /\ created \in Seq(Events) /\ IsInjective(created) /\ e \notin ToSet(created)
      /\ created' = Append(created, e)
  BY DEF PostUsage, Inv, TypeOK, RecordedOnce
<1>2. /\ created' \in Seq(Events) /\ IsInjective(created')
      /\ ToSet(created') = ToSet(created) \cup {e}
  BY <1>1, AppendOnce
<1>3. u \in Usages
  BY BodiesAssumption DEF PostUsage, Valid, Usages
<1>4. /\ usage' \in [Events -> Usages \cup {None}] /\ usage'[e] = u
      /\ \A d \in Events \ {e} : usage'[d] = usage[d]
  BY <1>3 DEF PostUsage, Inv, TypeOK
<1>5. /\ call' \in [Events -> Calls] /\ call'[e] \in {"sent", "done"}
      /\ \A d \in Events \ {e} : call'[d] = call[d]
  BY DEF PostUsage, Inv, TypeOK, Calls
<1>6. /\ rows' \subseteq rows \cup {e} /\ rows \subseteq rows'
      /\ audited' \subseteq audited \cup (rows' \cap {e}) /\ rows \subseteq Events
  BY DEF PostUsage, Inv, TypeOK
<1>7. UNCHANGED <<store, checkout, since, total, sessions>>
  BY DEF PostUsage, paying
<1>8. TypeOK'
  BY <1>2, <1>4, <1>5, <1>6, <1>7 DEF Inv, TypeOK
<1>9. RecordedOnce'
  <2>1. \A d \in Events : call'[d] = "new" <=> d \notin ToSet(created')
    BY <1>2, <1>5 DEF Inv, RecordedOnce
  <2>2. ToSet(created) \subseteq Events
    BY <1>1 DEF ToSet
  <2>3. \A d \in ToSet(created') : usage'[d] \in Usages
    BY <1>2, <1>3, <1>4, <2>2 DEF Inv, RecordedOnce
  <2> QED BY <1>2, <2>1, <2>3 DEF RecordedOnce
<1>10. RowsAreRecorded'
  <2>1. rows' \subseteq ToSet(created') /\ audited' \subseteq rows'
    BY <1>2, <1>6 DEF Inv, RowsAreRecorded
  <2>2. ASSUME NEW d \in Events, call'[d] = "stored" PROVE d \in rows'
    BY <1>5, <1>6, <2>2 DEF Inv, RowsAreRecorded
  <2> QED BY <2>1, <2>2 DEF RowsAreRecorded
<1>11. \A d \in rows : usage'[d] = usage[d]
  BY <1>1, <1>4, <1>6 DEF Inv, RowsAreRecorded
<1> QED BY <1>6, <1>8, <1>9, <1>10, <1>11

\* The steps by which the event gets stored and answered record nothing.
LEMMA StoringRecords ==
  ASSUME Inv, NEW e \in Events, InsertUsage(e) \/ InsertFails(e) \/ Reply(e)
  PROVE  /\ TypeOK' /\ RecordedOnce' /\ RowsAreRecorded'
         /\ rows \subseteq rows' /\ UNCHANGED <<usage, paying>>
<1>1. /\ call[e] \in {"sent", "stored"} /\ call'[e] \in {"stored", "failed", "done"}
      /\ call' \in [Events -> Calls]
      /\ \A d \in Events \ {e} : call'[d] = call[d]
  BY DEF InsertUsage, InsertFails, Reply, Ready, Inv, TypeOK, Calls
<1>2. /\ rows \subseteq rows' /\ rows' \subseteq rows \cup {e}
      /\ call'[e] = "stored" => e \in rows'
  BY DEF InsertUsage, InsertFails, Reply, Inv, TypeOK
<1>3. audited' \subseteq rows'
  BY DEF InsertUsage, InsertFails, Reply, Ready, Inv, RowsAreRecorded
<1>4. UNCHANGED <<store, created, usage, paying>>
  BY DEF InsertUsage, InsertFails, Reply
<1>5. TypeOK'
  BY <1>1, <1>2, <1>3, <1>4 DEF Inv, TypeOK, paying
<1>6. RecordedOnce'
  BY <1>1, <1>4 DEF Inv, RecordedOnce, TypeOK
<1>7. RowsAreRecorded'
  BY <1>1, <1>2, <1>3, <1>4 DEF Inv, RowsAreRecorded, RecordedOnce, TypeOK
<1> QED BY <1>2, <1>4, <1>5, <1>6, <1>7

\* A checkout records nothing.
LEMMA CheckoutRecords ==
  ASSUME Inv, UNCHANGED <<store, recording>>, TypeOK'
  PROVE  RecordedOnce' /\ RowsAreRecorded'
BY DEF Inv, RecordedOnce, RowsAreRecorded, recording

\* What was owed for events that are rows is known and stays; for the rows it
\* does not shrink.
LEMMA OwedStays ==
  ASSUME Inv, rows \subseteq rows', RecordedOnce', RowsAreRecorded', TypeOK',
         \A d \in rows : usage'[d] = usage[d], NEW S \in SUBSET rows
  PROVE  /\ Owing(usage', S) = Owing(usage, S)
         /\ Owing(usage, S) \in Nat
         /\ Owing(usage, S) <= Owing(usage', rows')
         /\ Owing(usage', rows') \in Nat
<1>1. IsFiniteSet(rows')
  <2>1. created' \in Seq(Events) /\ IsInjective(created') /\ rows' \in SUBSET ToSet(created')
    BY DEF TypeOK, RecordedOnce, RowsAreRecorded
  <2>2. IsFiniteSet(ToSet(created'))
    BY <2>1, LenIsCardinality
  <2> QED BY <2>1, <2>2, FS_Subset
<1>2. \A e \in rows' : usage'[e] \in Usages
  BY DEF RecordedOnce, RowsAreRecorded
<1>3. S \in SUBSET rows' /\ \A e \in S : usage'[e] = usage[e]
  OBVIOUS
<1> QED BY <1>1, <1>2, <1>3, OwingGrows

\* Rows stay, so they grow in number.
LEMMA RowsGrowInNumber ==
  ASSUME rows \subseteq rows', RecordedOnce', RowsAreRecorded', TypeOK', Cardinality(rows') <= Limit
  PROVE  Cardinality(rows) <= Limit
<1>1. created' \in Seq(Events) /\ IsInjective(created') /\ rows' \in SUBSET ToSet(created')
  BY DEF TypeOK, RecordedOnce, RowsAreRecorded
<1>2. IsFiniteSet(ToSet(created'))
  BY <1>1, LenIsCardinality
<1>3. IsFiniteSet(rows')
  BY <1>1, <1>2, FS_Subset
<1>4. /\ IsFiniteSet(rows) /\ Cardinality(rows) <= Cardinality(rows')
  BY <1>3, FS_Subset
<1>5. Cardinality(rows) \in Nat /\ Cardinality(rows') \in Nat /\ Limit \in Nat
  BY <1>3, <1>4, FS_CardinalityType, LimitAssumption
<1> QED BY <1>4, <1>5

\* Without a step of a checkout, what it charges stays within its window,
\* whatever is recorded.
LEMMA WindowsStay ==
  ASSUME Inv, rows \subseteq rows', RecordedOnce', RowsAreRecorded', TypeOK',
         \A d \in rows : usage'[d] = usage[d],
         NEW k \in Clients, checkout'[k] = checkout[k],
         since'[k] = since[k], total'[k] = total[k]
  PROVE  /\ since'[k] \subseteq rows'
         /\ checkout'[k] = "priced" =>
              /\ AtLeast(total'[k], Subscription)
              /\ AtMost(total'[k], Owed(usage', rows'))
              /\ Cardinality(rows') <= Limit =>
                   AtLeast(total'[k], Owed(usage', since'[k]))
<1>1. since[k] \subseteq rows
  BY DEF Inv, TotalsFromWindow
<1> SUFFICES ASSUME checkout[k] = "priced"
             PROVE  /\ AtLeast(total[k], Subscription)
                    /\ AtMost(total[k], Owed(usage', rows'))
                    /\ Cardinality(rows') <= Limit => AtLeast(total[k], Owed(usage', since[k]))
  BY <1>1
<1>2. AtLeast(total[k], Subscription) /\ AtMost(total[k], Owed(usage, rows)) /\ total[k] \in Nat
  BY DEF Inv, TotalsFromWindow, TypeOK
<1>3. /\ Owing(usage, rows) \in Nat /\ Owing(usage', rows') \in Nat
      /\ Owing(usage, rows) <= Owing(usage', rows')
  BY OwedStays
<1>4. AtMost(total[k], Owed(usage', rows'))
  BY <1>2, <1>3 DEF AtMost, Owed, Cent, Subscription
<1>5. ASSUME Cardinality(rows') <= Limit PROVE AtLeast(total[k], Owed(usage', since[k]))
  <2>1. Cardinality(rows) <= Limit
    BY <1>5, RowsGrowInNumber
  <2>2. AtLeast(total[k], Owed(usage, since[k]))
    BY <2>1 DEF Inv, TotalsFromWindow
  <2>3. Owing(usage', since[k]) = Owing(usage, since[k])
    BY <1>1, OwedStays
  <2> QED BY <2>2, <2>3 DEF Owed
<1> QED BY <1>2, <1>4, <1>5

\* A session made stays as it is, and so does what was owed at its ends.
LEMMA SessionsStay ==
  ASSUME Inv, rows \subseteq rows', RecordedOnce', RowsAreRecorded', TypeOK',
         \A d \in rows : usage'[d] = usage[d],
         NEW k \in Clients, NEW i \in DOMAIN sessions[k]
  PROVE  /\ sessions[k][i].since \subseteq rows' /\ sessions[k][i].until \subseteq rows'
         /\ FromWindow(sessions[k][i], usage')
<1> DEFINE s == sessions[k][i]
<1>1. s.since \subseteq rows /\ s.until \subseteq rows /\ FromWindow(s, usage)
  BY DEF Inv, SessionsFromWindow
<1> HIDE DEF s
<1>2. Owing(usage', s.since) = Owing(usage, s.since)
  BY <1>1, OwedStays
<1>3. Owing(usage', s.until) = Owing(usage, s.until)
  BY <1>1, OwedStays
<1>4. s.since \subseteq rows' /\ s.until \subseteq rows' /\ FromWindow(s, usage')
  BY <1>1, <1>2, <1>3 DEF FromWindow, Owed
<1> QED BY <1>4 DEF s

\* What is recorded disturbs no checkout.
LEMMA RecordingKeepsInv ==
  ASSUME Inv, rows \subseteq rows', RecordedOnce', RowsAreRecorded', TypeOK',
         \A d \in rows : usage'[d] = usage[d], UNCHANGED paying
  PROVE  Inv'
<1>1. UNCHANGED <<checkout, since, total, sessions>>
  BY DEF paying
<1>2. TotalsFromWindow'
  <2> SUFFICES ASSUME NEW k \in Clients
               PROVE  (/\ since[k] \subseteq rows
                       /\ checkout[k] = "priced" =>
                            /\ AtLeast(total[k], Subscription)
                            /\ AtMost(total[k], Owed(usage, rows))
                            /\ Cardinality(rows) <= Limit =>
                                 AtLeast(total[k], Owed(usage, since[k])))'
    BY DEF TotalsFromWindow
  <2> QED BY <1>1, WindowsStay
<1>3. SessionsFromWindow'
  BY <1>1, SessionsStay DEF SessionsFromWindow
<1> QED BY <1>2, <1>3 DEF Inv

\* The rows and the part of them that an invoice lists.
LEMMA ListedRows ==
  ASSUME TypeOK, RecordedOnce, RowsAreRecorded, NEW billed, billed = ToSet(Listed)
  PROVE  /\ IsFiniteSet(rows) /\ billed \subseteq rows
         /\ Len(Listed) = Cardinality(billed)
         /\ Cardinality(rows) <= Limit => billed = rows
         /\ rows \ billed # {} => store = "postgres" /\ Cardinality(billed) = Limit
         /\ \A e \in rows \ billed, d \in billed : Position(created, e) < Position(created, d)
<1> DEFINE limited == store = "postgres"
<1>1. /\ created \in Seq(Events) /\ IsInjective(created) /\ rows \in SUBSET ToSet(created)
      /\ limited \in BOOLEAN
  BY DEF TypeOK, RecordedOnce, RowsAreRecorded
<1>2. Listed = IF limited THEN FirstOf(ByAge(created, rows), Limit) ELSE ByAge(created, rows)
  BY DEF Listed, Newest
<1>3. /\ IsFiniteSet(rows) /\ ToSet(Listed) \subseteq rows
      /\ Len(Listed) = Cardinality(ToSet(Listed))
      /\ Cardinality(rows) <= Limit => ToSet(Listed) = rows
      /\ ~limited => ToSet(Listed) = rows
      /\ rows \ ToSet(Listed) # {} => Cardinality(ToSet(Listed)) = Limit
      /\ \A e \in rows \ ToSet(Listed), d \in ToSet(Listed) :
           Position(created, e) < Position(created, d)
  <2> HIDE DEF limited
  <2> QED BY <1>1, <1>2, ListedOf
<1> QED BY <1>3

\* After a step too an invoice lists all rows, below the limit.
LEMMA ListedAfter ==
  ASSUME TypeOK', RecordedOnce', RowsAreRecorded'
  PROVE  IsFiniteSet(rows') /\ (Cardinality(rows') <= Limit => ToSet(Listed)' = rows')
<1> DEFINE limited == store' = "postgres"
<1>1. /\ created' \in Seq(Events) /\ IsInjective(created') /\ rows' \in SUBSET ToSet(created')
      /\ limited \in BOOLEAN
  BY DEF TypeOK, RecordedOnce, RowsAreRecorded
<1>2. Listed' =
        IF limited THEN FirstOf(ByAge(created', rows'), Limit) ELSE ByAge(created', rows')
  BY DEF Listed, Newest
<1>3. ToSet(Listed)' = ToSet(Listed')
  BY DEF ToSet
<1> HIDE DEF limited
<1> QED BY <1>1, <1>2, <1>3, ListedOf

\* A charge is the sum of what was recorded.
LEMMA ChargeIsKnown ==
  ASSUME TypeOK, RecordedOnce, RowsAreRecorded, NEW S \in SUBSET rows
  PROVE  /\ ChargeOf(S) = Owing(usage, S) /\ Owing(usage, S) \in Nat
         /\ Owing(usage, rows) \in Nat /\ Owing(usage, S) <= Owing(usage, rows)
<1>1. IsFiniteSet(rows)
  BY ListedRows
<1>2. \A e \in rows : usage[e] \in Usages
  BY DEF RecordedOnce, RowsAreRecorded
<1> QED BY <1>1, <1>2, ChargeIsOwing, OwingGrows

\* The window of a checkout opens.
LEMMA CheckoutKeepsInv == ASSUME Inv, NEW k \in Clients, Checkout(k) PROVE Inv'
<1>1. /\ UNCHANGED <<store, created, usage, call, rows, audited, total, sessions>>
      /\ since' = [since EXCEPT ![k] = rows]
      /\ checkout' = [checkout EXCEPT ![k] = "reading"]
  BY DEF Checkout, recording
<1>2. TypeOK'
  BY <1>1 DEF Inv, TypeOK, Phases
<1>3. RecordedOnce' /\ RowsAreRecorded'
  BY <1>1 DEF Inv, RecordedOnce, RowsAreRecorded
<1>4. TotalsFromWindow'
  BY <1>1 DEF Inv, TypeOK, TotalsFromWindow, Phases
<1>5. SessionsFromWindow'
  BY <1>1 DEF Inv, SessionsFromWindow
<1> QED BY <1>2, <1>3, <1>4, <1>5 DEF Inv

LEMMA CheckoutFailsKeepsInv == ASSUME Inv, NEW k \in Clients, CheckoutFails(k) PROVE Inv'
<1>1. /\ UNCHANGED <<store, created, usage, call, rows, audited, since, total, sessions>>
      /\ checkout' = [checkout EXCEPT ![k] = "answered"]
  BY DEF CheckoutFails, recording
<1>2. TypeOK'
  BY <1>1 DEF Inv, TypeOK, Phases
<1>3. RecordedOnce' /\ RowsAreRecorded'
  BY <1>1 DEF Inv, RecordedOnce, RowsAreRecorded
<1>4. TotalsFromWindow'
  BY <1>1 DEF Inv, TypeOK, TotalsFromWindow, Phases
<1>5. SessionsFromWindow'
  BY <1>1 DEF Inv, SessionsFromWindow
<1> QED BY <1>2, <1>3, <1>4, <1>5 DEF Inv

\* The total is that of the events listed now, which are rows and, below the
\* limit, all of them: more than when the checkout was asked for.
LEMMA PriceKeepsInv == ASSUME Inv, NEW k \in Clients, Price(k) PROVE Inv'
<1> DEFINE billed == ToSet(Listed)
<1>1. PICK t \in Totals(billed) : total' = [total EXCEPT ![k] = t]
  BY DEF Price
<1>2. /\ UNCHANGED <<store, created, usage, call, rows, audited, since, sessions>>
      /\ checkout' = [checkout EXCEPT ![k] = "priced"]
  BY DEF Price, recording
<1>3. billed \in SUBSET rows /\ (Cardinality(rows) <= Limit => billed = rows)
  BY ListedRows DEF Inv
<1> HIDE DEF billed
<1>4. /\ ChargeOf(billed) = Owing(usage, billed) /\ Owing(usage, billed) \in Nat
      /\ Owing(usage, rows) \in Nat /\ Owing(usage, billed) <= Owing(usage, rows)
  BY <1>3, ChargeIsKnown DEF Inv
<1>5. since[k] \in SUBSET rows
  BY DEF Inv, TotalsFromWindow
<1>6. Owing(usage, since[k]) \in Nat /\ Owing(usage, since[k]) <= Owing(usage, rows)
  BY <1>5, ChargeIsKnown DEF Inv
<1>7. /\ t \in Nat
      /\ AtLeast(t, Subscription + Owing(usage, billed))
      /\ AtMost(t, Subscription + Owing(usage, billed))
  <2>1. Subscription + Owing(usage, billed) \in Nat
    BY <1>4 DEF Subscription, Cent
  <2>2. t \in RoundCents(Subscription + Owing(usage, billed))
    BY <1>1, <1>4 DEF Totals
  <2> QED BY <2>1, <2>2, Rounded DEF AtLeast, AtMost
<1>8. AtLeast(t, Subscription) /\ AtMost(t, Owed(usage, rows))
  BY <1>4, <1>7 DEF AtLeast, AtMost, Owed, Subscription, Cent
<1>9. Cardinality(rows) <= Limit => AtLeast(t, Owed(usage, since[k]))
  BY <1>3, <1>4, <1>6, <1>7 DEF AtLeast, Owed, Subscription, Cent
<1>10. TypeOK'
  BY <1>1, <1>2, <1>7 DEF Inv, TypeOK, Phases
<1>11. RecordedOnce' /\ RowsAreRecorded'
  BY <1>2 DEF Inv, RecordedOnce, RowsAreRecorded
<1>12. TotalsFromWindow'
  <2>1. total'[k] = t /\ \A c \in Clients \ {k} : total'[c] = total[c] /\ checkout'[c] = checkout[c]
    BY <1>1, <1>2 DEF Inv, TypeOK
  <2> QED BY <1>2, <1>5, <1>8, <1>9, <2>1 DEF Inv, TotalsFromWindow
<1>13. SessionsFromWindow'
  BY <1>2 DEF Inv, SessionsFromWindow
<1> QED BY <1>10, <1>11, <1>12, <1>13 DEF Inv

\* The least that Stripe takes is less than the subscription.
LEMMA UnitAmountIsTotal ==
  ASSUME NEW t \in Nat, AtLeast(t, Subscription)
  PROVE  UnitAmount(t) = t /\ t # 0
BY DEF AtLeast, Subscription, Cent, UnitAmount

\* The window of a session closes.
LEMMA CreateSessionKeepsInv == ASSUME Inv, NEW k \in Clients, CreateSession(k) PROVE Inv'
<1> DEFINE s == [cents |-> UnitAmount(total[k]), since |-> since[k], until |-> rows]
<1>1. /\ UNCHANGED <<store, created, usage, call, rows, audited, since, total>>
      /\ checkout' = [checkout EXCEPT ![k] = "answered"]
      /\ sessions' = [sessions EXCEPT ![k] = Append(@, s)]
  BY DEF CreateSession, recording
<1>2. /\ total[k] \in Nat /\ since[k] \subseteq rows
      /\ AtLeast(total[k], Subscription)
      /\ AtMost(total[k], Owed(usage, rows))
      /\ Cardinality(rows) <= Limit => AtLeast(total[k], Owed(usage, since[k]))
  BY DEF CreateSession, Inv, TypeOK, TotalsFromWindow
<1>3. UnitAmount(total[k]) = total[k] /\ total[k] # 0
  BY <1>2, UnitAmountIsTotal
<1>4. /\ s \in Sessions /\ FromWindow(s, usage)
      /\ s.since \subseteq rows /\ s.until \subseteq rows
  BY <1>2, <1>3 DEF Sessions, FromWindow, Inv, TypeOK
<1> HIDE DEF s
<1>5. sessions \in [Clients -> Seq(Sessions)]
  BY DEF Inv, TypeOK
<1>6. TypeOK'
  BY <1>1, <1>4, <1>5 DEF Inv, TypeOK, Phases
<1>7. RecordedOnce' /\ RowsAreRecorded'
  BY <1>1 DEF Inv, RecordedOnce, RowsAreRecorded
<1>8. TotalsFromWindow'
  BY <1>1 DEF Inv, TypeOK, TotalsFromWindow, Phases
<1>9. ASSUME NEW c \in Clients, NEW i \in DOMAIN sessions'[c]
      PROVE  sessions'[c][i] = s \/ (i \in DOMAIN sessions[c] /\ sessions'[c][i] = sessions[c][i])
  <2>1. CASE c # k
    BY <1>1, <1>5, <1>9, <2>1
  <2>2. CASE c = k
    <3>1. sessions'[c] = Append(sessions[c], s) /\ sessions[c] \in Seq(Sessions)
      BY <1>1, <1>5, <2>2
    <3> QED BY <1>4, <1>9, <3>1
  <2> QED BY <2>1, <2>2
<1>10. SessionsFromWindow'
  BY <1>1, <1>4, <1>9 DEF Inv, SessionsFromWindow
<1> QED BY <1>6, <1>7, <1>8, <1>10 DEF Inv

-----------------------------------------------------------------------------
\* What is recorded by a step, and that rows stay and their events report what
\* they did.
LEMMA StepKeepsRows ==
  ASSUME Inv, [Next]_vars
  PROVE  Inv' /\ rows \subseteq rows' /\ \A d \in rows : usage'[d] = usage[d]
<1>1. CASE \E e \in Events, u \in Bodies : PostUsage(e, u)
  <2>1. PICK e \in Events, u \in Bodies : PostUsage(e, u)
    BY <1>1
  <2>2. UNCHANGED paying
    BY <2>1 DEF PostUsage
  <2> QED BY <2>1, <2>2, PostUsageRecords, RecordingKeepsInv
<1>2. CASE \E e \in Events : InsertUsage(e) \/ InsertFails(e) \/ Reply(e)
  BY <1>2, StoringRecords, RecordingKeepsInv
<1>3. CASE \E k \in Clients : Checkout(k) \/ Price(k) \/ CreateSession(k) \/ CheckoutFails(k)
  <2>1. rows' = rows /\ usage' = usage
    BY <1>3 DEF Checkout, Price, CreateSession, CheckoutFails, recording
  <2>2. Inv'
    BY <1>3, CheckoutKeepsInv, PriceKeepsInv, CreateSessionKeepsInv, CheckoutFailsKeepsInv
  <2> QED BY <2>1, <2>2
<1>4. CASE UNCHANGED vars
  <2>1. UNCHANGED <<store, created, usage, call, rows, audited, checkout, since, total, sessions>>
    BY <1>4 DEF vars, recording, paying
  <2>2. TypeOK' /\ RecordedOnce' /\ RowsAreRecorded'
    BY <2>1 DEF Inv, TypeOK, RecordedOnce, RowsAreRecorded
  <2>3. TotalsFromWindow' /\ SessionsFromWindow'
    BY <2>1 DEF Inv, TotalsFromWindow, SessionsFromWindow
  <2> QED BY <2>1, <2>2, <2>3 DEF Inv
<1> QED BY <1>1, <1>2, <1>3, <1>4 DEF Next

\* The invariant holds in every reachable state.
THEOREM BillingInvariance == Spec => []Inv
<1>1. Inv /\ [Next]_vars => Inv'
  BY StepKeepsRows
<1> QED BY <1>1, InitInv, PTL DEF Spec

\* Every variable holds a value of its kind.
THEOREM BillingTypeCorrect == Spec => []TypeOK
<1>1. Inv => TypeOK
  BY DEF Inv
<1> QED BY <1>1, BillingInvariance, PTL

\* An invoice counts the events stored, but for older ones over the limit.
THEOREM InvoicesAreComplete == Spec => []InvoiceIsComplete
<1>1. Inv => InvoiceIsComplete
  <2> SUFFICES ASSUME Inv PROVE InvoiceIsComplete
    OBVIOUS
  <2>1. audited \subseteq rows
    BY DEF Inv, RowsAreRecorded
  <2> QED BY <2>1, ListedRows DEF InvoiceIsComplete, Inv
<1> QED BY <1>1, BillingInvariance, PTL

\* Its amounts, each rounded by itself, add up to within a cent.
THEOREM InvoicesAddUp == Spec => []InvoiceAddsUp
<1>1. Inv => InvoiceAddsUp
  <2> SUFFICES ASSUME Inv PROVE InvoiceAddsUp
    OBVIOUS
  <2> DEFINE billed == ToSet(Listed)
  <2>1. ChargeOf(billed) \in Nat
    BY ListedRows, ChargeIsKnown DEF Inv
  <2> HIDE DEF billed
  <2>2. ASSUME NEW u \in UsageTotals(billed), NEW t \in Totals(billed)
        PROVE  t - (Subscription \div Cent + u) \in -1..1
    <3>1. Subscription + ChargeOf(billed) \in Nat
      BY <2>1 DEF Subscription, Cent
    <3>2. /\ u \in Nat
          /\ 2 * Cent * u >= 2 * ChargeOf(billed) - Cent
          /\ 2 * Cent * u <= 2 * ChargeOf(billed) + Cent
      BY <2>1, Rounded DEF UsageTotals
    <3>3. /\ t \in Nat
          /\ 2 * Cent * t >= 2 * (Subscription + ChargeOf(billed)) - Cent
          /\ 2 * Cent * t <= 2 * (Subscription + ChargeOf(billed)) + Cent
      BY <3>1, Rounded DEF Totals
    <3> QED BY <2>1, <3>2, <3>3 DEF Subscription, Cent
  <2> QED BY <2>2 DEF InvoiceAddsUp, billed
<1> QED BY <1>1, BillingInvariance, PTL

\* A session charges an amount owed between the request and the session.
THEOREM AmountsFromWindow == Spec => []AmountFromWindow
<1>1. Inv => AmountFromWindow
  <2> SUFFICES ASSUME Inv, NEW k \in Clients, NEW i \in DOMAIN sessions[k]
               PROVE  LET s == sessions[k][i]
                          owed(S) == Subscription + ChargeOf(S)
                      IN  /\ 2 * Cent * s.cents <= 2 * owed(s.until) + Cent
                          /\ Cardinality(s.until) <= Limit =>
                               2 * Cent * s.cents >= 2 * owed(s.since) - Cent
    BY DEF AmountFromWindow
  <2>1. /\ sessions[k][i].since \subseteq rows /\ sessions[k][i].until \subseteq rows
        /\ FromWindow(sessions[k][i], usage)
    BY DEF Inv, SessionsFromWindow
  <2> QED BY <2>1, ChargeIsOwing DEF FromWindow, AtMost, AtLeast, Owed
<1> QED BY <1>1, BillingInvariance, PTL

\* Nothing that is recorded or paid makes the amount owed shrink, as long as
\* the events fit under the limit.
THEOREM WhatIsOwedGrows == Spec => OwedGrows
<1>1. ASSUME Inv, Inv', [Next]_vars, ~(Cardinality(rows') > Limit)
      PROVE  ChargeOf(ToSet(Listed)) <= ChargeOf(ToSet(Listed))'
  <2>1. rows \subseteq rows' /\ \A d \in rows : usage'[d] = usage[d]
    BY <1>1, StepKeepsRows
  <2>2. /\ RecordedOnce' /\ RowsAreRecorded' /\ TypeOK'
    BY <1>1 DEF Inv
  <2>3. Cardinality(rows') <= Limit /\ Cardinality(rows) <= Limit
    <3>1. IsFiniteSet(rows')
      BY <2>2, ListedAfter
    <3>2. Cardinality(rows') \in Nat
      BY <3>1, FS_CardinalityType
    <3>3. Cardinality(rows') <= Limit
      BY <1>1, <3>2, LimitAssumption
    <3> QED BY <2>1, <2>2, <3>3, RowsGrowInNumber
  <2>4. ToSet(Listed) = rows
    BY <1>1, <2>3, ListedRows DEF Inv
  <2>5. ToSet(Listed)' = rows'
    BY <2>2, <2>3, ListedAfter
  <2>6. ChargeOf(ToSet(Listed)) = Owing(usage, rows)
    BY <2>4, ChargeIsOwing
  <2>7. ChargeOf(ToSet(Listed))' = Owing(usage', rows')
    <3>1. ChargeOf(ToSet(Listed))' = Owing(usage', ToSet(Listed)')
      BY DEF ChargeOf, Charge, Owing, Cost, SumFunction
    <3> QED BY <2>5, <3>1
  <2> QED BY <1>1, <2>1, <2>2, <2>6, <2>7, OwedStays
<1>2. Inv /\ Inv' /\ [Next]_vars =>
        [Cardinality(rows') > Limit
           \/ ChargeOf(ToSet(Listed)) <= ChargeOf(ToSet(Listed))']_vars
  BY <1>1
<1> QED BY <1>2, BillingInvariance, PTL DEF Spec, OwedGrows
=============================================================================
