------------------------- MODULE VersionPagesProofs -------------------------
(***************************************************************************)
(* A walk through the pages of a history steps over no version, whatever   *)
(* the length of the history, the limits and the filters; and in memory    *)
(* mode it ends only when it has read everything it set out to read.       *)
(*                                                                         *)
(* The reason is that a version only moves to later pages: an append can   *)
(* raise its rank and nothing lowers it.  So when a page ends at rank k,   *)
(* every version the walk began with and that has rank at most k has been  *)
(* sent (ReadSoFar), although the ranks have changed since.                *)
(***************************************************************************)
EXTENDS VersionPages, FiniteSetTheorems, TLAPS

\* The last rank the walk has been sent, or is about to ask from.
Covered == IF pc \in {"more", "end"} THEN offset + limit ELSE offset

StartMatches == start \subseteq Matching
ReadSoFar == \A n \in start : Rank(n) <= Covered => n \in seen

TwoStatements == pc = "page" => store # "memory"

Inv == /\ TypeOK /\ StartMatches /\ TwoStatements /\ ReadSoFar /\ NoHoles
       /\ CompleteInMemory /\ CompleteUnlessGrown

-----------------------------------------------------------------------------
\* Clamped is in range whatever the query string holds.
LEMMA ClampedInRange ==
  ASSUME NEW asked \in AskedLimits
  PROVE  Clamped(asked) \in 1..MaxLimit
BY LimitAssumption, AskedAssumption DEF Clamped

\* The matching versions are finitely many numbers.
LEMMA MatchingFinite ==
  ASSUME TypeOK
  PROVE  Matching \subseteq Nat /\ IsFiniteSet(Matching) /\ Cardinality(Matching) \in Nat
<1>1. DOMAIN history = 1..Len(history) /\ Len(history) \in Nat
  BY DEF TypeOK
<1>2. IsFiniteSet(1..Len(history))
  BY <1>1, FS_Interval
<1>3. Matching \in SUBSET (1..Len(history))
  BY <1>1 DEF Matching
<1>4. IsFiniteSet(Matching)
  BY <1>2, <1>3, FS_Subset
<1> QED
  BY <1>1, <1>3, <1>4, FS_CardinalityType

\* A rank is a number up to the count, and at least 1 if its version matches.
LEMMA RankType ==
  ASSUME TypeOK, NEW n
  PROVE  /\ Rank(n) \in Nat
         /\ Rank(n) <= Cardinality(Matching)
         /\ n \in Matching => Rank(n) >= 1
<1> DEFINE After == {m \in Matching : m >= n}
<1>1. IsFiniteSet(Matching) /\ Matching \subseteq Nat
  BY MatchingFinite
<1>2. IsFiniteSet(After) /\ Cardinality(After) <= Cardinality(Matching)
  BY <1>1, FS_Subset
<1>3. Cardinality(After) \in Nat
  BY <1>2, FS_CardinalityType
<1>4. ASSUME n \in Matching PROVE Cardinality(After) >= 1
  <2>1. n \in After
    BY <1>1, <1>4
  <2>2. Cardinality(After) # 0
    BY <2>1, <1>2, FS_EmptySet
  <2> QED BY <2>2, <1>3
<1> QED
  BY <1>2, <1>3, <1>4 DEF Rank

\* The part of it that is used of the next state.
LEMMA RankPositive == TypeOK => \A n \in Matching : Rank(n) \in Nat /\ Rank(n) >= 1
BY RankType

\* A later version never has a higher rank.
LEMMA RankMonotone ==
  ASSUME TypeOK, NEW n \in Matching, NEW m \in Matching, m <= n
  PROVE  Rank(n) <= Rank(m)
<1> DEFINE From(k) == {j \in Matching : j >= k}
<1>1. IsFiniteSet(Matching) /\ Matching \subseteq Nat
  BY MatchingFinite
<1>2. IsFiniteSet(From(m))
  BY <1>1, FS_Subset
<1>3. From(n) \in SUBSET From(m)
  <2>1. n \in Nat /\ m \in Nat
    BY <1>1
  <2>2. \A j \in Nat : j >= n => j >= m
    BY <2>1
  <2> QED BY <1>1, <2>2
<1>4. Cardinality(From(n)) <= Cardinality(From(m))
  BY <1>2, <1>3, FS_Subset
<1> QED
  BY <1>4 DEF Rank

\* An append only adds to what matches.
LEMMA MatchingGrows ==
  ASSUME TypeOK, TypeOK', AppendVersion
  PROVE  /\ Matching \subseteq Matching' /\ Matching' \subseteq Nat
         /\ IsFiniteSet(Matching')
         /\ Cardinality(Matching) <= Cardinality(Matching')
         /\ Cardinality(Matching) \in Nat /\ Cardinality(Matching') \in Nat
<1>1. PICK m \in Marks : history' = Append(history, m)
  BY DEF AppendVersion
<1>2. DOMAIN history = 1..Len(history) /\ Len(history) \in Nat
  BY DEF TypeOK
<1>3. DOMAIN history' = 1..(Len(history) + 1)
  BY <1>1, <1>2 DEF TypeOK
<1>4. \A k \in 1..Len(history) : history'[k] = history[k]
  BY <1>1, <1>2 DEF TypeOK
<1>5. Matching \subseteq Matching'
  BY <1>2, <1>3, <1>4 DEF Matching, AppendVersion, walk
<1>6. IsFiniteSet(1..(Len(history) + 1)) /\ 1..(Len(history) + 1) \subseteq Nat
  BY <1>2, FS_Interval
<1>7. Matching' \in SUBSET (1..(Len(history) + 1))
  BY <1>3 DEF Matching
<1>8. IsFiniteSet(Matching')
  BY <1>6, <1>7, FS_Subset
<1>9. Cardinality(Matching) <= Cardinality(Matching')
  BY <1>5, <1>8, FS_Subset
<1>10. Cardinality(Matching) \in Nat /\ Cardinality(Matching') \in Nat
  BY <1>8, MatchingFinite, FS_CardinalityType
<1> QED
  BY <1>5, <1>6, <1>7, <1>8, <1>9, <1>10

\* An append moves nothing to an earlier page.
LEMMA RankGrows ==
  ASSUME TypeOK, TypeOK', AppendVersion, NEW n \in Matching
  PROVE  n \in Matching' /\ Rank(n) <= Rank(n)' /\ Rank(n)' \in Nat
<1>5. Matching \subseteq Matching'
  BY MatchingGrows
<1> DEFINE Old == {j \in Matching : j >= n}
           New == {j \in Matching' : j >= n}
<1>6. IsFiniteSet(Matching') /\ Matching' \subseteq Nat
  BY MatchingGrows
<1>7. IsFiniteSet(New) /\ Cardinality(New) \in Nat
  BY <1>6, FS_Subset, FS_CardinalityType
<1>8. Old \in SUBSET New
  BY <1>5
<1>9. Cardinality(Old) <= Cardinality(New)
  BY <1>7, <1>8, FS_Subset
<1> QED
  BY <1>5, <1>7, <1>9 DEF Rank

-----------------------------------------------------------------------------
LEMMA InitInv == Init => Inv
<1> SUFFICES ASSUME Init PROVE Inv
  OBVIOUS
<1>1. TypeOK
  BY LimitAssumption DEF Init, TypeOK
<1> QED
  BY <1>1 DEF Init, Inv, StartMatches, TwoStatements, ReadSoFar, NoHoles, CompleteInMemory,
              CompleteUnlessGrown, Complete

\* Each step keeps the types.
LEMMA TypeStep == TypeOK /\ [Next]_vars => TypeOK'
<1> SUFFICES ASSUME TypeOK, [Next]_vars PROVE TypeOK'
  OBVIOUS
<1> USE DEF TypeOK, vars, walk
<1>1. CASE AppendVersion
  BY <1>1 DEF AppendVersion
<1>2. CASE FirstPage
  <2>1. PICK asked \in AskedLimits, f \in SUBSET Marks :
          limit' = Clamped(asked) /\ filter' = f
    BY <1>2 DEF FirstPage
  <2>2. limit' \in 1..MaxLimit
    BY <2>1, ClampedInRange
  <2> QED BY <1>2, <2>1, <2>2 DEF FirstPage
<1>3. CASE NextPage
  BY <1>3, LimitAssumption DEF NextPage, Resume
<1>4. CASE Count
  BY <1>4, MatchingFinite DEF Count
<1>5. CASE SelectPage
  BY <1>5 DEF SelectPage, Answer, Rows, Matching
<1>6. CASE FilterItems
  BY <1>6, MatchingFinite DEF FilterItems, Answer, Rows, Matching
<1>7. CASE QueryFails
  BY <1>7 DEF QueryFails
<1>8. CASE UNCHANGED vars
  BY <1>8
<1> QED
  BY <1>1, <1>2, <1>3, <1>4, <1>5, <1>6, <1>7, <1>8 DEF Next

\* An answer sends the ranks offset+1 to offset+limit; what has a lower rank
\* was sent before.
LEMMA AnswerInv ==
  ASSUME Inv, TypeOK', NEW count \in Nat, Answer(count), pc \in {"count", "page"},
         store = "memory" => count = Cardinality(Matching)
  PROVE  Inv'
<1> USE DEF Inv, TypeOK
<1>1. Matching' = Matching /\ \A n : Rank(n)' = Rank(n)
  BY DEF Answer, Matching, Rank
<1>2. limit \in Nat /\ offset \in Nat /\ limit' = limit /\ offset' = offset /\ start' = start
  BY LimitAssumption DEF Answer
<1>3. \A n \in start : Rank(n) <= offset + limit => n \in seen'
  <2> SUFFICES ASSUME NEW n \in start, Rank(n) <= offset + limit PROVE n \in seen'
    OBVIOUS
  <2>1. n \in Matching /\ Rank(n) \in Nat
    BY RankType DEF StartMatches
  <2>2. CASE Rank(n) <= offset
    BY <2>2 DEF ReadSoFar, Covered, Answer
  <2>3. CASE Rank(n) > offset
    BY <2>1, <2>3 DEF Answer, Rows
  <2> QED BY <1>2, <2>1, <2>2, <2>3
<1>4. Covered' = offset + limit
  BY DEF Covered, Answer
<1>5. StartMatches' /\ ReadSoFar'
  BY <1>1, <1>2, <1>3, <1>4 DEF StartMatches, ReadSoFar
<1>6. NoHoles'
  <2> SUFFICES ASSUME NEW n \in start, NEW m \in seen', m <= n PROVE n \in seen'
    BY <1>2 DEF NoHoles
  <2>1. CASE m \in seen
    BY <2>1 DEF NoHoles, Answer
  <2>2. CASE m \in Rows
    <3>1. n \in Matching /\ m \in Matching /\ Rank(m) <= offset + limit
      BY <2>2 DEF StartMatches, Rows
    <3>2. Rank(n) <= Rank(m)
      BY <3>1, RankMonotone
    <3>3. Rank(n) <= offset + limit
      BY <1>2, <3>1, <3>2, RankType
    <3> QED BY <1>3, <3>3
  <2> QED BY <2>1, <2>2 DEF Answer
<1>7. CompleteInMemory'
  <2> SUFFICES ASSUME store = "memory", pc' = "end", NEW n \in start PROVE n \in seen'
    BY <1>2 DEF CompleteInMemory, Complete, Answer
  <2>1. ~(offset + limit < count)
    BY DEF Answer, HasMore
  <2>2. Rank(n) <= count /\ Rank(n) \in Nat
    BY RankType
  <2>3. Rank(n) <= offset + limit
    BY <1>2, <2>1, <2>2
  <2> QED BY <1>3, <2>3
<1>8. CompleteUnlessGrown'
  <2> SUFFICES ASSUME pc' = "end", NEW n \in start, ~(Cardinality(Matching) > count)
               PROVE  n \in seen'
    BY <1>1, <1>2 DEF CompleteUnlessGrown, Answer
  <2>1. ~(offset + limit < count)
    BY DEF Answer, HasMore
  <2>2. /\ Rank(n) <= Cardinality(Matching) /\ Rank(n) \in Nat
        /\ Cardinality(Matching) \in Nat
    BY RankType, MatchingFinite
  <2>3. Rank(n) <= offset + limit
    BY <1>2, <2>1, <2>2
  <2> QED BY <1>3, <2>3
<1>9. TwoStatements'
  BY DEF Answer, TwoStatements
<1> QED BY <1>5, <1>6, <1>7, <1>8, <1>9

\* Each step keeps the invariant.
LEMMA NextInv == Inv /\ [Next]_vars => Inv'
<1> SUFFICES ASSUME Inv, [Next]_vars PROVE Inv'
  OBVIOUS
<1>1. TypeOK /\ TypeOK'
  BY TypeStep DEF Inv
<1>2. CASE AppendVersion
  <2>1. UNCHANGED <<store, pc, filter, limit, offset, total, seen, start>>
    BY <1>2 DEF AppendVersion, walk
  <2>2. \A n \in start : n \in Matching' /\ Rank(n) <= Rank(n)' /\ Rank(n) \in Nat
                         /\ Rank(n)' \in Nat
    BY <1>1, <1>2, RankGrows, RankType DEF Inv, StartMatches
  <2>3. StartMatches'
    BY <2>1, <2>2 DEF StartMatches
  <2>4. ReadSoFar'
    <3> SUFFICES ASSUME NEW n \in start, Rank(n)' <= Covered PROVE n \in seen
      BY <2>1 DEF ReadSoFar, Covered
    <3>1. Covered \in Nat
      BY <1>1, LimitAssumption DEF TypeOK, Covered
    <3>2. Rank(n) <= Covered
      BY <2>2, <3>1
    <3> QED BY <3>2 DEF Inv, ReadSoFar
  <2>5. NoHoles' /\ CompleteInMemory' /\ TwoStatements'
    BY <2>1 DEF Inv, NoHoles, CompleteInMemory, Complete, TwoStatements
  <2>6. CompleteUnlessGrown'
    <3>1. total \in Nat
      BY <1>1 DEF TypeOK
    <3>2. Cardinality(Matching) > total => Cardinality(Matching') > total
      BY <1>1, <1>2, <3>1, MatchingGrows
    <3> QED BY <2>1, <3>2 DEF Inv, CompleteUnlessGrown
  <2> QED BY <1>1, <2>3, <2>4, <2>5, <2>6 DEF Inv
<1>3. CASE FirstPage
  <2>1. start' = Matching' /\ seen' = {} /\ offset' = 0 /\ pc' = "count"
    BY <1>3 DEF FirstPage, Matching
  <2>2. \A n \in start' : Rank(n)' \in Nat /\ Rank(n)' >= 1
    <3>1. (TypeOK => \A n \in Matching : Rank(n) \in Nat /\ Rank(n) >= 1)'
      BY RankPositive, PTL
    <3> QED BY <1>1, <2>1, <3>1
  <2>3. ReadSoFar'
    BY <2>1, <2>2 DEF ReadSoFar, Covered
  <2> QED BY <1>1, <2>1, <2>3 DEF Inv, StartMatches, NoHoles, CompleteInMemory,
                                  CompleteUnlessGrown, Complete, TwoStatements
<1>4. CASE SelectPage
  <2>1. total \in Nat /\ pc = "page" /\ store # "memory"
    BY <1>1, <1>4 DEF SelectPage, TypeOK, Inv, TwoStatements
  <2> QED BY <1>1, <1>4, <2>1, AnswerInv DEF SelectPage, Inv
<1>5. CASE FilterItems
  BY <1>1, <1>5, MatchingFinite, AnswerInv DEF FilterItems
<1>6. ASSUME UNCHANGED <<store, history, filter, limit, seen, start>>,
             Covered' = Covered, pc' # "end" \/ (pc' = pc /\ total' = total),
             pc' = "page" => pc = "page" \/ store = "postgres"
      PROVE  Inv'
  <2>1. Matching' = Matching /\ \A n : Rank(n)' = Rank(n)
    BY <1>6 DEF Matching, Rank
  <2>2. StartMatches' /\ ReadSoFar' /\ NoHoles'
    BY <1>6, <2>1 DEF Inv, StartMatches, ReadSoFar, NoHoles
  <2>3. CompleteInMemory' /\ CompleteUnlessGrown' /\ TwoStatements'
    BY <1>6, <2>1 DEF Inv, CompleteInMemory, CompleteUnlessGrown, Complete, TwoStatements
  <2> QED BY <1>1, <2>2, <2>3 DEF Inv
<1>7. CASE NextPage
  BY <1>6, <1>7 DEF NextPage, Resume, Covered
<1>8. CASE Count
  BY <1>6, <1>8 DEF Count, Covered
<1>9. CASE QueryFails
  BY <1>6, <1>9 DEF QueryFails, Covered, walk
<1>10. CASE UNCHANGED vars
  BY <1>6, <1>10 DEF vars, walk, Covered
<1> QED
  BY <1>2, <1>3, <1>4, <1>5, <1>7, <1>8, <1>9, <1>10 DEF Next

-----------------------------------------------------------------------------
\* The invariant holds in every reachable state.
THEOREM WalkInvariance == Spec => []Inv
BY InitInv, NextInv, PTL DEF Spec

\* Types, and the range of the limit that Clamped computes.
THEOREM PagesTypeCorrect == Spec => []TypeOK
BY WalkInvariance, PTL DEF Inv

\* A walk steps over no version, however many are appended while it lasts.
THEOREM WalksHaveNoHoles == Spec => []NoHoles
BY WalkInvariance, PTL DEF Inv

\* Without a database, where count and page are one step, the end is the end.
THEOREM MemoryWalksAreComplete == Spec => []CompleteInMemory
BY WalkInvariance, PTL DEF Inv

\* With one, a walk that ends short of what it set out to read was overtaken
\* by a commit after its last COUNT.
THEOREM WalksAreCompleteUnlessGrown == Spec => []CompleteUnlessGrown
BY WalkInvariance, PTL DEF Inv
\* The two together: what the end of a walk is worth.
THEOREM WalksAreComplete == Spec => []CompleteOrGrown
BY MemoryWalksAreComplete, WalksAreCompleteUnlessGrown, PTL DEF CompleteOrGrown
=============================================================================
