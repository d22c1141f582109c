---------------------------- MODULE VersionPages ----------------------------
(***************************************************************************)
(* GET /policies/:id/versions, and a client that reads the history of one  *)
(* policy page by page until hasMore is false, while others append to it.  *)
(* PolicyStore shows that versions are numbered 1..n and only appended;    *)
(* here a version is its number and what the filters can see of it.        *)
(*                                                                         *)
(* Over PostgreSQL the COUNT and the page are two statements of their own  *)
(* snapshots; the in-memory fallback computes both in one turn.  Walks     *)
(* only read, so one is modelled.                                          *)
(***************************************************************************)
EXTENDS Integers, Sequences, FiniteSets

CONSTANTS
  Marks,         \* what changedBy, startDate and endDate tell versions apart by
  Stores,        \* the storage modes of a behaviour: "postgres", "memory"
  AskedLimits,   \* ?limit= as parsed: an integer, or NoNumber
  DefaultLimit,  \* 50
  MaxLimit,      \* 500
  MaxVersions,   \* bound on the history
  NoNumber       \* absent, or parseInt gave NaN

ASSUME StoresAssumption == Stores \subseteq {"postgres", "memory"}
ASSUME LimitAssumption == DefaultLimit \in 1..MaxLimit /\ MaxLimit \in Nat
ASSUME AskedAssumption == AskedLimits \subseteq Int \cup {NoNumber} /\ NoNumber \notin Int

VARIABLES
  store,    \* the mode the process started in
  history,  \* the marks of versions 1..n
  pc,       \* "idle", "count", "page", "more" (answered, hasMore) or "end"
  filter,   \* the marks the walk asks for
  limit,    \* the limit in force
  offset,   \* of the page asked for
  total,    \* result of the COUNT
  seen,     \* the versions received in this walk
  start     \* the matching versions when the walk began

walk == <<filter, limit, offset, total, seen, start>>
vars == <<store, history, pc, walk>>

Matching == {n \in DOMAIN history : history[n] \in filter}

\* Position in ORDER BY version_no DESC.
Rank(n) == Cardinality({m \in Matching : m >= n})

\* Faults.
Clamped_NoCap(asked) == IF asked = NoNumber THEN DefaultLimit
                        ELSE IF asked < 0 THEN 0 ELSE asked
Rows_OffByOne  == {n \in Matching : Rank(n) > offset + 1 /\ Rank(n) <= offset + limit}
HasMore_LastRow(count) == offset + limit + 1 < count

\* Math.min(Math.max(limit || 50, 1), 500), applied by handler and repository.
Clamped(asked) ==
  IF asked = NoNumber THEN DefaultLimit
  ELSE IF asked < 1 THEN 1 ELSE IF asked > MaxLimit THEN MaxLimit ELSE asked

Rows == {n \in Matching : Rank(n) > offset /\ Rank(n) <= offset + limit}
HasMore(count) == offset + limit < count

\* The client asks for the page after the one it was given.
Resume == offset + limit

-----------------------------------------------------------------------------
Init ==
  /\ store \in Stores
  /\ history = <<>>
  /\ pc = "idle"
  /\ filter = {} /\ limit = 1 /\ offset = 0 /\ total = 0
  /\ seen = {} /\ start = {}

\* A policy write commits its version.
AppendVersion == \E m \in Marks :
  /\ Len(history) < MaxVersions
  /\ history' = Append(history, m)
  /\ UNCHANGED <<store, pc, walk>>

\* The first page of a new walk.
FirstPage == \E asked \in AskedLimits, f \in SUBSET Marks :
  /\ pc \in {"idle", "end"}
  /\ pc' = "count"
  /\ filter' = f
  /\ limit' = Clamped(asked)
  /\ offset' = 0 /\ total' = 0 /\ seen' = {}
  /\ start' = {n \in DOMAIN history : history[n] \in f}
  /\ UNCHANGED <<store, history>>

NextPage ==
  /\ pc = "more"
  /\ pc' = "count"
  /\ offset' = Resume
  /\ UNCHANGED <<store, history, filter, limit, total, seen, start>>

\* SELECT COUNT(*).
Count ==
  /\ pc = "count" /\ store = "postgres"
  /\ total' = Cardinality(Matching)
  /\ pc' = "page"
  /\ UNCHANGED <<store, history, filter, limit, offset, seen, start>>

Answer(count) ==
  /\ total' = count
  /\ seen' = seen \cup Rows
  /\ pc' = IF HasMore(count) THEN "more" ELSE "end"
  /\ UNCHANGED <<store, history, filter, limit, offset, start>>

\* SELECT ... LIMIT OFFSET, and the answer.
SelectPage == pc = "page" /\ Answer(total)

\* The in-memory branch.
FilterItems == pc = "count" /\ store = "memory" /\ Answer(Cardinality(Matching))

\* A statement fails; the client asks for the same page again.
QueryFails ==
  /\ pc \in {"count", "page"} /\ store = "postgres"
  /\ pc' = "count"
  /\ UNCHANGED <<store, history, walk>>

Next == \/ AppendVersion \/ FirstPage \/ NextPage
        \/ Count \/ SelectPage \/ FilterItems \/ QueryFails

Spec == Init /\ [][Next]_vars

-----------------------------------------------------------------------------
\* Every variable holds a value of its kind; the limit in force is in range
\* whatever was asked for.
TypeOK ==
  /\ store \in Stores
  /\ history \in Seq(Marks)
  /\ pc \in {"idle", "count", "page", "more", "end"}
  /\ filter \subseteq Marks
  /\ limit \in 1..MaxLimit /\ offset \in Nat /\ total \in Nat
  /\ seen \subseteq DOMAIN history /\ start \subseteq DOMAIN history

\* Versions appended during the walk push the others to later pages, so a
\* walk may see a version twice but never steps over one: of the versions it
\* set out to read it has all down to the lowest it has seen.
NoHoles == \A n \in start : (\E m \in seen : m <= n) => n \in seen

\* A walk that has ended has read every version that was there when it began.
Complete == pc = "end" => start \subseteq seen

\* The in-memory fallback, which counts and pages in one turn, promises that.
CompleteInMemory == store = "memory" => Complete

\* Over PostgreSQL hasMore compares with a COUNT older than the page.  A walk
\* told that there is no more may miss versions only if one was committed
\* after that COUNT: a client that counts as many as it was told has them all.
CompleteUnlessGrown ==
  pc = "end" => start \subseteq seen \/ Cardinality(Matching) > total

\* So a walk that is told there is no more has what it came for, with the one
\* exception that the code cannot rule out.
CompleteOrGrown == CompleteInMemory /\ CompleteUnlessGrown
=============================================================================
