--------------------------- MODULE DashboardCache ---------------------------
(***************************************************************************)
(* GET /dashboard of one tenant: a payload of counts that readers compute  *)
(* from seven lists and keep in Redis for thirty seconds.  Writers never   *)
(* touch the cache.  The lists are read by queries of their own, in any    *)
(* order, and others write in between; a list is abstracted to the number  *)
(* of its rows, none of which is ever deleted.                             *)
(*                                                                         *)
(* A count is taken over what the query of its list returns, and that is   *)
(* not every row: over PostgreSQL all queries but that of the policies     *)
(* have a LIMIT, and the audit log also a retention, both of which it has  *)
(* in memory too.  The counts by status (the completion rate, the pending  *)
(* approvals) are taken over the same rows and are not told apart.         *)
(*                                                                         *)
(* Time is abstracted: an entry may expire at any moment after it is set,  *)
(* and a row may pass the retention at any moment after it is written.     *)
(***************************************************************************)
EXTENDS Integers

CONSTANTS
  Readers,    \* requests being served; one that was answered asks again
  Lists,      \* what the payload is computed from
  Policies,   \* the list that a read of an empty tenant seeds
  Limited,    \* the lists whose query has a LIMIT
  Limit,      \* that LIMIT: 500, for the usage events 2000
  Retained,   \* the lists whose query leaves out rows past a retention
  MaxRows,    \* bound on the rows of a list: in the end the writes end
  HasRedis,   \* REDIS_URL is set
  None        \* no value

ASSUME ListsAssumption == Policies \in Lists \ (Limited \cup Retained)
ASSUME LimitAssumption == Limit \in Nat \ {0}
ASSUME MaxAssumption == MaxRows \in Nat \ {0}
ASSUME RedisAssumption == HasRedis \in BOOLEAN

VARIABLES
  rows,    \* list -> the number of its rows
  old,     \* list -> how many of them, the oldest, are past the retention
  cache,   \* the payload under the dashboard key, or None
  busy,    \* the readers between a miss and their answer
  todo,    \* reader -> the lists not yet read
  seeds,   \* the readers that found no policies and will write the seed
  work,    \* reader -> the payload it computes
  answer   \* the payload that anybody was last answered with, or None

stored == <<rows, old>>
reading == <<busy, todo, work>>
vars == <<stored, cache, reading, seeds, answer>>

\* The counts shown, and, for the properties, what was stored and what was past
\* the retention when the reader began.
Counts  == [Lists -> 0..MaxRows]
Payload == [shown : Counts, since : Counts, gone : Counts]

Zero == [x \in Lists |-> 0]
Blank == [shown |-> Zero, since |-> Zero, gone |-> Zero]

\* Faults.
Ready_FirstResult(r) == r \in busy /\ todo[r] # Lists
NeedsSeed_Never(x)   == FALSE
Expirable_Never      == FALSE

\* Promise.all: the payload is computed when every list has been read.
Ready(r) == r \in busy /\ todo[r] = {}
NeedsSeed(x) == x = Policies /\ rows[x] = 0
\* How many rows the query of x returns of n, o of them past the retention.
Shown(x, n, o) == IF x \in Limited /\ n - o > Limit THEN Limit ELSE n - o
\* SET ... EX: what is stored expires.
Expirable == cache # None

-----------------------------------------------------------------------------
Init ==
  /\ rows = Zero /\ old = Zero
  /\ cache = None
  /\ busy = {}
  /\ todo = [r \in Readers |-> {}]
  /\ seeds = {}
  /\ work = [r \in Readers |-> Blank]
  /\ answer = None

\* Another request commits a row.
Write(x) ==
  /\ rows[x] < MaxRows
  /\ rows' = [rows EXCEPT ![x] = @ + 1]
  /\ UNCHANGED <<old, cache, reading, seeds, answer>>

\* The oldest row that is still shown passes the retention.
Age(x) ==
  /\ x \in Retained /\ old[x] < rows[x]
  /\ old' = [old EXCEPT ![x] = @ + 1]
  /\ UNCHANGED <<rows, cache, reading, seeds, answer>>

\* cacheGetJson: a payload is the answer, as old as it may be.
Hit(r) ==
  /\ r \notin busy /\ cache # None
  /\ answer' = cache
  /\ UNCHANGED <<stored, cache, reading, seeds>>

\* No entry, or no Redis: the queries are sent.
Miss(r) ==
  /\ r \notin busy /\ cache = None
  /\ busy' = busy \cup {r}
  /\ todo' = [todo EXCEPT ![r] = Lists]
  /\ work' = [work EXCEPT ![r] = [Blank EXCEPT !.since = rows, !.gone = old]]
  /\ UNCHANGED <<stored, cache, seeds, answer>>

\* One of the queries returns.
ReadList(r) == \E x \in todo[r] :
  /\ r \in busy /\ ~NeedsSeed(x) /\ ~(x = Policies /\ r \in seeds)
  /\ work' = [work EXCEPT ![r].shown[x] = Shown(x, rows[x], old[x])]
  /\ todo' = [todo EXCEPT ![r] = @ \ {x}]
  /\ UNCHANGED <<stored, cache, busy, seeds, answer>>

\* listGovernancePolicies found none ...
FindNoPolicies(r) == \E x \in todo[r] :
  /\ r \in busy /\ r \notin seeds /\ NeedsSeed(x)
  /\ seeds' = seeds \cup {r}
  /\ UNCHANGED <<stored, cache, reading, answer>>

\* ... and upserts the default policy, which may exist by now; then it reads
\* the list again.
WriteSeed(r) ==
  /\ r \in seeds
  /\ seeds' = seeds \ {r}
  /\ \E n \in {rows[Policies], rows[Policies] + 1} :
       n \in 1..MaxRows /\ rows' = [rows EXCEPT ![Policies] = n]
  /\ UNCHANGED <<old, cache, reading, answer>>

\* cacheSetJson replaces whatever is there, then the answer is sent; or the
\* reply of Redis is lost and the client gets an error.
SetCache(r) ==
  /\ Ready(r)
  /\ cache' = IF HasRedis THEN work[r] ELSE cache
  /\ busy' = busy \ {r}
  /\ work' = [work EXCEPT ![r] = Blank]
  /\ answer' = work[r] \/ (HasRedis /\ UNCHANGED answer)
  /\ UNCHANGED <<stored, todo, seeds>>

\* A query or Redis fails, or the process dies.  A seed still in flight is
\* then one more Write.
Fail(r) ==
  /\ r \in busy
  /\ busy' = busy \ {r}
  /\ todo' = [todo EXCEPT ![r] = {}]
  /\ seeds' = seeds \ {r}
  /\ work' = [work EXCEPT ![r] = Blank]
  /\ UNCHANGED <<stored, cache, answer>>

Expire ==
  /\ Expirable
  /\ cache' = None
  /\ UNCHANGED <<stored, reading, seeds, answer>>

-----------------------------------------------------------------------------
Progress(r) == \/ ReadList(r) \/ FindNoPolicies(r) \/ WriteSeed(r) \/ SetCache(r)

Next ==
  \/ \E x \in Lists : Write(x) \/ Age(x)
  \/ \E r \in Readers : Hit(r) \/ Miss(r) \/ Progress(r) \/ Fail(r)
  \/ Expire

Spec == Init /\ [][Next]_vars

\* Queries are answered and entries expire; nobody has to ask or to write.
FairSpec == Spec /\ WF_vars(Expire) /\ \A r \in Readers : WF_vars(Progress(r))

-----------------------------------------------------------------------------
\* Every variable holds a value of its kind.
TypeOK ==
  /\ rows \in Counts /\ old \in Counts
  /\ \A x \in Lists : old[x] <= IF x \in Retained THEN rows[x] ELSE 0
  /\ cache \in Payload \cup {None}
  /\ busy \subseteq Readers
  /\ todo \in [Readers -> SUBSET Lists]
  /\ seeds \subseteq busy
  /\ work \in [Readers -> Payload]
  /\ answer \in Payload \cup {None}

Given == {cache, answer} \ {None}

\* A dashboard is no snapshot, but each of its counts is what the query of the
\* list shows of the rows of some moment, and with the retention of some moment,
\* after its reader began: below the limit none of them is missing, and none is
\* made up.
CountsAreFromTheWindow ==
  \A p \in Given, x \in Lists :
    \E n \in p.since[x]..rows[x], o \in p.gone[x]..old[x] : p.shown[x] = Shown(x, n, o)

\* No dashboard shows a tenant without policies: reading seeds them first.
PoliciesAreSeeded == \A p \in Given : p.shown[Policies] >= 1

\* Nobody invalidates the cache and a slow reader can replace a new payload
\* by an old one; still, once no row is written and none passes the retention,
\* the cache ends up with what the queries show and stays so.
CacheSettles ==
  <>[](cache # None => cache.shown = [x \in Lists |-> Shown(x, rows[x], old[x])])
=============================================================================
