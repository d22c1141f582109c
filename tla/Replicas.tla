------------------------------ MODULE Replicas ------------------------------
(***************************************************************************)
(* The API processes, from bootstrap to crash, and what each of them keeps *)
(* for itself: the pool that decides whether it serves from PostgreSQL or  *)
(* from memory, its copy of the audit log and its tenant directory.  The   *)
(* traffic is POST /contacts, whose rows and audit entries go to the table *)
(* or stay in the process.                                                 *)
(*                                                                         *)
(* The pool is chosen once, by bootstrap.  A start whose migrations fail   *)
(* has none although DATABASE_URL is set, and serves from memory from then *)
(* on; a start whose SELECT 1 fails keeps it; and one whose SELECT 1 is    *)
(* never answered never listens, as nothing limits that wait.  The         *)
(* database may come and go at any time; knex (external) may also refuse   *)
(* for reasons of its own, such as another replica's migration or the lock *)
(* of a crashed one.  Processes die as often as they like.                 *)
(***************************************************************************)
EXTENDS Listing

CONSTANTS
  Replicas,   \* the processes
  Contacts,   \* the contacts that clients create, each by one POST
  ListLimit,  \* the LIMIT of GET /contacts: 500
  None        \* no value

ASSUME NoneAssumption == None \notin Replicas /\ None \notin {"active", "suspended"}
ASSUME LimitAssumption == ListLimit \in Nat \ {0}

VARIABLES
  configured, \* DATABASE_URL is set
  migrates,   \* RUN_MIGRATIONS_ON_START is "true"
  db,         \* the database answers, refuses, or accepts and never answers
  phase,      \* replica -> how far its bootstrap is
  pool,       \* the replicas that have a pool
  created,    \* the contacts in the order of their createdAt
  call,       \* contact -> the state of its POST
  at,         \* contact -> the process its POST went to, None once that is gone
  table,      \* the rows of crm_contacts
  memory,     \* replica -> tenant.crm.contacts, newest first
  stamped,    \* the contacts with an audit entry, in the order of its "at"
  log,        \* replica -> tenant.governance.auditLog, newest first
  inserts,    \* the audit inserts that were sent and not answered
  audited,    \* the rows of governance_audit_logs
  status      \* replica -> the tenant's status in its directory, or None

config    == <<configured, migrates>>
rows      == <<table, audited>>
posts     == <<created, call, at>>
audit     == <<stamped, log, inserts>>
process   == <<phase, pool>>
vars == <<config, db, process, posts, rows, memory, audit, status>>

Phases == {"down", "migrate", "connect", "serving"}
Calls  == {"new", "sent", "stored", "failed", "lost", "done"}
Statuses == {"active", "suspended"}
Database == {"up", "away", "silent"}

\* Faults.
HasPostgres_Always == TRUE
PoolKept_OnlyIfUp == db = "up"
AfterFailedMigration_Retry == "migrate"
Ready_NotAwaited(c) == call[c] \in {"sent", "stored"}
Touched_Reset(h) == [status EXCEPT ![h] = "active"]
Newest_SliceFirst(s, S, n) == Those(FirstOf(s, n), S)

-----------------------------------------------------------------------------
HasPostgres == configured
\* The pool is assigned before SELECT 1 is tried.
PoolKept == TRUE
\* A failed migration is caught, warned about and passed over.
AfterFailedMigration == "serving"
\* The row is awaited before the audit entry is made and 201 is sent.
Ready(c) == call[c] = "stored"
\* getTenantState makes a record only where there is none.
Touched(h) == [status EXCEPT ![h] = IF @ = None THEN "active" ELSE @]

\* Of a sequence that is newest first, the n first of those in S.
Newest(s, S, n) == FirstOf(Those(s, S), n)

\* GET /contacts and GET /audit of a replica; the filters of the audit query
\* (actor, action, dates, retention) are the set S of entries that pass them.
Listed(h) == IF h \in pool THEN FirstOf(ByAge(created, table), ListLimit) ELSE memory[h]
AuditPage(h, S, n) ==
  IF h \in pool THEN FirstOf(ByAge(stamped, audited \cap S), n) ELSE Newest(log[h], S, n)

-----------------------------------------------------------------------------
Init ==
  /\ configured \in BOOLEAN /\ migrates \in BOOLEAN /\ db \in Database
  /\ phase = [h \in Replicas |-> "down"]
  /\ pool = {}
  /\ created = <<>>
  /\ call = [c \in Contacts |-> "new"]
  /\ at = [c \in Contacts |-> None]
  /\ table = {} /\ audited = {}
  /\ memory = [h \in Replicas |-> <<>>]
  /\ log = [h \in Replicas |-> <<>>]
  /\ stamped = <<>> /\ inserts = {}
  /\ status = [h \in Replicas |-> None]

Goto(h, p) == phase' = [phase EXCEPT ![h] = p]

\* A bootstrap that waits for the database goes on when that answers or fails
\* (a wait that times out is a database that is away for a moment).
Answers == configured => db # "silent"

Start(h) ==
  /\ phase[h] = "down"
  /\ Goto(h, IF migrates THEN "migrate" ELSE "connect")
  /\ UNCHANGED <<config, db, pool, posts, rows, memory, audit, status>>

\* runMigrations returns, at once if there is no DATABASE_URL, or throws.
Migrate(h) ==
  /\ phase[h] = "migrate" /\ Answers
  /\ \/ (configured => db = "up") /\ Goto(h, "connect")
     \/ configured /\ Goto(h, AfterFailedMigration)
  /\ UNCHANGED <<config, db, pool, posts, rows, memory, audit, status>>

\* initPostgres, whose SELECT 1 succeeds or fails; then listen.
Connect(h) ==
  /\ phase[h] = "connect" /\ Answers /\ Goto(h, "serving")
  /\ pool' = IF HasPostgres /\ PoolKept THEN pool \cup {h} ELSE pool
  /\ UNCHANGED <<config, db, posts, rows, memory, audit, status>>

\* addAuditEntry: into the log of the process and, with a pool, on the way to
\* the table, unawaited.
AddAuditEntry(h, c) ==
  /\ stamped' = Append(stamped, c)
  /\ log' = [log EXCEPT ![h] = <<c>> \o @]
  /\ inserts' = IF h \in pool THEN inserts \cup {c} ELSE inserts
  /\ status' = Touched(h)

\* POST /contacts.
PostContact(h, c) ==
  /\ phase[h] = "serving" /\ call[c] = "new"
  /\ created' = Append(created, c)
  /\ at' = [at EXCEPT ![c] = h]
  /\ IF h \in pool
       THEN /\ call' = [call EXCEPT ![c] = "sent"]
            /\ UNCHANGED <<memory, audit, status>>
       ELSE /\ call' = [call EXCEPT ![c] = "done"]
            /\ memory' = [memory EXCEPT ![h] = <<c>> \o @]
            /\ AddAuditEntry(h, c)
  /\ UNCHANGED <<config, db, process, rows>>

\* The row is written; the answer may be lost on the way back, and is when
\* the process is gone.
InsertContact(c) ==
  /\ db = "up" /\ call[c] \in {"sent", "lost"}
  /\ table' = table \cup {c}
  /\ \E s \in {"stored", "failed"} :
       call' = [call EXCEPT ![c] = IF @ = "sent" THEN s ELSE "failed"]
  /\ UNCHANGED <<config, db, process, created, at, audited, memory, audit, status>>

\* It is not written: an error, and a 500 if anybody is there to send it.
InsertFails(c) ==
  /\ call[c] \in {"sent", "lost"}
  /\ call' = [call EXCEPT ![c] = "failed"]
  /\ UNCHANGED <<config, db, process, created, at, rows, memory, audit, status>>

Reply(c) ==
  /\ Ready(c)
  /\ call' = [call EXCEPT ![c] = "done"]
  /\ AddAuditEntry(at[c], c)
  /\ UNCHANGED <<config, db, process, created, at, rows, memory>>

InsertAudit(c) ==
  /\ db = "up" /\ c \in inserts
  /\ inserts' = inserts \ {c}
  /\ audited' = audited \cup {c}
  /\ UNCHANGED <<config, db, process, posts, table, memory, stamped, log, status>>

\* Caught and logged; the entry is in the log of its process only.
AuditFails(c) ==
  /\ c \in inserts
  /\ inserts' = inserts \ {c}
  /\ UNCHANGED <<config, db, process, posts, rows, memory, stamped, log, status>>

\* Any request that a replica serves from its own state.
TouchTenant(h) ==
  /\ phase[h] = "serving" /\ status' = Touched(h)
  /\ UNCHANGED <<config, db, process, posts, rows, memory, audit>>

\* POST /tenants: upsertTenant, on the replica it happens to reach.
PostTenant(h, s) ==
  /\ phase[h] = "serving" /\ status' = [status EXCEPT ![h] = s]
  /\ UNCHANGED <<config, db, process, posts, rows, memory, audit>>

\* The process dies: what it kept is gone, and what it had sent may or may
\* not arrive.
Crash(h) ==
  LET sent == {c \in inserts : at[c] = h} IN
  /\ phase[h] # "down"
  /\ Goto(h, "down") /\ pool' = pool \ {h}
  /\ memory' = [memory EXCEPT ![h] = <<>>]
  /\ log' = [log EXCEPT ![h] = <<>>]
  /\ status' = [status EXCEPT ![h] = None]
  /\ call' = [c \in Contacts |->
       IF at[c] # h THEN call[c]
       ELSE CASE call[c] = "sent" -> "lost" [] call[c] = "stored" -> "failed"
              [] OTHER -> call[c]]
  /\ at' = [c \in Contacts |-> IF at[c] = h THEN None ELSE at[c]]
  /\ \E gone \in SUBSET sent : inserts' = inserts \ gone
  /\ UNCHANGED <<config, db, created, rows, stamped>>

DatabaseGoesOrComes ==
  /\ configured /\ db' \in Database \ {db}
  /\ UNCHANGED <<config, process, posts, rows, memory, audit, status>>

Bootstrap(h) == Start(h) \/ Migrate(h) \/ Connect(h)

Next ==
  \/ \E h \in Replicas :
       \/ Bootstrap(h) \/ TouchTenant(h) \/ Crash(h)
       \/ \E c \in Contacts : PostContact(h, c)
       \/ \E s \in Statuses : PostTenant(h, s)
  \/ \E c \in Contacts :
       InsertContact(c) \/ InsertFails(c) \/ Reply(c) \/ InsertAudit(c) \/ AuditFails(c)
  \/ DatabaseGoesOrComes

Spec == Init /\ [][Next]_vars

\* Kubernetes starts a process that is down, and the steps of a bootstrap end
\* unless the database leaves them unanswered; nothing says that it comes back,
\* that it answers or that clients ask.
FairSpec == Spec /\ \A h \in Replicas : WF_vars(Bootstrap(h))

-----------------------------------------------------------------------------
\* Every variable holds a value of its kind; a pool is only where a database
\* is configured.
TypeOK ==
  /\ configured \in BOOLEAN /\ migrates \in BOOLEAN /\ db \in Database
  /\ phase \in [Replicas -> Phases]
  /\ pool \subseteq {h \in Replicas : configured /\ phase[h] = "serving"}
  /\ created \in Seq(Contacts) /\ stamped \in Seq(Contacts)
  /\ call \in [Contacts -> Calls]
  /\ at \in [Contacts -> Replicas \cup {None}]
  /\ table \subseteq Contacts /\ audited \subseteq Contacts /\ inserts \subseteq Contacts
  /\ memory \in [Replicas -> Seq(Contacts)]
  /\ log \in [Replicas -> Seq(Contacts)]
  /\ status \in [Replicas -> Statuses \cup {None}]

Serving == {h \in Replicas : phase[h] = "serving"}

\* A contact is on the list of a replica, or newer ones fill it.
OnList(c, h) ==
  \/ c \in ToSet(Listed(h))
  \/ /\ Len(Listed(h)) = ListLimit
     /\ \A d \in ToSet(Listed(h)) : Position(created, c) < Position(created, d)

\* A contact that was acknowledged is listed by all replicas with a database
\* and no migrations on start, one that was started while the database was
\* away included.  Otherwise it is listed by the process that acknowledged it
\* as long as that lives, whatever becomes of the others.
AcknowledgedIsListed ==
  \A c \in Contacts, h \in Serving :
    call[c] = "done" /\ (h = at[c] \/ (configured /\ ~migrates)) => OnList(c, h)

\* An audit entry never speaks of a contact that was not stored, wherever the
\* entry is: in the table, on the way there, or in a process.
AuditNamesContact ==
  /\ audited \cup inserts \subseteq table
  /\ \A h \in Replicas : ToSet(log[h]) \subseteq table \cup ToSet(memory[h])

\* GET /audit shows the newest of the entries that pass its filters: as many
\* as asked for or all there are, in order, and every entry left out is older
\* than every one shown.  So in memory as from the table, although inserts
\* land in any order.
AuditPageIsNewest ==
  \A h \in Serving, S \in SUBSET Contacts, n \in 1..Cardinality(Contacts) :
    LET page == AuditPage(h, S, n)
        all  == S \cap (IF h \in pool THEN audited ELSE ToSet(log[h]))
        p(c) == Position(stamped, c)
    IN  /\ ToSet(page) \subseteq all
        /\ Len(page) = IF n < Cardinality(all) THEN n ELSE Cardinality(all)
        /\ \A i, j \in DOMAIN page : i < j => p(page[i]) > p(page[j])
        /\ \A c \in all \ ToSet(page), d \in ToSet(page) : p(c) < p(d)

\* What a process lists and keeps does not go as long as it lives: contacts
\* give way to newer ones only, and a tenant suspended on it is not activated
\* by a request of the tenant.
ProcessKeeps ==
  [][\A h \in Serving \cap Serving' :
       /\ \A c \in ToSet(Listed(h)) : OnList(c, h)'
       /\ status[h] = "suspended" => status'[h] = "suspended" \/ PostTenant(h, "active")]_vars

\* A replica that does not go on dying serves in the end, although the
\* database stays away or comes and goes; only a database that takes its
\* connections and leaves them unanswered, for ever or again and again, can
\* keep it from listening.
EveryReplicaServes == \A h \in Replicas :
  \/ <>[](phase[h] = "serving")
  \/ []<><<Crash(h)>>_vars
  \/ configured /\ []<>(db = "silent")

\* README: "CRM contacts are persisted in Postgres when `DATABASE_URL` is set".
PersistedWhenConfigured ==
  configured => \A c \in Contacts : call[c] = "done" => c \in table
=============================================================================
