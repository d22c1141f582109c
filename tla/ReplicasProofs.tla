--------------------------- MODULE ReplicasProofs ---------------------------
(***************************************************************************)
(* Proofs about Replicas, for any number of processes, contacts and        *)
(* crashes.  An audit entry is made only after its row was confirmed, so   *)
(* what has to be carried along is where a confirmed row is: in the table, *)
(* which nothing empties, or in the memory that ends with the log.         *)
(***************************************************************************)
EXTENDS Replicas, ListingProofs

\* A confirmed insert is in the table.
ConfirmedIsStored == \A c \in Contacts : call[c] = "stored" => c \in table

\* A request that is being served has a process that serves it.
RequestHasReplica == \A c \in Contacts : call[c] \in {"sent", "stored"} => at[c] \in Replicas

\* Without migrations on start there is no way around the pool.
ServesFromPool == configured /\ ~migrates =>
  \A h \in Replicas : phase[h] # "migrate" /\ (phase[h] = "serving" => h \in pool)

\* A contact acknowledged by such a deployment is in the table.
AcknowledgedIsStored == configured /\ ~migrates =>
  \A c \in Contacts : call[c] = "done" => c \in table

Inv == /\ TypeOK
       /\ AuditNamesContact
       /\ ConfirmedIsStored
       /\ RequestHasReplica
       /\ ServesFromPool
       /\ AcknowledgedIsStored

-----------------------------------------------------------------------------
\* The invariant holds where nothing has started.
LEMMA InitInv == Init => Inv
<1> SUFFICES ASSUME Init PROVE Inv
  OBVIOUS
<1>1. TypeOK
  BY DEF Init, TypeOK, Phases, Calls, Database
<1>2. AuditNamesContact
  BY ToSetOfEmpty DEF Init, AuditNamesContact
<1> QED
  BY <1>1, <1>2 DEF Inv, Init, ConfirmedIsStored, RequestHasReplica, ServesFromPool,
                    AcknowledgedIsStored
\* Steps that change no contact, no row and no entry.
LEMMA BootstrapInv ==
  ASSUME Inv, NEW h \in Replicas, Bootstrap(h) PROVE Inv'
<1>1. UNCHANGED <<config, db, posts, rows, memory, audit, status>>
  BY DEF Bootstrap, Start, Migrate, Connect
<1>2. TypeOK'
  <2>1. phase' \in [Replicas -> Phases]
    BY DEF Bootstrap, Start, Migrate, Connect, Goto, Inv, TypeOK, Phases, AfterFailedMigration
  <2>2. pool' \subseteq {g \in Replicas : configured /\ phase'[g] = "serving"}
    BY DEF Bootstrap, Start, Migrate, Connect, Goto, Inv, TypeOK, HasPostgres
  <2> QED
    BY <1>1, <2>1, <2>2 DEF Inv, TypeOK, config, posts, rows, audit
<1>3. ServesFromPool'
  BY <1>1 DEF Bootstrap, Start, Migrate, Connect, Goto, Inv, TypeOK, ServesFromPool,
              HasPostgres, PoolKept, config
<1> QED
  BY <1>1, <1>2, <1>3 DEF Inv, AuditNamesContact, ConfirmedIsStored, RequestHasReplica,
                          AcknowledgedIsStored, config, posts, rows, audit

LEMMA TenantInv ==
  ASSUME Inv, NEW h \in Replicas, TouchTenant(h) \/ \E s \in Statuses : PostTenant(h, s)
  PROVE  Inv'
<1>1. UNCHANGED <<config, db, process, posts, rows, memory, audit>>
  BY DEF TouchTenant, PostTenant
<1>2. status' \in [Replicas -> Statuses \cup {None}]
  BY DEF TouchTenant, PostTenant, Touched, Inv, TypeOK, Statuses
<1> QED
  BY <1>1, <1>2 DEF Inv, TypeOK, AuditNamesContact, ConfirmedIsStored, RequestHasReplica,
                    ServesFromPool, AcknowledgedIsStored, config, process, posts, rows, audit

LEMMA DatabaseInv ==
  ASSUME Inv, DatabaseGoesOrComes PROVE Inv'
BY DEF DatabaseGoesOrComes, Inv, TypeOK, AuditNamesContact, ConfirmedIsStored,
       RequestHasReplica, ServesFromPool, AcknowledgedIsStored,
       config, process, posts, rows, audit

-----------------------------------------------------------------------------
\* An entry made by a replica, of a contact that is stored where it serves from.
LEMMA EntryTyped ==
  ASSUME TypeOK, NEW h \in Replicas, NEW c \in Contacts, AddAuditEntry(h, c)
  PROVE  /\ stamped' \in Seq(Contacts) /\ inserts' \subseteq inserts \cup {c}
         /\ log' \in [Replicas -> Seq(Contacts)]
         /\ ToSet(log'[h]) = {c} \cup ToSet(log[h])
         /\ \A g \in Replicas \ {h} : log'[g] = log[g]
         /\ status' \in [Replicas -> Statuses \cup {None}]
         /\ h \notin pool => inserts' = inserts
<1>1. stamped' \in Seq(Contacts)
  BY DEF AddAuditEntry, TypeOK
<1>2. log[h] \in Seq(Contacts) /\ log' = [log EXCEPT ![h] = <<c>> \o log[h]]
  BY DEF AddAuditEntry, TypeOK
<1>3. <<c>> \o log[h] \in Seq(Contacts) /\ ToSet(<<c>> \o log[h]) = {c} \cup ToSet(log[h])
  BY <1>2, ToSetOfCons
<1>4. /\ log'[h] = <<c>> \o log[h] /\ log' \in [Replicas -> Seq(Contacts)]
      /\ \A g \in Replicas \ {h} : log'[g] = log[g]
  BY <1>2, <1>3 DEF TypeOK
<1>5. inserts' \subseteq inserts \cup {c} /\ (h \notin pool => inserts' = inserts)
  BY DEF AddAuditEntry
<1>6. status' \in [Replicas -> Statuses \cup {None}]
  BY DEF AddAuditEntry, Touched, TypeOK, Statuses
<1> QED
  BY <1>1, <1>3, <1>4, <1>5, <1>6

\* A POST to a process with a pool only sends the row.
LEMMA PostToTableInv ==
  ASSUME Inv, NEW h \in Replicas, NEW c \in Contacts, PostContact(h, c), h \in pool
  PROVE  Inv'
<1>1. /\ UNCHANGED <<config, db, process, rows, memory, audit, status>>
      /\ created' = Append(created, c) /\ at' = [at EXCEPT ![c] = h]
      /\ call' = [call EXCEPT ![c] = "sent"]
  BY DEF PostContact
<1>2. TypeOK'
  BY <1>1 DEF Inv, TypeOK, Calls, config, process, rows, audit
<1> QED
  BY <1>1, <1>2 DEF Inv, TypeOK, AuditNamesContact, ConfirmedIsStored, RequestHasReplica,
                    ServesFromPool, AcknowledgedIsStored, config, process, rows, audit

\* One to a process without keeps contact and entry together.
LEMMA PostToMemoryInv ==
  ASSUME Inv, NEW h \in Replicas, NEW c \in Contacts, PostContact(h, c), h \notin pool
  PROVE  Inv'
<1>1. /\ UNCHANGED <<config, db, process, rows>>
      /\ created' = Append(created, c) /\ at' = [at EXCEPT ![c] = h]
      /\ call' = [call EXCEPT ![c] = "done"]
      /\ memory' = [memory EXCEPT ![h] = <<c>> \o memory[h]]
      /\ AddAuditEntry(h, c) /\ phase[h] = "serving"
  BY DEF PostContact, Inv, TypeOK
<1>2. /\ stamped' \in Seq(Contacts) /\ inserts' = inserts
      /\ log' \in [Replicas -> Seq(Contacts)]
      /\ ToSet(log'[h]) = {c} \cup ToSet(log[h])
      /\ \A g \in Replicas \ {h} : log'[g] = log[g]
      /\ status' \in [Replicas -> Statuses \cup {None}]
  BY <1>1, EntryTyped DEF Inv
<1>3. memory[h] \in Seq(Contacts)
  BY DEF Inv, TypeOK
<1>4. <<c>> \o memory[h] \in Seq(Contacts) /\ ToSet(<<c>> \o memory[h]) = {c} \cup ToSet(memory[h])
  BY <1>3, ToSetOfCons
<1>5. /\ memory' \in [Replicas -> Seq(Contacts)] /\ memory'[h] = <<c>> \o memory[h]
      /\ \A g \in Replicas \ {h} : memory'[g] = memory[g]
  BY <1>1, <1>4 DEF Inv, TypeOK
<1>6. TypeOK'
  <2>1. created' \in Seq(Contacts) /\ call' \in [Contacts -> Calls]
        /\ at' \in [Contacts -> Replicas \cup {None}]
    BY <1>1 DEF Inv, TypeOK, Calls
  <2> QED
    BY <1>1, <1>2, <1>5, <2>1 DEF Inv, TypeOK, config, process, rows
<1>7. AuditNamesContact'
  <2>1. ToSet(log'[h]) \subseteq table \cup ToSet(memory'[h])
    BY <1>2, <1>4, <1>5 DEF Inv, AuditNamesContact
  <2>2. \A g \in Replicas \ {h} : ToSet(log'[g]) \subseteq table \cup ToSet(memory'[g])
    BY <1>2, <1>5 DEF Inv, AuditNamesContact
  <2> QED
    BY <1>1, <1>2, <2>1, <2>2 DEF Inv, AuditNamesContact, rows
<1>8. ~(configured /\ ~migrates)
  BY <1>1 DEF Inv, ServesFromPool
<1> QED
  BY <1>1, <1>6, <1>7, <1>8 DEF Inv, TypeOK, ConfirmedIsStored, RequestHasReplica,
                    ServesFromPool, AcknowledgedIsStored, config, process, rows

LEMMA ReplyInv ==
  ASSUME Inv, NEW c \in Contacts, Reply(c) PROVE Inv'
<1>1. /\ UNCHANGED <<config, db, process, created, at, rows, memory>>
      /\ call[c] = "stored" /\ call' = [call EXCEPT ![c] = "done"]
      /\ AddAuditEntry(at[c], c)
  BY DEF Reply, Ready
<1>2. c \in table /\ at[c] \in Replicas
  BY <1>1 DEF Inv, ConfirmedIsStored, RequestHasReplica
<1>3. PICK h \in Replicas : h = at[c]
  BY <1>2
<1>4. /\ stamped' \in Seq(Contacts) /\ inserts' \subseteq inserts \cup {c}
      /\ log' \in [Replicas -> Seq(Contacts)]
      /\ ToSet(log'[h]) = {c} \cup ToSet(log[h])
      /\ \A g \in Replicas \ {h} : log'[g] = log[g]
      /\ status' \in [Replicas -> Statuses \cup {None}]
  BY <1>1, <1>3, EntryTyped DEF Inv
<1>5. TypeOK'
  BY <1>1, <1>4 DEF Inv, TypeOK, Calls, config, process, rows
<1>6. AuditNamesContact'
  <2>1. ToSet(log'[h]) \subseteq table \cup ToSet(memory[h])
    BY <1>2, <1>4 DEF Inv, AuditNamesContact
  <2>2. \A g \in Replicas \ {h} : ToSet(log'[g]) \subseteq table \cup ToSet(memory[g])
    BY <1>4 DEF Inv, AuditNamesContact
  <2>3. audited' \cup inserts' \subseteq table'
    BY <1>1, <1>2, <1>4 DEF Inv, AuditNamesContact, rows
  <2> QED
    BY <1>1, <2>1, <2>2, <2>3 DEF AuditNamesContact, rows
<1> QED
  BY <1>1, <1>2, <1>5, <1>6 DEF Inv, TypeOK, ConfirmedIsStored, RequestHasReplica,
                    ServesFromPool, AcknowledgedIsStored, config, process, rows

-----------------------------------------------------------------------------
\* The database answers, or does not.
LEMMA InsertContactInv ==
  ASSUME Inv, NEW c \in Contacts, InsertContact(c) \/ InsertFails(c) PROVE Inv'
<1>1. /\ UNCHANGED <<config, db, process, created, at, audited, memory, audit, status>>
      /\ table \subseteq table' /\ table' \subseteq table \cup {c}
      /\ call[c] \in {"sent", "lost"}
      /\ \E s \in {"stored", "failed"} :
           call' = [call EXCEPT ![c] = s] /\ (s = "stored" => call[c] = "sent" /\ c \in table')
  BY DEF InsertContact, InsertFails, rows, Inv, TypeOK
<1>2. TypeOK'
  BY <1>1 DEF Inv, TypeOK, Calls, config, process, audit
<1>3. AuditNamesContact'
  BY <1>1 DEF Inv, AuditNamesContact, audit
<1>4. PICK s \in {"stored", "failed"} :
        call' = [call EXCEPT ![c] = s] /\ (s = "stored" => call[c] = "sent" /\ c \in table')
  BY <1>1
<1>5. ConfirmedIsStored'
  BY <1>1, <1>4 DEF Inv, TypeOK, ConfirmedIsStored
<1>6. RequestHasReplica'
  BY <1>1, <1>4 DEF Inv, TypeOK, RequestHasReplica
<1>7. ServesFromPool' /\ AcknowledgedIsStored'
  BY <1>1, <1>4 DEF Inv, TypeOK, ServesFromPool, AcknowledgedIsStored, config, process
<1> QED
  BY <1>2, <1>3, <1>5, <1>6, <1>7 DEF Inv

LEMMA InsertAuditInv ==
  ASSUME Inv, NEW c \in Contacts, InsertAudit(c) \/ AuditFails(c) PROVE Inv'
<1>1. /\ UNCHANGED <<config, db, process, posts, table, memory, stamped, log, status>>
      /\ inserts' \subseteq inserts /\ audited' \subseteq audited \cup inserts
  BY DEF InsertAudit, AuditFails, rows
<1>2. TypeOK'
  BY <1>1 DEF Inv, TypeOK, config, process, posts
<1>3. AuditNamesContact'
  BY <1>1 DEF Inv, AuditNamesContact
<1> QED
  BY <1>1, <1>2, <1>3 DEF Inv, ConfirmedIsStored, RequestHasReplica,
                    ServesFromPool, AcknowledgedIsStored, config, process, posts

\* A crash takes log and memory together.
LEMMA CrashInv ==
  ASSUME Inv, NEW h \in Replicas, Crash(h) PROVE Inv'
<1>1. /\ UNCHANGED <<config, db, created, rows, stamped>>
      /\ at' = [c \in Contacts |-> IF at[c] = h THEN None ELSE at[c]]
      /\ phase' = [phase EXCEPT ![h] = "down"] /\ pool' = pool \ {h}
      /\ memory' = [memory EXCEPT ![h] = <<>>] /\ log' = [log EXCEPT ![h] = <<>>]
      /\ status' = [status EXCEPT ![h] = None]
      /\ inserts' \subseteq inserts
  BY DEF Crash, Goto
<1>2. /\ call' \in [Contacts -> Calls]
      /\ \A c \in Contacts : \/ call'[c] = call[c]
                             \/ call'[c] \in {"lost", "failed"} /\ call[c] # "new"
      /\ \A c \in Contacts : call'[c] \in {"sent", "stored"} => call[c] = call'[c] /\ at[c] # h
  BY DEF Crash, Inv, TypeOK, Calls
<1>3. TypeOK'
  <2>1. phase' \in [Replicas -> Phases]
    BY <1>1 DEF Inv, TypeOK, Phases
  <2>2. pool' \subseteq {g \in Replicas : configured /\ phase'[g] = "serving"}
    BY <1>1 DEF Inv, TypeOK
  <2>3. memory' \in [Replicas -> Seq(Contacts)] /\ log' \in [Replicas -> Seq(Contacts)]
    BY <1>1 DEF Inv, TypeOK
  <2>4. status' \in [Replicas -> Statuses \cup {None}]
    BY <1>1 DEF Inv, TypeOK
  <2>5. at' \in [Contacts -> Replicas \cup {None}]
    BY <1>1 DEF Inv, TypeOK
  <2> QED
    BY <1>1, <1>2, <2>1, <2>2, <2>3, <2>4, <2>5 DEF Inv, TypeOK, config, rows
<1>4. AuditNamesContact'
  <2>1. \A g \in Replicas : \/ log'[g] = <<>>
                            \/ log'[g] = log[g] /\ memory'[g] = memory[g]
    BY <1>1 DEF Inv, TypeOK
  <2> QED
    BY <1>1, <2>1, ToSetOfEmpty DEF Inv, AuditNamesContact, rows
<1>5. ServesFromPool'
  BY <1>1 DEF Inv, TypeOK, ServesFromPool, config
<1> QED
  BY <1>1, <1>2, <1>3, <1>4, <1>5 DEF Inv, ConfirmedIsStored, RequestHasReplica,
                    AcknowledgedIsStored, config, rows

LEMMA StutterInv == Inv /\ UNCHANGED vars => Inv'
BY DEF vars, Inv, TypeOK, AuditNamesContact, ConfirmedIsStored, RequestHasReplica,
       ServesFromPool, AcknowledgedIsStored, config, process, posts, rows, audit

-----------------------------------------------------------------------------
\* The inductive invariant of the replicas.
THEOREM ReplicasInvariance == Spec => []Inv
<1>1. Inv /\ [Next]_vars => Inv'
  <2> SUFFICES ASSUME Inv, [Next]_vars PROVE Inv'
    OBVIOUS
  <2>1. ASSUME NEW h \in Replicas, Bootstrap(h) PROVE Inv'
    BY <2>1, BootstrapInv
  <2>2. ASSUME NEW h \in Replicas, TouchTenant(h) \/ \E s \in Statuses : PostTenant(h, s)
        PROVE  Inv'
    BY <2>2, TenantInv
  <2>3. ASSUME NEW h \in Replicas, NEW c \in Contacts, PostContact(h, c) PROVE Inv'
    BY <2>3, PostToTableInv, PostToMemoryInv
  <2>4. ASSUME NEW h \in Replicas, Crash(h) PROVE Inv'
    BY <2>4, CrashInv
  <2>5. ASSUME NEW c \in Contacts, InsertContact(c) \/ InsertFails(c) PROVE Inv'
    BY <2>5, InsertContactInv
  <2>6. ASSUME NEW c \in Contacts, InsertAudit(c) \/ AuditFails(c) PROVE Inv'
    BY <2>6, InsertAuditInv
  <2>7. ASSUME NEW c \in Contacts, Reply(c) PROVE Inv'
    BY <2>7, ReplyInv
  <2> QED
    BY <2>1, <2>2, <2>3, <2>4, <2>5, <2>6, <2>7, DatabaseInv, StutterInv DEF Next
<1> QED
  BY InitInv, <1>1, PTL DEF Spec

\* Types; a pool only in a serving process of a configured deployment.
THEOREM ReplicasTypeCorrect == Spec => []TypeOK
BY ReplicasInvariance, PTL DEF Inv

\* No audit entry, in flight, in the table or in a process, is about a contact
\* that was not stored.
THEOREM AuditEntriesNameContacts == Spec => []AuditNamesContact
BY ReplicasInvariance, PTL DEF Inv

\* With a database and without migrations on start, what was acknowledged is
\* in the table, however many processes crash and whenever the database is away.
THEOREM AcknowledgedContactsAreStored == Spec => []AcknowledgedIsStored
BY ReplicasInvariance, PTL DEF Inv

-----------------------------------------------------------------------------
\* Each contact is created once, when its request is taken.
CreatedOnce == IsInjective(created) /\ ToSet(created) = {c \in Contacts : call[c] # "new"}

\* An entry is made once, with the acknowledgement.
StampedOnce == IsInjective(stamped) /\ ToSet(stamped) = {c \in Contacts : call[c] = "done"}

\* What is in a table, or on the way there, has its time stamp.
RowsHaveTimes == table \subseteq ToSet(created) /\ audited \cup inserts \subseteq ToSet(stamped)

\* The lists of a process are in the order of the time stamps.
CopiesAreNewestFirst == \A h \in Replicas :
  NewestFirst(memory[h], created) /\ NewestFirst(log[h], stamped)

\* A request that waits for the database was sent by a process with a pool.
SentByPool == \A c \in Contacts : call[c] \in {"sent", "stored"} => at[c] \in pool

\* What a living process acknowledged is where it serves from.
KeptWhileAlive == \A c \in Contacts : at[c] \in Replicas =>
  /\ phase[at[c]] = "serving"
  /\ call[c] = "done" => IF at[c] \in pool THEN c \in table ELSE c \in ToSet(memory[at[c]])

OrderInv == /\ CreatedOnce /\ StampedOnce
            /\ RowsHaveTimes
            /\ CopiesAreNewestFirst
            /\ SentByPool
            /\ KeptWhileAlive

\* Nothing is listed where nothing has started.
LEMMA InitOrder == Init => OrderInv
<1> SUFFICES ASSUME Init PROVE OrderInv
  OBVIOUS
<1>1. /\ created = <<>> /\ stamped = <<>> /\ table = {} /\ audited = {} /\ inserts = {}
      /\ \A h \in Replicas : memory[h] = <<>> /\ log[h] = <<>>
      /\ \A c \in Contacts : call[c] = "new" /\ at[c] \notin Replicas
  BY NoneAssumption DEF Init
<1>2. IsInjective(<<>>)
  BY DEF IsInjective
<1>3. NewestFirst(<<>>, <<>>)
  BY ToSetOfEmpty DEF NewestFirst
<1> QED
  BY <1>1, <1>2, <1>3, ToSetOfEmpty DEF OrderInv, CreatedOnce, StampedOnce, RowsHaveTimes,
     CopiesAreNewestFirst, SentByPool, KeptWhileAlive

\* A start changes pools and phases only, of processes that serve nobody.
LEMMA BootstrapOrder ==
  ASSUME Inv, OrderInv, NEW h \in Replicas, Bootstrap(h) PROVE OrderInv'
<1>1. /\ UNCHANGED <<config, db, posts, rows, memory, audit, status>>
      /\ phase[h] # "serving" /\ pool \subseteq pool' /\ pool' \subseteq pool \cup {h}
      /\ \A g \in Replicas \ {h} : phase'[g] = phase[g]
  BY DEF Bootstrap, Start, Migrate, Connect, Goto, Inv, TypeOK, Phases
<1>2. KeptWhileAlive'
  <2> SUFFICES ASSUME NEW c \in Contacts, at[c] \in Replicas
               PROVE  /\ phase'[at[c]] = "serving"
                      /\ call[c] = "done" =>
                           IF at[c] \in pool' THEN c \in table ELSE c \in ToSet(memory[at[c]])
    BY <1>1 DEF KeptWhileAlive, posts, rows
  <2>1. phase[at[c]] = "serving"
    BY DEF OrderInv, KeptWhileAlive
  <2>2. at[c] # h /\ phase'[at[c]] = phase[at[c]] /\ (at[c] \in pool' <=> at[c] \in pool)
    BY <1>1, <2>1
  <2> QED BY <2>1, <2>2 DEF OrderInv, KeptWhileAlive
<1>3. SentByPool'
  BY <1>1 DEF OrderInv, SentByPool, posts
<1> QED
  BY <1>1, <1>2, <1>3 DEF OrderInv, CreatedOnce, StampedOnce, RowsHaveTimes,
     CopiesAreNewestFirst, posts, rows, audit

\* Steps that change none of what is listed.
LEMMA SameOrder ==
  ASSUME OrderInv, UNCHANGED <<process, posts, rows, memory, audit>> PROVE OrderInv'
BY DEF OrderInv, CreatedOnce, StampedOnce, RowsHaveTimes, CopiesAreNewestFirst, SentByPool,
       KeptWhileAlive, process, posts, rows, audit

\* A contact that a process takes is new.
LEMMA PostCreates ==
  ASSUME Inv, OrderInv, NEW h \in Replicas, NEW c \in Contacts, PostContact(h, c)
  PROVE  /\ created' = Append(created, c) /\ c \notin ToSet(created)
         /\ IsInjective(created') /\ ToSet(created') = ToSet(created) \cup {c}
         /\ \A g \in Replicas : NewestFirst(memory[g], created')
         /\ NewestFirst(<<c>> \o memory[h], created')
<1>1. created' = Append(created, c) /\ call[c] = "new"
  BY DEF PostContact
<1>2. created \in Seq(Contacts) /\ IsInjective(created) /\ c \notin ToSet(created)
  BY <1>1 DEF Inv, TypeOK, OrderInv, CreatedOnce
<1>3. IsInjective(created') /\ ToSet(created') = ToSet(created) \cup {c}
  BY <1>1, <1>2, AppendOnce
<1>4. \A g \in Replicas : memory[g] \in Seq(Contacts) /\ NewestFirst(memory[g], created)
  BY DEF Inv, TypeOK, OrderInv, CopiesAreNewestFirst
<1>5. ASSUME NEW g \in Replicas
      PROVE  NewestFirst(memory[g], created') /\ NewestFirst(<<c>> \o memory[g], created')
  BY <1>1, <1>2, <1>4, NewestFirstGrows
<1> QED BY <1>1, <1>2, <1>3, <1>5

\* So is the entry of a contact that is acknowledged.
LEMMA EntryStamps ==
  ASSUME Inv, OrderInv, NEW h \in Replicas, NEW c \in Contacts, AddAuditEntry(h, c),
         call[c] # "done"
  PROVE  /\ IsInjective(stamped') /\ ToSet(stamped') = ToSet(stamped) \cup {c}
         /\ \A g \in Replicas : NewestFirst(log'[g], stamped')
         /\ inserts' \subseteq inserts \cup {c}
<1>1. /\ stamped' = Append(stamped, c) /\ inserts' \subseteq inserts \cup {c}
      /\ log' = [log EXCEPT ![h] = <<c>> \o log[h]] /\ log \in [Replicas -> Seq(Contacts)]
  BY DEF AddAuditEntry, Inv, TypeOK
<1>2. stamped \in Seq(Contacts) /\ IsInjective(stamped) /\ c \notin ToSet(stamped)
  BY DEF Inv, TypeOK, OrderInv, StampedOnce
<1>3. IsInjective(stamped') /\ ToSet(stamped') = ToSet(stamped) \cup {c}
  BY <1>1, <1>2, AppendOnce
<1>4. ASSUME NEW g \in Replicas PROVE NewestFirst(log'[g], stamped')
  <2>1. log[g] \in Seq(Contacts) /\ NewestFirst(log[g], stamped)
    BY DEF Inv, TypeOK, OrderInv, CopiesAreNewestFirst
  <2>2. NewestFirst(log[g], stamped') /\ NewestFirst(<<c>> \o log[g], stamped')
    BY <1>1, <1>2, <2>1, NewestFirstGrows
  <2>3. log'[g] = log[g] \/ log'[g] = <<c>> \o log[g]
    BY <1>1
  <2> QED BY <2>2, <2>3
<1> QED BY <1>1, <1>3, <1>4

\* A POST to a process with a pool.
LEMMA PostToTableOrder ==
  ASSUME Inv, OrderInv, NEW h \in Replicas, NEW c \in Contacts, PostContact(h, c), h \in pool
  PROVE  OrderInv'
<1>1. /\ UNCHANGED <<config, db, process, rows, memory, audit, status>>
      /\ at' = [at EXCEPT ![c] = h] /\ call' = [call EXCEPT ![c] = "sent"]
      /\ call[c] = "new" /\ phase[h] = "serving"
  BY DEF PostContact
<1>2. /\ call \in [Contacts -> Calls] /\ at \in [Contacts -> Replicas \cup {None}]
      /\ call'[c] = "sent" /\ at'[c] = h
      /\ \A d \in Contacts \ {c} : call'[d] = call[d] /\ at'[d] = at[d]
  BY <1>1 DEF Inv, TypeOK
<1>3. /\ IsInjective(created') /\ ToSet(created') = ToSet(created) \cup {c}
      /\ \A g \in Replicas : NewestFirst(memory[g], created')
  BY PostCreates
<1>4. CreatedOnce'
  BY <1>1, <1>2, <1>3 DEF OrderInv, CreatedOnce
<1>5. StampedOnce'
  BY <1>1, <1>2 DEF OrderInv, StampedOnce, audit
<1>6. RowsHaveTimes'
  BY <1>1, <1>3 DEF OrderInv, RowsHaveTimes, rows, audit
<1>7. CopiesAreNewestFirst'
  BY <1>1, <1>3 DEF OrderInv, CopiesAreNewestFirst, audit
<1>8. SentByPool'
  BY <1>1, <1>2 DEF OrderInv, SentByPool, process
<1>9. KeptWhileAlive'
  BY <1>1, <1>2 DEF OrderInv, KeptWhileAlive, process, rows
<1> QED BY <1>4, <1>5, <1>6, <1>7, <1>8, <1>9 DEF OrderInv

\* A POST to one without.
LEMMA PostToMemoryOrder ==
  ASSUME Inv, OrderInv, NEW h \in Replicas, NEW c \in Contacts, PostContact(h, c), h \notin pool
  PROVE  OrderInv'
<1>1. /\ UNCHANGED <<config, db, process, rows>>
      /\ at' = [at EXCEPT ![c] = h] /\ call' = [call EXCEPT ![c] = "done"]
      /\ call[c] = "new" /\ phase[h] = "serving"
      /\ memory' = [memory EXCEPT ![h] = <<c>> \o memory[h]]
      /\ AddAuditEntry(h, c)
  BY DEF PostContact, Inv, TypeOK
<1>2. /\ call \in [Contacts -> Calls] /\ at \in [Contacts -> Replicas \cup {None}]
      /\ call'[c] = "done" /\ at'[c] = h
      /\ \A d \in Contacts \ {c} : call'[d] = call[d] /\ at'[d] = at[d]
  BY <1>1 DEF Inv, TypeOK
<1>3. /\ IsInjective(created') /\ ToSet(created') = ToSet(created) \cup {c}
      /\ \A g \in Replicas : NewestFirst(memory[g], created')
      /\ NewestFirst(<<c>> \o memory[h], created')
  BY PostCreates
<1>4. /\ IsInjective(stamped') /\ ToSet(stamped') = ToSet(stamped) \cup {c}
      /\ \A g \in Replicas : NewestFirst(log'[g], stamped')
  BY <1>1, EntryStamps
<1>5. /\ memory[h] \in Seq(Contacts) /\ memory'[h] = <<c>> \o memory[h]
      /\ \A g \in Replicas \ {h} : memory'[g] = memory[g]
  BY <1>1 DEF Inv, TypeOK
<1>6. ToSet(memory'[h]) = {c} \cup ToSet(memory[h])
  BY <1>5, ToSetOfCons
<1>7. inserts' = inserts
  BY <1>1 DEF AddAuditEntry
<1>8. CreatedOnce'
  BY <1>1, <1>2, <1>3 DEF OrderInv, CreatedOnce
<1>9. StampedOnce'
  BY <1>1, <1>2, <1>4 DEF OrderInv, StampedOnce
<1>10. RowsHaveTimes'
  BY <1>1, <1>3, <1>4, <1>7 DEF OrderInv, RowsHaveTimes, rows
<1>11. CopiesAreNewestFirst'
  BY <1>3, <1>4, <1>5 DEF CopiesAreNewestFirst
<1>12. SentByPool'
  BY <1>1, <1>2 DEF OrderInv, SentByPool, process
<1>13. KeptWhileAlive'
  <2> SUFFICES ASSUME NEW d \in Contacts, at'[d] \in Replicas
               PROVE  /\ phase[at'[d]] = "serving"
                      /\ call'[d] = "done" =>
                           IF at'[d] \in pool THEN d \in table ELSE d \in ToSet(memory'[at'[d]])
    BY <1>1 DEF KeptWhileAlive, process, rows
  <2>1. CASE d = c
    BY <1>1, <1>2, <1>6, <2>1
  <2>2. CASE d # c
    <3>1. at[d] \in Replicas
      BY <1>2, <2>2
    <3>2. ToSet(memory[at[d]]) \subseteq ToSet(memory'[at[d]])
      BY <1>5, <1>6, <3>1
    <3> QED BY <1>2, <2>2, <3>1, <3>2 DEF OrderInv, KeptWhileAlive
  <2> QED BY <2>1, <2>2
<1> QED BY <1>8, <1>9, <1>10, <1>11, <1>12, <1>13 DEF OrderInv

\* The acknowledgement of a stored contact.
LEMMA ReplyOrder ==
  ASSUME Inv, OrderInv, NEW c \in Contacts, Reply(c) PROVE OrderInv'
<1>1. /\ UNCHANGED <<config, db, process, created, at, rows, memory>>
      /\ call[c] = "stored" /\ call' = [call EXCEPT ![c] = "done"]
      /\ AddAuditEntry(at[c], c)
  BY DEF Reply, Ready
<1>2. /\ call'[c] = "done" /\ \A d \in Contacts \ {c} : call'[d] = call[d]
      /\ at[c] \in Replicas /\ at[c] \in pool /\ c \in table
  BY <1>1 DEF Inv, TypeOK, RequestHasReplica, ConfirmedIsStored, OrderInv, SentByPool
<1>3. PICK h \in Replicas : h = at[c]
  BY <1>2
<1>4. /\ IsInjective(stamped') /\ ToSet(stamped') = ToSet(stamped) \cup {c}
      /\ \A g \in Replicas : NewestFirst(log'[g], stamped')
      /\ inserts' \subseteq inserts \cup {c}
  BY <1>1, <1>3, EntryStamps
<1>5. CreatedOnce' /\ StampedOnce'
  BY <1>1, <1>2, <1>4 DEF OrderInv, CreatedOnce, StampedOnce
<1>6. RowsHaveTimes'
  BY <1>1, <1>4 DEF OrderInv, RowsHaveTimes, rows
<1>7. CopiesAreNewestFirst'
  BY <1>1, <1>4 DEF OrderInv, CopiesAreNewestFirst
<1>8. SentByPool'
  BY <1>1, <1>2 DEF OrderInv, SentByPool, process
<1>9. KeptWhileAlive'
  BY <1>1, <1>2 DEF OrderInv, KeptWhileAlive, process, rows
<1> QED BY <1>5, <1>6, <1>7, <1>8, <1>9 DEF OrderInv

\* The database answers a contact, or does not.
LEMMA InsertContactOrder ==
  ASSUME Inv, OrderInv, NEW c \in Contacts, InsertContact(c) \/ InsertFails(c) PROVE OrderInv'
<1>1. /\ UNCHANGED <<config, db, process, created, at, audited, memory, audit, status>>
      /\ table \subseteq table' /\ table' \subseteq table \cup {c}
      /\ call[c] \in {"sent", "lost"} /\ call'[c] \in {"stored", "failed"}
      /\ call'[c] = "stored" => call[c] = "sent"
      /\ \A d \in Contacts \ {c} : call'[d] = call[d]
  BY DEF InsertContact, InsertFails, rows, Inv, TypeOK
<1>2. c \in ToSet(created)
  BY <1>1 DEF OrderInv, CreatedOnce
<1>3. CreatedOnce' /\ StampedOnce'
  BY <1>1 DEF OrderInv, CreatedOnce, StampedOnce, audit
<1>4. RowsHaveTimes' /\ CopiesAreNewestFirst'
  BY <1>1, <1>2 DEF OrderInv, RowsHaveTimes, CopiesAreNewestFirst, audit
<1>5. SentByPool'
  BY <1>1 DEF OrderInv, SentByPool, process
<1>6. KeptWhileAlive'
  BY <1>1 DEF OrderInv, KeptWhileAlive, process
<1> QED BY <1>3, <1>4, <1>5, <1>6 DEF OrderInv

\* An entry arrives, or is dropped.
LEMMA InsertAuditOrder ==
  ASSUME Inv, OrderInv, NEW c \in Contacts, InsertAudit(c) \/ AuditFails(c) PROVE OrderInv'
<1>1. /\ UNCHANGED <<config, db, process, posts, table, memory, stamped, log, status>>
      /\ inserts' \subseteq inserts /\ audited' \subseteq audited \cup inserts
  BY DEF InsertAudit, AuditFails, rows
<1> QED
  BY <1>1 DEF OrderInv, CreatedOnce, StampedOnce, RowsHaveTimes, CopiesAreNewestFirst,
     SentByPool, KeptWhileAlive, process, posts

\* A crash leaves what is stored, and gives the requests of its process up.
LEMMA CrashOrder ==
  ASSUME Inv, OrderInv, NEW h \in Replicas, Crash(h) PROVE OrderInv'
<1>1. /\ UNCHANGED <<config, db, created, rows, stamped>> /\ pool' = pool \ {h}
      /\ phase' = [phase EXCEPT ![h] = "down"]
      /\ at' = [c \in Contacts |-> IF at[c] = h THEN None ELSE at[c]]
      /\ memory' = [memory EXCEPT ![h] = <<>>] /\ log' = [log EXCEPT ![h] = <<>>]
      /\ inserts' \subseteq inserts
  BY DEF Crash, Goto, Inv, TypeOK
<1>2. \A c \in Contacts :
        /\ call'[c] # "new" <=> call[c] # "new"
        /\ call'[c] = "done" <=> call[c] = "done"
        /\ call'[c] \in {"sent", "stored"} => call'[c] = call[c] /\ at[c] # h
  BY DEF Crash, Inv, TypeOK, Calls
<1>3. CreatedOnce' /\ StampedOnce'
  BY <1>1, <1>2 DEF OrderInv, CreatedOnce, StampedOnce
<1>4. RowsHaveTimes'
  BY <1>1 DEF OrderInv, RowsHaveTimes, rows
<1>5. CopiesAreNewestFirst'
  <2>1. /\ \A s : NewestFirst(<<>>, s)
        /\ \A g \in Replicas : \/ memory'[g] = <<>> /\ log'[g] = <<>>
                               \/ memory'[g] = memory[g] /\ log'[g] = log[g]
    BY <1>1, ToSetOfEmpty DEF NewestFirst, Inv, TypeOK
  <2> QED BY <1>1, <2>1 DEF OrderInv, CopiesAreNewestFirst
<1>6. SentByPool'
  BY <1>1, <1>2 DEF OrderInv, SentByPool
<1>7. KeptWhileAlive'
  <2> SUFFICES ASSUME NEW c \in Contacts, at'[c] \in Replicas
               PROVE  /\ phase'[at'[c]] = "serving"
                      /\ call'[c] = "done" =>
                           IF at'[c] \in pool' THEN c \in table ELSE c \in ToSet(memory'[at'[c]])
    BY <1>1 DEF KeptWhileAlive, rows
  <2>1. at'[c] = at[c] /\ at[c] # h /\ at[c] \in Replicas
    BY <1>1, NoneAssumption
  <2>2. /\ phase'[at[c]] = phase[at[c]] /\ memory'[at[c]] = memory[at[c]]
        /\ at[c] \in pool' <=> at[c] \in pool
    BY <1>1, <2>1 DEF Inv, TypeOK
  <2> QED BY <1>2, <2>1, <2>2 DEF OrderInv, KeptWhileAlive
<1> QED BY <1>3, <1>4, <1>5, <1>6, <1>7 DEF OrderInv

\* The order of the time stamps, and what is kept, are invariant.
THEOREM OrderInvariance == Spec => []OrderInv
<1>1. Inv /\ OrderInv /\ [Next]_vars => OrderInv'
  <2> SUFFICES ASSUME Inv, OrderInv, [Next]_vars PROVE OrderInv'
    OBVIOUS
  <2>1. ASSUME NEW h \in Replicas, Bootstrap(h) PROVE OrderInv'
    BY <2>1, BootstrapOrder
  <2>2. ASSUME NEW h \in Replicas, TouchTenant(h) \/ \E s \in Statuses : PostTenant(h, s)
        PROVE  OrderInv'
    BY <2>2, SameOrder DEF TouchTenant, PostTenant
  <2>3. ASSUME NEW h \in Replicas, NEW c \in Contacts, PostContact(h, c) PROVE OrderInv'
    BY <2>3, PostToTableOrder, PostToMemoryOrder
  <2>4. ASSUME NEW h \in Replicas, Crash(h) PROVE OrderInv'
    BY <2>4, CrashOrder
  <2>5. ASSUME NEW c \in Contacts, InsertContact(c) \/ InsertFails(c) PROVE OrderInv'
    BY <2>5, InsertContactOrder
  <2>6. ASSUME NEW c \in Contacts, InsertAudit(c) \/ AuditFails(c) PROVE OrderInv'
    BY <2>6, InsertAuditOrder
  <2>7. ASSUME NEW c \in Contacts, Reply(c) PROVE OrderInv'
    BY <2>7, ReplyOrder
  <2>8. ASSUME DatabaseGoesOrComes \/ UNCHANGED vars PROVE OrderInv'
    BY <2>8, SameOrder DEF DatabaseGoesOrComes, vars
  <2> QED
    BY <2>1, <2>2, <2>3, <2>4, <2>5, <2>6, <2>7, <2>8 DEF Next
<1> QED
  BY InitOrder, ReplicasInvariance, <1>1, PTL DEF Spec

-----------------------------------------------------------------------------
\* What a process has in the store it serves from is on its list.
LEMMA KeptIsListed ==
  ASSUME Inv, OrderInv, NEW h \in Replicas,
         NEW c \in IF h \in pool THEN table ELSE ToSet(memory[h])
  PROVE  OnList(c, h)
<1>1. CASE h \in pool
  <2>1. created \in Seq(Contacts) /\ IsInjective(created) /\ table \subseteq ToSet(created)
    BY DEF Inv, TypeOK, OrderInv, CreatedOnce, RowsHaveTimes
  <2>2. Listed(h) = FirstOf(ByAge(created, table), ListLimit)
    BY <1>1 DEF Listed
  <2> QED
    BY <1>1, <2>1, <2>2, LimitAssumption, ListedUnlessFull DEF OnList
<1>2. CASE h \notin pool
  BY <1>2 DEF OnList, Listed
<1> QED BY <1>1, <1>2

\* By where a contact is kept.
LEMMA AcknowledgedListed == Inv /\ OrderInv => AcknowledgedIsListed
<1> SUFFICES ASSUME Inv, OrderInv, NEW c \in Contacts, NEW h \in Serving, call[c] = "done",
                    h = at[c] \/ (configured /\ ~migrates)
             PROVE  OnList(c, h)
  BY DEF AcknowledgedIsListed
<1>1. h \in Replicas /\ phase[h] = "serving"
  BY DEF Serving
<1>2. CASE configured /\ ~migrates
  <2>1. h \in pool /\ c \in table
    BY <1>1, <1>2 DEF Inv, ServesFromPool, AcknowledgedIsStored
  <2> QED BY <1>1, <2>1, KeptIsListed
<1>3. CASE h = at[c]
  <2>1. c \in IF h \in pool THEN table ELSE ToSet(memory[h])
    BY <1>1, <1>3 DEF OrderInv, KeptWhileAlive
  <2> QED BY <1>1, <2>1, KeptIsListed
<1> QED BY <1>2, <1>3

\* A page is the beginning of a sequence that is newest first.
LEMMA AuditPageNewest == Inv /\ OrderInv => AuditPageIsNewest
<1> SUFFICES ASSUME Inv, OrderInv, NEW h \in Serving, NEW S \in SUBSET Contacts,
                    NEW n \in 1..Cardinality(Contacts)
             PROVE  LET page == AuditPage(h, S, n)
                        all  == S \cap (IF h \in pool THEN audited ELSE ToSet(log[h]))
                        p(c) == Position(stamped, c)
                    IN  /\ ToSet(page) \subseteq all
                        /\ Len(page) = IF n < Cardinality(all) THEN n ELSE Cardinality(all)
                        /\ \A i, j \in DOMAIN page : i < j => p(page[i]) > p(page[j])
                        /\ \A c \in all \ ToSet(page), d \in ToSet(page) : p(c) < p(d)
  BY DEF AuditPageIsNewest
<1> DEFINE page == AuditPage(h, S, n)
           all  == S \cap (IF h \in pool THEN audited ELSE ToSet(log[h]))
<1>1. h \in Replicas /\ n \in Nat
  BY DEF Serving
<1>2. stamped \in Seq(Contacts) /\ IsInjective(stamped) /\ audited \subseteq ToSet(stamped)
  BY DEF Inv, TypeOK, OrderInv, StampedOnce, RowsHaveTimes
<1>3. PICK t \in Seq(Contacts) :
        NewestFirst(t, stamped) /\ all = ToSet(t) /\ page = FirstOf(t, n)
  <2>1. CASE h \in pool
    <3> DEFINE t == ByAge(stamped, audited \cap S)
    <3>1. /\ t \in Seq(Contacts) /\ NewestFirst(t, stamped)
          /\ ToSet(t) = ToSet(stamped) \cap (audited \cap S)
      BY <1>2, ByAgeIsNewestFirst
    <3>2. page = FirstOf(t, n)
      BY <2>1 DEF AuditPage
    <3> HIDE DEF t
    <3> QED BY <1>2, <2>1, <3>1, <3>2
  <2>2. CASE h \notin pool
    <3> DEFINE t == Those(log[h], S)
    <3>1. log[h] \in Seq(Contacts) /\ NewestFirst(log[h], stamped)
      BY <1>1 DEF Inv, TypeOK, OrderInv, CopiesAreNewestFirst
    <3>2. /\ t \in Seq(Contacts) /\ NewestFirst(t, stamped)
          /\ ToSet(t) = ToSet(log[h]) \cap S
      BY <1>2, <3>1, NewestFirstKept
    <3>3. page = FirstOf(t, n)
      BY <2>2 DEF AuditPage, Newest
    <3> HIDE DEF t
    <3> QED BY <2>2, <3>2, <3>3
  <2> QED BY <2>1, <2>2
<1> HIDE DEF page, all
<1>4. NewestFirst(page, stamped) /\ ToSet(page) \subseteq all /\ page \in Seq(Contacts)
  BY <1>1, <1>2, <1>3, PageIsNewest
<1>5. n < Cardinality(all) => Len(page) = n
  BY <1>1, <1>2, <1>3, PageIsNewest
<1>6. ~(n < Cardinality(all)) => Len(page) = Cardinality(all)
  BY <1>1, <1>2, <1>3, PageIsNewest
<1>7. \A c \in all \ ToSet(page), d \in ToSet(page) : Position(stamped, c) < Position(stamped, d)
  BY <1>1, <1>2, <1>3, PageIsNewest
<1>8. \A i, j \in DOMAIN page : i < j => Position(stamped, page[i]) > Position(stamped, page[j])
  <2> SUFFICES ASSUME NEW i \in DOMAIN page, NEW j \in DOMAIN page, i < j
               PROVE  Position(stamped, page[i]) > Position(stamped, page[j])
    OBVIOUS
  <2>1. Position(stamped, page[j]) < Position(stamped, page[i])
    BY <1>4 DEF NewestFirst
  <2>2. page[i] \in ToSet(stamped) /\ page[j] \in ToSet(stamped)
    BY <1>4 DEF NewestFirst, ToSet
  <2>3. Position(stamped, page[i]) \in Nat /\ Position(stamped, page[j]) \in Nat
    BY <1>2, <2>2, PositionOf
  <2> QED BY <2>1, <2>3
<1>9. Len(page) = IF n < Cardinality(all) THEN n ELSE Cardinality(all)
  BY <1>5, <1>6
<1> QED BY <1>4, <1>7, <1>8, <1>9 DEF page, all

\* What was acknowledged is on the lists: of every process with a database and
\* no migrations on start, and of the process that acknowledged it as long as
\* that one lives, however many others start and die.
THEOREM AcknowledgedContactsAreListed == Spec => []AcknowledgedIsListed
BY ReplicasInvariance, OrderInvariance, AcknowledgedListed, PTL

\* A page of the audit trail is the newest of the entries that pass the
\* filters, whatever the filters and wherever the entries are.
THEOREM AuditPagesAreNewest == Spec => []AuditPageIsNewest
BY ReplicasInvariance, OrderInvariance, AuditPageNewest, PTL

-----------------------------------------------------------------------------
\* A process that goes on serving keeps its pool, and what is stored stays.
LEMMA StoresKeep ==
  ASSUME Inv, [Next]_vars, NEW h \in Serving \cap Serving'
  PROVE  /\ h \in pool' <=> h \in pool
         /\ table \subseteq table'
         /\ ToSet(memory[h]) \subseteq ToSet(memory'[h])
<1>1. h \in Replicas /\ phase[h] = "serving" /\ phase'[h] = "serving"
  BY DEF Serving
<1>2. CASE \E g \in Replicas : Bootstrap(g)
  BY <1>1, <1>2 DEF Bootstrap, Start, Migrate, Connect, rows, Inv, TypeOK
<1>3. CASE \E g \in Replicas : Crash(g)
  BY <1>1, <1>3 DEF Crash, Goto, rows, Inv, TypeOK
<1>4. CASE \E g \in Replicas, c \in Contacts : PostContact(g, c)
  <2>1. PICK g \in Replicas, c \in Contacts : PostContact(g, c)
    BY <1>4
  <2>2. memory[h] \in Seq(Contacts) /\ memory \in [Replicas -> Seq(Contacts)]
    BY <1>1 DEF Inv, TypeOK
  <2>3. /\ UNCHANGED <<process, rows>>
        /\ memory'[h] = memory[h] \/ memory'[h] = <<c>> \o memory[h]
    BY <1>1, <2>1, <2>2 DEF PostContact
  <2>4. ToSet(<<c>> \o memory[h]) = {c} \cup ToSet(memory[h])
    BY <2>2, ToSetOfCons
  <2>5. ToSet(memory[h]) \subseteq ToSet(memory'[h])
    BY <2>3, <2>4
  <2> QED BY <2>3, <2>5 DEF process, rows
<1>5. CASE \E c \in Contacts : InsertContact(c)
  BY <1>5 DEF InsertContact, process
<1>6. CASE UNCHANGED <<process, rows, memory>> \/ UNCHANGED <<process, table, memory>>
  BY <1>6 DEF process, rows
<1>7. CASE \E c \in Contacts : InsertFails(c) \/ Reply(c) \/ InsertAudit(c) \/ AuditFails(c)
  BY <1>6, <1>7 DEF InsertFails, Reply, InsertAudit, AuditFails
<1>8. CASE \E g \in Replicas : TouchTenant(g) \/ \E s \in Statuses : PostTenant(g, s)
  BY <1>6, <1>8 DEF TouchTenant, PostTenant
<1>9. CASE DatabaseGoesOrComes \/ UNCHANGED vars
  BY <1>6, <1>9 DEF DatabaseGoesOrComes, vars
<1> QED
  BY <1>2, <1>3, <1>4, <1>5, <1>7, <1>8, <1>9 DEF Next

\* A suspension ends by an upsert, or with the process.
LEMMA SuspensionKeeps ==
  ASSUME Inv, [Next]_vars, NEW h \in Serving \cap Serving', status[h] = "suspended"
  PROVE  status'[h] = "suspended" \/ PostTenant(h, "active")
<1>1. h \in Replicas /\ phase'[h] = "serving" /\ status[h] # None
  BY NoneAssumption DEF Serving
<1>2. ASSUME NEW g \in Replicas, status' = Touched(g) PROVE status'[h] = status[h]
  BY <1>1, <1>2 DEF Touched, Inv, TypeOK
<1>3. CASE \E g \in Replicas : Bootstrap(g)
  BY <1>3 DEF Bootstrap, Start, Migrate, Connect
<1>4. CASE \E g \in Replicas : Crash(g)
  <2>1. PICK g \in Replicas : Crash(g)
    BY <1>4
  <2>2. g # h
    BY <1>1, <2>1 DEF Crash, Goto, Inv, TypeOK
  <2> QED BY <1>1, <2>1, <2>2 DEF Crash, Inv, TypeOK
<1>5. CASE \E g \in Replicas, c \in Contacts : PostContact(g, c)
  BY <1>2, <1>5 DEF PostContact, AddAuditEntry
<1>6. CASE \E c \in Contacts : Reply(c)
  <2>1. PICK c \in Contacts : Reply(c)
    BY <1>6
  <2>2. at[c] \in Replicas /\ status' = Touched(at[c])
    BY <2>1 DEF Reply, Ready, AddAuditEntry, Inv, RequestHasReplica
  <2> QED BY <1>2, <2>2
<1>7. CASE \E g \in Replicas : TouchTenant(g)
  BY <1>2, <1>7 DEF TouchTenant
<1>8. CASE \E g \in Replicas, s \in Statuses : PostTenant(g, s)
  <2>1. PICK g \in Replicas, s \in Statuses : PostTenant(g, s)
    BY <1>8
  <2>2. CASE g # h
    BY <1>1, <2>1, <2>2 DEF PostTenant, Inv, TypeOK
  <2>3. CASE g = h
    BY <1>1, <2>1, <2>3 DEF PostTenant, Statuses, Inv, TypeOK
  <2> QED BY <2>2, <2>3
<1>9. CASE \E c \in Contacts : InsertContact(c) \/ InsertFails(c) \/ InsertAudit(c) \/ AuditFails(c)
  BY <1>9 DEF InsertContact, InsertFails, InsertAudit, AuditFails, audit
<1>10. CASE DatabaseGoesOrComes \/ UNCHANGED vars
  BY <1>10 DEF DatabaseGoesOrComes, vars
<1> QED
  BY <1>3, <1>4, <1>5, <1>6, <1>7, <1>8, <1>9, <1>10 DEF Next

\* As long as a process lives, its lists lose a contact to newer ones only, and
\* a suspended tenant is activated by an upsert only.
THEOREM ProcessesKeep == Spec => ProcessKeeps
<1> DEFINE Keeps == \A h \in Serving \cap Serving' :
       /\ \A c \in ToSet(Listed(h)) : OnList(c, h)'
       /\ status[h] = "suspended" => status'[h] = "suspended" \/ PostTenant(h, "active")
<1>1. ASSUME Inv, OrderInv, Inv', OrderInv', [Next]_vars PROVE Keeps
  <2>1. ASSUME NEW h \in Serving \cap Serving', NEW c \in ToSet(Listed(h)) PROVE OnList(c, h)'
    <3>1. h \in Replicas
      BY DEF Serving
    <3>2. /\ h \in pool' <=> h \in pool
          /\ table \subseteq table'
          /\ ToSet(memory[h]) \subseteq ToSet(memory'[h])
      BY <1>1, StoresKeep
    <3>3. CASE h \in pool
      <4>1. created \in Seq(Contacts) /\ IsInjective(created)
        BY <1>1 DEF Inv, TypeOK, OrderInv, CreatedOnce
      <4> DEFINE t == ByAge(created, table)
      <4>2. t \in Seq(Contacts) /\ NewestFirst(t, created) /\ ToSet(t) = ToSet(created) \cap table
        BY <4>1, ByAgeIsNewestFirst
      <4>3. Listed(h) = FirstOf(t, ListLimit)
        BY <3>3 DEF Listed
      <4> HIDE DEF t
      <4>4. ToSet(Listed(h)) \subseteq ToSet(t)
        BY <4>1, <4>2, <4>3, LimitAssumption, PageIsNewest
      <4>5. c \in table'
        BY <3>2, <4>2, <4>4
      <4>6. /\ created' \in Seq(Contacts) /\ IsInjective(created')
            /\ table' \subseteq ToSet(created')
        BY <1>1 DEF Inv, TypeOK, OrderInv, CreatedOnce, RowsHaveTimes
      <4>7. Listed(h)' = FirstOf(ByAge(created', table'), ListLimit)
        BY <3>2, <3>3 DEF Listed
      <4> QED
        BY <4>5, <4>6, <4>7, LimitAssumption, ListedUnlessFull DEF OnList
    <3>4. CASE h \notin pool
      BY <3>2, <3>4 DEF OnList, Listed
    <3> QED BY <3>3, <3>4
  <2>2. ASSUME NEW h \in Serving \cap Serving', status[h] = "suspended"
        PROVE  status'[h] = "suspended" \/ PostTenant(h, "active")
    BY <1>1, <2>2, SuspensionKeeps
  <2> QED BY <2>1, <2>2
<1>2. Inv /\ OrderInv /\ Inv' /\ OrderInv' /\ [Next]_vars => [Keeps]_vars
  BY <1>1
<1> QED
  BY <1>2, ReplicasInvariance, OrderInvariance, PTL DEF Spec, ProcessKeeps
=============================================================================
