# Verification of Enterprise AI Suite

TLA+ models of the API, its stores, its processes, its job queue, its billing and its
dashboard cache, checked with TLC; all that is not liveness is proved with TLAPS as well. Paths are
relative to the repository (`apps/api/src` is written `api`).

## The system

An Express API (two replicas in `deploy/k8s/api.yaml`), a BullMQ worker and a React shell.
Every route filters by the tenant of the request, so tenants do not meet; the models
describe one tenant. The API keeps its data in PostgreSQL when `DATABASE_URL` is set and in
the memory of the process otherwise, and uses Redis, when `REDIS_URL` is set, for jobs and
for the dashboard cache. Within a process JavaScript runs one turn at a time; a handler
gives its turn away at every `await` that leaves the process, and there any other request,
of this replica or the other, may run.

| Component | State | Operations | Interacts with |
|---|---|---|---|
| Governance policies (`api/routes/governance.js`, `api/repositories/governanceRepository.js`) | `governance_policies` (one row per policy), `governance_policy_versions` (its history) | post, bulk-upsert, rollback, list (seeds an empty tenant); read versions page by page, diff, simulate | connection pool, audit trail |
| Approvals and agent tasks (`api/routes/agents.js`, `agentRepository.js`) | `governance_approvals`, `agent_tasks` | submit a task (risky ones wait for approval), approve | queue, billing, audit |
| Workflows (`api/routes/workflows.js`) | definitions, runs | define, execute | queue, billing, audit |
| Usage and invoices (`api/routes/billing.js`, `billingRepository.js`, `api/lib/stripe.js`) | `billing_usage_events` | record usage, sum an invoice, checkout | tasks and runs charge it; Stripe |
| Job queue and worker (`api/lib/queue.js`, `apps/worker`) | BullMQ jobs in Redis | enqueue; take, complete, stall | Redis |
| Audit trail (`api/store.js`) | `auditLog` in memory, `governance_audit_logs` | `addAuditEntry` (insert not awaited), read with retention and filters | every writing route |
| Dashboard (`api/routes/analytics.js`, `api/lib/redis.js`) | a Redis key with 30 s to live | read through | seven lists; seeds policies |
| Contacts (`api/routes/crm.js`, `contactRepository.js`) | `crm_contacts`, or a list of the process | create, list the newest 500 | audit trail |
| Tenant directory (`api/routes/tenants.js`, `api/store.js`) | a map of each process | read (makes a record), upsert | every request that a process serves from its own state |
| Bootstrap (`api/index.js`, `api/lib/postgres.js`, `api/lib/migrations.js`) | which store and queue a process uses | start | all of the above |
| Tokens and roles, telemetry, web shell, shared constants | none | see *Not modelled* | |

What is hard here, and where, is listed line by line in `PROJECT.json` ("hazards"). In short:
a version number is read in one statement and used in another; a transaction can fail, be
cut off, or commit without its caller learning of it; a connection can leak; a read outside
the transaction decides what is written inside (seeding, rollback); handlers are sequences of
calls without a transaction, so each prefix of them can be all that happens, and a reviewer
can act between two of them; Redis can be away for any time, and a command to it can be sent
twice; workers can die with a job;
count and page of a listing are two snapshots; a cache is filled by readers who may be late,
from queries that return a limited number of rows;
each replica chooses its store when it starts and keeps it; audit entries travel on their own;
an invoice is a sum over as many events as a query returns.

## Modules

| Module | What it is |
|---|---|
| `PolicyRegistry` | the abstract promise of the policy store: current content and complete history change in one step |
| `PolicyStore` | the PostgreSQL policy store, one action per awaited database call, with pools, row locks, failures and crashes; implements `PolicyRegistry` |
| `PolicyStoreProofs` | theorems about `PolicyStore`: the transactions, then rollbacks, audit trail and answers |
| `PolicyMemory` | the policy store in the memory of a process, with the diff of two versions; implements `PolicyRegistry` |
| `PolicyMemoryProofs` | theorems about `PolicyMemory` and `PolicyParity` |
| `PolicyParity` | one client, a process with a database and one without: where the two stores agree |
| `Operations` | tasks, approvals, workflows, usage, jobs and the worker, in both storage modes |
| `OperationsProofs` | theorems about `Operations` |
| `Listing` | what `Replicas` and `Billing` list: the rows that pass a condition, newest first, up to a limit |
| `ListingProofs` | lemmas about `Listing` |
| `Replicas` | the API processes from bootstrap to crash: pool, contacts, audit log, tenant directory |
| `ReplicasProofs` | theorems about `Replicas` |
| `Billing` | usage, invoice and checkout |
| `BillingProofs` | theorems about `Billing`, and lemmas about sums |
| `VersionPages` | paging through a history that grows |
| `VersionPagesProofs` | theorems about `VersionPages` |
| `DashboardCache` | the dashboard readers and their cache |
| `DashboardCacheProofs` | theorems about `DashboardCache` |
| `MCPolicyStore`, `MCPolicyParity`, `MCOperations`, `MCBilling`, `MCVersionPages` | definitions the TLC configurations use: bodies, symmetry, limits |

### PolicyStore

Each request has a program counter `pc` that names the call it makes next:
`connect` (`pool.connect`), `begin` (BEGIN and the upsert, which takes the row lock), `max`
(SELECT MAX), `insert` (the version), `commit`, then `committed` (the `finally` and the rest of
the handler) or `abort` (the `catch`: ROLLBACK, then `finally`). Reads are `lookup` (the target
of a rollback), `read` and `reread` (the list, before and after seeding). `kind` is the
endpoint and decides what follows: the next item of a bulk request, the second SELECT after a
seed, or the answer. The four endpoints share `upsertGovernancePolicy`, and so the actions.

- The transaction is READ COMMITTED. Its own writes are not stored before `Commit`, which
  applies both; what others can see of an open transaction is its row lock (`rowLock`) and its
  uncommitted unique key (`Pending`).
- `Commit` can take effect and be reported as failed; the code then rolls back a
  transaction that is over, and answers an error.
- `TxnError` is a statement that fails, `PoolError` a `connect` or `pool.query` that fails,
  `Crash` a replica that dies: its connections close and the server rolls back.
- `held` counts connections lent for a transaction. `pool.query` borrows one for a single
  statement, so it needs a free one (`PoolFree`) but is not counted afterwards. The statements of a
  transaction go over the connection it holds and wait for no other (`ClientFree`).
- `audit` is the set of entries handed to `addAuditEntry`; the way of an entry to its table is in `Replicas`.
- The content of a policy (name, enabled, when, action) is one value; validation by zod,
  the change reason and time stamps are left out. Of the author, "system-seed" is kept apart.

The fault of a transaction whose ROLLBACK itself fails shows as `Crash` of the server side:
the lock is freed and the connection replaced.

### PolicyMemory and PolicyParity

Without a pool no call of a policy handler leaves the process, so each request is one turn and one
action; only the items of a bulk request are steps, with nothing between them (`todo`). A content is a
function of its fields, so that the diff (`Changed`, `Diff`, `HasChanges`) can be modelled by what it
does. `audited` is, per policy, the actions that `addAuditEntry` received.

Both stores promise `PolicyRegistry`, which differs for them only in `Preset`: memory starts with the
default policy, listed and without a version; a database starts empty and is seeded by the first list
that finds it so. `PolicyParity` sends the same requests to `PolicyMemory` and to a registry with that
seeding (`PolicyStore` is proved to be one) and compares. `List` is the GET that seeds. When the first
request of a tenant is a write, the database is never seeded, and one of the policies is missing there.

### Operations

A handler is a record that maps each awaited call to the next one (`HighCalls`, `LowCalls`,
`WorkflowCalls`, `DefineCalls`, `UsageCalls`): the order of the calls is the order in the code,
and each call is an action on its table. A submission names the task, run, definition, approval
and usage event it creates, since each has a fresh uuid. `Submit` starts a handler, `Review`
starts POST `/approvals/:id/approve`.

- `store = "postgres"`: each call is a statement; it may fail without effect (`CallFails`), take
  effect and look failed (`Proceed`), or be the last the replica does (`Lose`).
- `store = "memory"`: a call does not leave the process, so the handler keeps the `turn` until it
  waits for Redis; a restart of the process (`Restart`) loses the tables but not the queue.
  Continuations of two handlers whose Redis answers arrive in the same read can alternate in
  finer steps than modelled; both only append a charge and an entry then. The mark of a task
  differs too: in memory it changes only a task that waits (`MarkedTasks`).
- `enqueueJob` is at its `enqueue` until Redis has run the command (`AddJob`), and `queued` until the
  answer is back (`Answered`). If the connection breaks in between, ioredis sends the command again
  (`Resend`) and, as the job has no id of its own, another copy is added. A worker can have the job
  before its handler goes on. Without a queue, `enqueueJob` returns at once (`EnqueueNothing`).
- The queue is BullMQ: a job is `waiting`, `active`, then `done`; one whose worker dies goes
  back once and fails the second time (`AfterStall`, BullMQ's `maxStalledCount` of 1). The
  processor never throws, so `attempts` and `backoff` never come into play.
- `hasQueue` is whether `REDIS_URL` is set, and `redisUp` whether Redis answers; it may be away from
  the start. Because of `maxRetriesPerRequest: null` a queue command waits and does not fail while Redis is away; one that
  Redis refuses fails (`CallFails`).

### Listing

`ByAge` is ORDER BY a time stamp DESC, `Those` is WHERE or `filter()`, `FirstOf` is LIMIT or `slice(0, n)`.
The order of the time stamps is a sequence, and a condition is the set of what passes it. `Those` is a
recursive function, which the prover can unfold, and not the `SelectSeq` of the standard modules, which it
cannot.

### Replicas

A process is `down`, in `migrate` (`runMigrations`), in `connect` (`initPostgres`), or `serving`;
`pool` is the set of those with a pool, which decides at each call where it goes. The two ways a
start can go wrong differ: migrations that throw are caught before there is a pool (`Migrate`), a
`SELECT 1` that fails is caught after (`Connect`). `db` is `up`, `away` (connections are refused or
break) or `silent` (they are accepted and nothing is answered), and changes freely; a migration can also
fail while the database is up, as knex refuses while another replica holds its lock. Bootstrap sets no
time limit, so with a silent database a start waits (`Answers`) until the database or the network ends
the wait, which is a change of `db`. The liveness probe of `deploy/k8s/api.yaml` may end such a process
first: that is a `Crash`.

`PostContact`, `InsertContact`, `InsertFails` and `Reply` are POST `/contacts` around its one `await`.
`AddAuditEntry` puts the entry in the log of the process and sends an insert, which `InsertAudit`
writes or `AuditFails` drops, in any order. `created` and `stamped` keep the order of the time stamps,
which are taken before the rows are written; reads sort by them (`ByAge`). Replicas are taken to have
one clock. `Listed` and `AuditPage` are what a GET would answer: they read only, and are part of
properties and not actions. `at` is the process a contact went to, until that process is gone. The
filters of the audit query are an arbitrary set of entries that pass.
`status` is the tenant's status in the directory of each process; `TouchTenant` stands for each request
that calls `getTenantState`. `Crash` takes all a process kept, and what it had sent may still arrive.

### Billing

Amounts are integers, in hundredths of a cent, and units tenths of a unit. The sums of the code are
binary fractions; rounding them to cents is exact except at half a cent, where either neighbour is
allowed (`RoundCents`). `PostUsage`, `InsertUsage`, `InsertFails` and `Reply` are POST `/usage` around
its `await`; `Checkout`, `Price` and `CreateSession` are POST `/checkout` around its two. The limit is
in the query only: in memory all events are listed. Stripe is whatever makes a session or fails.
`since` and `until` are kept for `AmountFromWindow` and nothing reads them. The column of the units is
`decimal(14, 4)`: tenths pass through it unchanged, and a number of more than ten digits is an insert
that fails. Fractions finer than four places, which the column rounds and the memory does not, are left
out.

### VersionPages

One client follows `hasMore` from the first page to the last while policy writes append
versions. `Marks` stands for everything the filters `changedBy`, `startDate` and `endDate` can
distinguish. `Count` and `SelectPage` are the two statements of the PostgreSQL branch,
`FilterItems` the one turn of the in-memory branch. `Clamped` is the treatment of `limit` by
the handler and again by the repository (which changes nothing the first has not); an absent
and an unparsable value are treated alike and are both `NoNumber`. The client (`NextPage`,
`Resume`) is not in the repository and is modelled from the README's paging example.

### DashboardCache

`Hit` and `Miss` are the two outcomes of `cacheGetJson`; `ReadList` is one of the seven parallel
queries returning; `FindNoPolicies` and `WriteSeed` are the list of policies that seeds; `SetCache`
is `cacheSetJson` and the answer. A list is abstracted to the number of its rows (`rows`) and of those
past the retention (`old`). What a query shows of them is `Shown`: at most `Limit` of the rows that are
not past the retention. Over PostgreSQL all lists but the policies are `Limited`, in memory the audit log
alone; the audit log is also `Retained`. One `Limit` stands for the 500 of six queries and the 2000 of the
usage events. A payload carries, for the properties only, the rows and the retained rows of the moment its
reader began (`since`, `gone`).

## Runs

| Run | What it shows | Bounds |
|---|---|---|
| `policy_safety` | `GapFree`, `CurrentIsLatest`, `RollbackRestores`, `AuditMatchesHistory`, `AnswerIsTruthful`, `NoClientLeak`, and that the store implements the registry (`RegistrySpec`) | 3 requests, 2 replicas, 2 policies, 2 contents, pools of 1, one bulk body of 2 items, rollback to version 1 |
| `policy_progress` | every request ends | 3 requests of one replica, one policy, a pool of 2, no bulk requests |
| `policy_seed` | *violated*: the seed is not always the first version | 2 requests |
| `policy_memory` | `AuditTellsHistory`, `DiffExplains`, `RegistrySpec` for the in-memory store; `StoresAgree` for both | 2 policies, 3 contents that differ in one field or two, a bulk body of 3 items, 3 versions |
| `operations_safety` | `WorkExists`, `GateStandsFirst`, `AuditedIsComplete`, `CompletedStays` | 2 submissions, 2 reviews, both storage modes, with and without Redis, each job added once |
| `operations_progress` | every copy of a job ends; `OnlyJobsWait`: what an outage of Redis without end can hold up; `ReviewTakesEffect` | 1 submission, 2 reviews, both storage modes, with and without Redis, a job added twice |
| `operations_gate` | *violated*: the job of a risky task runs before its approval | 1 submission, 1 review |
| `replicas` | `AcknowledgedIsListed`, `AuditNamesContact`, `AuditPageIsNewest`, `ProcessKeeps`, `EveryReplicaServes` | 2 replicas, 2 contacts, lists of 1 (for 500); with and without database and migrations; crashes without bound |
| `replicas_fallback` | *violated*: with `DATABASE_URL` set, contacts are not always persisted | 1 replica, 1 contact |
| `billing` | `InvoiceIsComplete`, `InvoiceAddsUp`, `AmountFromWindow`, `OwedGrows` | 3 events of 3 valid bodies, a limit of 2 (for 2000), one client who checks out twice |
| `versions_walk` | `NoHoles`, `CompleteOrGrown` | 6 versions, 2 marks, limits from -1 to 4 and none, default 2 (for 50), maximum 3 (for 500) |
| `dashboard` | `CountsAreFromTheWindow`, `PoliciesAreSeeded`, `CacheSettles` | 2 readers, 2 lists of 2 rows, one of them with a limit of 1 (for 500 or 2000) and a retention |

Each of the passing runs checks a type invariant as well, except the two that check progress.

Why the bounds are enough. Three requests over two connections are the smallest number with a holder
of the row, a waiter for the row that holds a connection, and a waiter for a connection, which is the
instance of `policy_progress`. `policy_safety` has two replicas, whose transactions meet at the row; its
two policies let a bulk request hold one while others write the other, and its pools of one make every
leak a stop (the code's default of ten needs ten). Two submissions and two reviews give every pair of
handlers, a second review of an approval and a workflow executed while it is defined; for a review that repairs
another, one submission and two reviews. Two replicas give one with and one without a pool side by
side, two contacts an insert that is overtaken and a list that is full; crashes need no bound, as what a
process kept goes with it. A job added twice is one that is done while its handler waits and again
afterwards. A list of two rows over a limit of one is cut, and is full again when a row has passed the
retention. Three events over a limit of two push one out, and half a cent is the
charge whose rounding is in doubt. Three versions give a rollback of a rollback, and a number that
means different contents in the two stores. A walk needs two pages and an append in front of each; six
versions with limits 1 to 3 give walks of up to six pages. Two readers give the slow one that
overwrites the fast one. The numbers of requests, versions and changes are bounds of the instances,
not of the models: the proofs have none of them, except `MaxVersions`, `MaxRows`, `MaxNumber`, `MaxSessions`
and `MaxAdds`, which are arbitrary there.

Symmetry is used over requests and replicas in `policy_safety`, over submissions and reviews in
`operations_safety` and over events in `billing`, where no definition tells members of these sets
apart; these runs check no liveness.

Fairness. `PolicyStore!FairSpec` is weak fairness of each request's `Progress`: the database
answers each statement and the pool and the row lock are queues, so a request is not passed
over while what it waits for stays free. Nobody is obliged to send requests, and failures and
crashes stay possible but are never assumed. That weak fairness suffices is itself the result:
every request ends or is cut off, however the others overtake it, because requests are finitely
many. `Operations!FairSpec` is the same for its handlers, with strong fairness of what needs Redis: a
command that is resent whenever Redis returns gets through, and a job that is offered again and again is
taken and then completed or stalled, if Redis is there often enough. It does not say that Redis ever is:
a Redis that stays away is in the model, as the configuration of the code accepts it, and shows in the
exceptions of `OnlyJobsWait` and `EveryJobEnds`. In `Replicas!FairSpec` a step of
a bootstrap ends once it stays possible, which it does not with a silent database, and Kubernetes starts
a process that died (`deploy/k8s/api.yaml`); nothing is assumed of the database, which may stay away or
silent, nor of clients, and processes may go on dying. `DashboardCache!FairSpec` asks that queries are answered
and that an entry with a time to live expires.

Deadlock is checked in every run but `billing`, `policy_memory` and the three of `Operations`, which
stop when their events, versions or requests are used up; `Terminated` in `PolicyStore` is the state in
which each request has ended. It says little where a crash or a failure is possible in almost every state, as in
`policy_safety`; that nobody waits on everybody there is what `policy_progress` shows, whose fairness
obliges no failure.

## What the runs say about the code

Violated:

- **Seed over edit** (`policy_seed`). `listGovernancePolicies` sees no rows, then upserts with
  ON CONFLICT DO UPDATE. If the default policy was edited in between, the "initial tenant policy
  seed" becomes its version 2 and the edit is no longer in force. Two readers seed twice.
- **Jobs do not wait for the gate** (`operations_gate`). The job of a risky task is enqueued with
  the task; the worker does not look at `requiresApproval`, and approving starts nothing.
- **Memory in spite of a database** (`replicas_fallback`). A replica whose migrations throw at its start
  never gets a pool: although `DATABASE_URL` is set it acknowledges contacts that only it knows, until
  it is restarted. `SELECT 1` failing instead does not have this effect, against the warning it logs.

Held only with an exception, which the property names:

- **Approval before task** (`ReviewTakesEffect`). An approval can be approved before its task is
  inserted; the UPDATE then matches nothing, the reviewer is told of success, and the task arrives as
  `pending_approval`. The property therefore speaks of reviews that find the task waiting: such a review
  repairs it, also after one that broke off between approval and task.
- **Redis away** (`OnlyJobsWait`). The README has jobs enqueued "when Redis is available", and bootstrap has
  a warning that jobs are disabled when it is not; but a Redis that is configured and unreachable does not
  switch the queue off. A submission then stays in `queue.add` with its row stored (and, for a run, its
  charge written), and its client is not answered while Redis stays away. Nothing else is held up: reviews,
  recorded usage and definitions end, also in memory, where all handlers share one process.
- **A job twice** (`EveryJobEnds`). A resent command adds a second copy, and nothing tells the worker that it
  has done the job before. `EveryJobEnds` is about each copy, and excuses those of a Redis that never
  returns.
- **Silent database** (`EveryReplicaServes`). A database that is away does not keep a replica from serving.
  One that accepts connections and never answers does, as bootstrap awaits `SELECT 1` without a time limit.
- **Capped dashboards** (`CountsAreFromTheWindow`). The counts are of what the queries return: a tenant
  with 600 contacts is shown 500, and its audit events are those of the retention.
- **Own memory** (`AcknowledgedIsListed`). What a process without a pool acknowledged is on its own list
  until it dies, and on no other.
- **Last page** (`CompleteOrGrown`). `hasMore` is computed from a COUNT older than the page; a version
  committed between the two hides the oldest row from a client that stops at `hasMore: false`.
- **Two meanings of a number** (`StoresAgree`). The default policy has no version in memory and, once
  listed, one in the database; a rollback by number then restores different contents. A database whose
  first request is a write of another policy never gets the default policy.
- **Charged again** (`AmountFromWindow`, `OwedGrows`). Nothing marks usage as paid: two checkouts both
  charge all that is owed, and what is owed shrinks only when the limit of the query is passed.

## What is proved

All theorems hold for every value of the constants under the named assumptions of the modules
(for `PolicyStore`: pools have a connection, the default policy is a policy, `None` and `Seed` are
not requests, rollback targets are positive, bulk bodies are not empty). No bound on the number of
requests, replicas, policies or versions is used.

`PolicyStoreProofs`. The inductive invariant `IndInv` is the type invariant together with

- `LockDiscipline`: a row lock belongs to exactly the open transaction that wrote the row;
- `NumberIsNext`: a transaction that has read its number and holds the row has the next number
  still (nobody else can append to this policy while it holds the row);
- `Filled`: a transaction has content to write;
- `Contiguous`, `Unique`: the numbers of a policy are 1..n, once each;
- `CurrentIsLatest`;
- `Accounted`: each pool has lent exactly the connections of the requests inside
  `upsertGovernancePolicy`, a finite set.

`GapFree` alone is not inductive: without the lock the number a transaction carries could be taken
when it commits. The argument is therefore lock, then number, then history. From `IndInv` follow
`TypeCorrect`, `NumberingIsGapFree`, `CurrentMatchesLatest`, `LocksAreDisciplined`,
`IndexNeverClashes` (the unique index never refuses), `ClientsAreReleased`, the action property
`HistoryGrows`, and `StoreImplementsRegistry`: under the mapping `current <- policies`,
`history <- the contents in order of their numbers`, `Commit` is `Put` and every other step stutters.

Its second part: `History` follows each request (`Story`): a rollback that has found its target still
has it when it writes, as versions are never removed (`HasFound`), and by `NumberIsNext` the copy gets a
higher number; a version without an audit entry has an author that has still to make it, has failed, or had
a failed item (`IsAudited`); a success is of a committed version (`IsTrue`). A step of one request leaves
the stories of the others alone (`OthersKeep`). It gives `RollbacksRestore`, `AuditTellsTruth` and
`AnswersAreTruthful`.

`PolicyMemoryProofs`. `Inv` is the type invariant, `AuditTellsHistory` and `CurrentIsLatest`. Every step is
a `Put` whose number, by the audit log, is one more than the number of versions (`LogCounts`, `PutExtends`),
and whose content, for a rollback, is that of a version of the same policy. From it follow
`MemoryTypeCorrect`, `MemoryAuditTellsHistory` and `MemoryImplementsRegistry`; `DiffsExplain` follows from
the types, as the compared fields are all the fields of a content. `Parity` joins `Inv` with the tables of
the database (`WrittenOrNone`: a policy without content has no history) and with `OthersAgree`. A step
writes the same in both stores or nothing in either, seeds the database, or rolls the default policy back
(`ParityCases`); on a policy where the histories agree a number means the same version in both
(`RestoresFromHistory`, `RollbackAgrees`). The seed is written only when there is no history, so it comes
first or not at all (`SeedStays`); this is `StoresAlwaysAgree`.

`OperationsProofs`. A handler has no transaction, so what relates the tables is the order of its calls. `Inv`
says, per call, what is done before it and what is not yet (`BeforeTable`: no task, no charge, and for a
risky task its approval first; `AfterTable`: what is charged and queued is there, a task is not charged
before it is queued and a run is charged by then), that a handler that has
not begun has done nothing (`IdleIsClean`), and that a review between approval and task has an approved
approval (`ReviewsFollow`), which only a risky task has (`RiskyOnly`). A handler that breaks off changes no
table, and a resent command changes no fact about a job but how many copies it has, so `WorkExists`,
`GateStandsFirst` and `AuditedIsComplete`, which ask for what comes earlier in the order, survive; this gives `OperationsTypeCorrect`, `ChargedWorkExists`, `GatesStandFirst`,
`AuditReportsComplete` and, as a task is inserted once and a review only completes it, `CompletedTasksStay`.

`ReplicasProofs`. An entry is made only after the answer of its insert, so `Inv` carries where a confirmed
row is (`ConfirmedIsStored`), where each request went (`RequestHasReplica`), and that a deployment without
migrations has no way around the pool (`ServesFromPool`). It gives `ReplicasTypeCorrect`,
`AuditEntriesNameContacts` and `AcknowledgedContactsAreStored`: there every acknowledged contact is in the
table, whatever crashes.

What is *listed* needs the order. `OrderInv` adds that contacts and entries have one time stamp each
(`CreatedOnce`, `StampedOnce`), that each row has one (`RowsHaveTimes`), that the lists a process keeps are
newest first (`CopiesAreNewestFirst`, by `NewestFirstGrows`), and that what was acknowledged is still where
its process serves from, as long as that process lives (`KeptWhileAlive`, which needs `SentByPool`: a
process that waits for the database has not changed its store since). With the lemmas about listings it gives
`AcknowledgedContactsAreListed`, `AuditPagesAreNewest` (for every filter and limit, in whatever order the
inserts landed) and the action property `ProcessesKeep`.

`ListingProofs`. `NewestFirst(t, s)`: the members of `t` have times in `s`, and later ones come first. A
selection keeps that order (`SelectionKeepsOrder`, by induction over the sequence), its reverse is newest
first (`ByAgeIsNewestFirst`), and of such a sequence a page of n has as many as asked for or all there are,
all newer than those left out (`PageIsNewest`). Hence a row is on the page, or the page is full of newer
ones (`ListedUnlessFull`).

`BillingProofs`. `Inv` says that an event is recorded once and keeps what it reports (`RecordedOnce`), that
rows and audit entries are of recorded events (`RowsAreRecorded`), and that the total of a priced checkout,
and then what its session charges, lies between what was owed when it was asked for and what is owed by now
(`TotalsFromWindow`, `SessionsFromWindow`); `AmountFromWindow` alone is not inductive, as it says nothing of a
checkout that has read its events and not yet called Stripe. What others record only adds rows
(`StepKeepsRows`), so an upper end stays one (`OwingGrows`), and the lower end is safe as long as all rows are
listed (`ListedRows`). The least that Stripe takes does not matter, because the subscription alone is more
(`UnitAmountIsTotal`). It gives `BillingTypeCorrect`, `InvoicesAreComplete`, `InvoicesAddUp`,
`AmountsFromWindow` and `WhatIsOwedGrows`.

Induction. The theorem library states induction for an arbitrary predicate, which no installed prover can
instantiate. `FiniteSetInduction` and `CountingUp` state it for a *set* of the good cases instead and follow
from the well-foundedness of the strict subset order of a finite set. With them `BillingProofs` proves of the
sum that an invoice is (a fold of the community modules) that it exists, is unique, is a natural number
(`SumType`), is monotonic (`SumMonotonic`) and depends on its addends only (`SumEqual`).

`VersionPagesProofs`. A version's rank only grows, so what has been sent down to a rank stays sent
(`ReadSoFar`). This gives `WalksHaveNoHoles` and, where count and page are one step,
`MemoryWalksAreComplete`. Over PostgreSQL the argument needs that as many versions match as were counted;
that more may is the exception of `WalksAreCompleteUnlessGrown` (`MatchingGrows`: never less).

`DashboardCacheProofs`. `InProgress` says of each reader what it has read so far: each count is what the
query shows of some rows and some retention between its start and now (`Window`), and the policies are not
empty. Rows only come and only age (`RowsStep`), so a window once met stays met (`WindowStays`). It gives
`DashboardTypeCorrect`, `DashboardsAreTrue` and `DashboardsShowPolicies`.

Only model-checked: the liveness properties (`EveryRequestEnds` of `PolicyStore`, `OnlyJobsWait`, `EveryJobEnds`,
`ReviewTakesEffect`, `EveryReplicaServes`, `CacheSettles`), which this prover does not reach. Every invariant, every action property
and both refinements that the passing runs check are theorems. Three properties are violated and have
counterexamples instead (above).

## Not modelled

- Tokens and roles (`api/middleware`, `api/lib/auth.js`, `api/routes/auth.js`): a table lookup per
  request and library checks; no state.
- Simulation of a policy: JavaScript's own evaluation of the expression in the request. The policies
  are never consulted when a task is submitted (`agents.js:34` has the threshold), so nothing depends on it.
- The webhook of Stripe: it checks a signature and answers; nothing is recorded.
- Repeated requests: the server chooses every id, so a client that repeats a request creates anew.
  There is nothing in the state by which the two could be related.
- The web shell: three reads in parallel and one assignment of each; a slow load can be shown over a
  later one.
- Limit and retention of the audit query that are no numbers or fractions: they end in the default or an
  error of the query and change nothing.
- Telemetry and knex (libraries; that migrations may throw is in `Replicas`), the shared constants
  (unused), the manifests beyond replicas and restarts.

## Open

Composing the replicas with the transactions of the policy store: each is modelled with the crashes of
processes, but not in one state. The same holds of `PolicyParity`: its database is the registry that
`PolicyStore` is proved to implement, under requests that do not overlap.
