----------------------------- MODULE Operations -----------------------------
(***************************************************************************)
(* The billable work of one tenant: agent tasks with their approval gate,  *)
(* workflow definitions and executions, recorded usage, the jobs put on    *)
(* the queue for the worker, and the reviews that approve risky tasks.     *)
(*                                                                         *)
(* A handler is a list of awaited calls with no transaction around them.   *)
(* With store = "postgres" every call is a statement of its own and other  *)
(* requests run in between; with store = "memory" a call only touches the  *)
(* process and the handler keeps its turn until it waits for Redis.        *)
(***************************************************************************)
EXTENDS Naturals, FiniteSets

CONSTANTS
  Submissions,  \* POSTs of work; each is used once and names what it creates
  Reviews,      \* POSTs of /approvals/:id/approve; each is used once
  Stores,       \* the storage modes of a behaviour: "postgres", "memory"
  MaxAdds,      \* bound on the copies of a job: how often its command is run
  None          \* no value

ASSUME StoreAssumption == Stores \subseteq {"postgres", "memory"}
ASSUME AddsAssumption == MaxAdds \in Nat \ {0}
ASSUME DistinctAssumption == Submissions \cap Reviews = {}
ASSUME NoneAssumption == None \notin Submissions \cup Reviews

Requests == Submissions \cup Reviews
Adds == 1..MaxAdds

VARIABLES
  store,        \* the mode the process started in
  hasQueue,     \* REDIS_URL is set, so initQueue made a queue
  pc,           \* request -> the call it makes next, or how it ended
  kind,         \* submission -> what is submitted
  target,       \* request -> the workflow to execute or the task to approve
  turn,         \* the request that holds the process, or None
  approvals,    \* governance_approvals: task -> its status
  approvedBy,   \* task -> the review that approved it last, or None
  tasks,        \* agent_tasks: task -> its status and outcome
  definitions,  \* workflow_definitions
  runs,         \* workflow_runs
  usage,        \* billing_usage_events: submission -> events written
  audit,        \* requests whose handler called addAuditEntry
  jobs,         \* submission -> copy -> state of that job on the queue
  stalled,      \* jobs (submission and copy) that lost a worker once
  redisUp       \* Redis answers

tables == <<approvals, approvedBy, tasks, definitions, runs, usage>>
queue  == <<jobs, stalled, redisUp>>
vars   == <<store, hasQueue, pc, kind, target, turn, tables, audit, queue>>

Kinds == {"high", "low", "workflow", "define", "usage"}

\* Faults: the calls of a handler in another order.
HighCalls_TaskFirst == [start |-> "task", task |-> "approval", approval |-> "enqueue",
                        enqueue |-> "bill", bill |-> "ok"]
LowCalls_Retry      == [start |-> "task", task |-> "enqueue", enqueue |-> "bill",
                        bill |-> "enqueue"]
LowCalls_BillFirst  == [start |-> "bill", bill |-> "task", task |-> "enqueue", enqueue |-> "ok"]
WorkflowCalls_NoJob == [start |-> "lookup", lookup |-> "run", run |-> "bill", bill |-> "ok"]
UsageCalls_Metered  == [start |-> "bill", bill |-> "enqueue", enqueue |-> "ok"]

\* The awaited calls of each handler, in order: each call and its successor.
\* POST /agents/tasks asks for approval when riskScore >= 0.7 ("high"); the
\* policies are not consulted.
HighCalls == [start |-> "approval", approval |-> "task", task |-> "enqueue",
              enqueue |-> "bill", bill |-> "ok"]
LowCalls  == [start |-> "task", task |-> "enqueue", enqueue |-> "bill", bill |-> "ok"]
WorkflowCalls == [start |-> "lookup", lookup |-> "run", run |-> "bill", bill |-> "enqueue",
                  enqueue |-> "ok"]
DefineCalls == [start |-> "define", define |-> "ok"]
UsageCalls  == [start |-> "bill", bill |-> "ok"]
NextCall == [high |-> HighCalls, low |-> LowCalls, workflow |-> WorkflowCalls,
             define |-> DefineCalls, usage |-> UsageCalls]

StoreCalls == {"approval", "task", "lookup", "run", "bill", "define", "approve", "mark"}
QueueCalls == {"enqueue", "queued"}
Calls == StoreCalls \cup QueueCalls
Done  == {"ok", "notfound", "error", "lost"}
PCs   == {"idle"} \cup Calls \cup Done
JobStates == {"none", "waiting", "active", "done", "failed"}

NoRows ==
  /\ approvals' = [t \in Submissions |-> "none"]
  /\ approvedBy' = [t \in Submissions |-> None]
  /\ tasks' = [t \in Submissions |-> "none"]
  /\ definitions' = {} /\ runs' = {}
  /\ usage' = [s \in Submissions |-> 0]
  /\ audit' = {}

Init ==
  /\ store \in Stores /\ hasQueue \in BOOLEAN
  /\ pc = [r \in Requests |-> "idle"]
  /\ kind = [s \in Submissions |-> "usage"]
  /\ target = [r \in Requests |-> None]
  /\ turn = None
  /\ approvals = [t \in Submissions |-> "none"]
  /\ approvedBy = [t \in Submissions |-> None]
  /\ tasks = [t \in Submissions |-> "none"]
  /\ definitions = {} /\ runs = {}
  /\ usage = [s \in Submissions |-> 0]
  /\ audit = {}
  /\ jobs = [s \in Submissions |-> [n \in Adds |-> "none"]]
  /\ stalled = {}
  /\ redisUp \in IF hasQueue THEN BOOLEAN ELSE {TRUE}

-----------------------------------------------------------------------------
\* A call that stays inside the process does not give the turn away.
Local(call) == IF call = "enqueue" THEN ~hasQueue
               ELSE store = "memory" /\ call \in StoreCalls

MayRun(r) == turn \in {None, r}

\* Request r goes on to `next`; the audit entry is written with the answer.
GoTo(r, next) ==
  /\ pc' = [pc EXCEPT ![r] = next]
  /\ turn' = IF Local(next) THEN r ELSE None
  /\ audit' = IF next = "ok" THEN audit \cup {r} ELSE audit

\* After its call, r goes on; or the statement took effect, its answer was
\* lost, and the handler ends with an error.
Proceed(r, next) ==
  \/ GoTo(r, next)
  \/ store = "postgres" /\ GoTo(r, "error")

At(r, call) == pc[r] = call /\ MayRun(r)
Following(s) == NextCall[kind[s]][pc[s]]

Submit(s) == \E k \in Kinds, d \in Submissions :
  /\ At(s, "idle")
  /\ kind' = [kind EXCEPT ![s] = k]
  /\ target' = [target EXCEPT ![s] = IF k = "workflow" THEN d ELSE s]
  /\ GoTo(s, NextCall[k].start)
  /\ UNCHANGED <<store, hasQueue, tables, queue>>

CreateApproval(s) ==
  /\ At(s, "approval")
  /\ approvals' = [approvals EXCEPT ![s] = "pending"]
  /\ Proceed(s, Following(s))
  /\ UNCHANGED <<store, hasQueue, kind, target, approvedBy, tasks, definitions, runs, usage, queue>>

CreateTask(s) ==
  /\ At(s, "task")
  /\ tasks' = [tasks EXCEPT ![s] = IF kind[s] = "high" THEN "pending" ELSE "executed"]
  /\ Proceed(s, Following(s))
  /\ UNCHANGED <<store, hasQueue, kind, target, approvals, approvedBy, definitions, runs, usage, queue>>

CreateDefinition(s) ==
  /\ At(s, "define")
  /\ definitions' = definitions \cup {s}
  /\ Proceed(s, Following(s))
  /\ UNCHANGED <<store, hasQueue, kind, target, approvals, approvedBy, tasks, runs, usage, queue>>

LookupDefinition(s) ==
  /\ At(s, "lookup")
  /\ GoTo(s, IF target[s] \in definitions THEN Following(s) ELSE "notfound")
  /\ UNCHANGED <<store, hasQueue, kind, target, tables, queue>>

CreateRun(s) ==
  /\ At(s, "run")
  /\ runs' = runs \cup {s}
  /\ Proceed(s, Following(s))
  /\ UNCHANGED <<store, hasQueue, kind, target, approvals, approvedBy, tasks, definitions, usage, queue>>

CreateUsage(s) ==
  /\ At(s, "bill")
  /\ usage' = [usage EXCEPT ![s] = @ + 1]
  /\ Proceed(s, Following(s))
  /\ UNCHANGED <<store, hasQueue, kind, target, approvals, approvedBy, tasks, definitions, runs, queue>>

\* enqueueJob returns at once without a queue.
EnqueueNothing(s) ==
  /\ At(s, "enqueue") /\ ~hasQueue
  /\ GoTo(s, Following(s))
  /\ UNCHANGED <<store, hasQueue, kind, target, tables, queue>>

\* With one, Redis runs the command: a job, which carries no id of its request.
\* A command waits for Redis without limit (maxRetriesPerRequest is null).
AddJob(s) == \E n \in Adds :
  /\ pc[s] = "enqueue" /\ hasQueue /\ redisUp
  /\ jobs[s][n] = "none" /\ \A m \in 1..(n - 1) : jobs[s][m] # "none"
  /\ jobs' = [jobs EXCEPT ![s][n] = "waiting"]
  /\ pc' = [pc EXCEPT ![s] = "queued"]
  /\ UNCHANGED <<store, hasQueue, kind, target, turn, tables, audit, stalled, redisUp>>

\* The answer gets back; workers may have the job by now.
Answered(s) ==
  /\ At(s, "queued") /\ redisUp
  /\ GoTo(s, NextCall[kind[s]].enqueue)
  /\ UNCHANGED <<store, hasQueue, kind, target, tables, queue>>

\* Or the connection breaks before: ioredis (external) sends the command again.
Resend(s) ==
  /\ pc[s] = "queued" /\ \E n \in Adds : jobs[s][n] = "none"
  /\ pc' = [pc EXCEPT ![s] = "enqueue"]
  /\ UNCHANGED <<store, hasQueue, kind, target, turn, tables, audit, queue>>

-----------------------------------------------------------------------------
\* POST /approvals/:id/approve

Review(v) == \E t \in Submissions :
  /\ At(v, "idle")
  /\ target' = [target EXCEPT ![v] = t]
  /\ GoTo(v, "approve")
  /\ UNCHANGED <<store, hasQueue, kind, tables, queue>>

\* Faults: the review completes a task that is not there yet; or only the
\* first review of an approval goes on to its task.
AfterApprove_FirstOnly(v) == IF approvals[target[v]] = "approved" THEN "ok" ELSE "mark"
MarkedTasks_Upsert(t) == [tasks EXCEPT ![t] = "approved"]

\* Any approval that exists is approved, again if need be; none is a 404.
AfterApprove(v) == "mark"
Approve(v) ==
  /\ At(v, "approve")
  /\ IF approvals[target[v]] = "none"
     THEN GoTo(v, "notfound") /\ UNCHANGED <<approvals, approvedBy>>
     ELSE /\ approvals' = [approvals EXCEPT ![target[v]] = "approved"]
          /\ approvedBy' = [approvedBy EXCEPT ![target[v]] = v]
          /\ Proceed(v, AfterApprove(v))
  /\ UNCHANGED <<store, hasQueue, kind, target, tasks, definitions, runs, usage, queue>>

\* The UPDATE of a task that is not there yet changes no row and reports none;
\* in memory a task is changed only while it waits.
MarkedTasks(t) ==
  IF tasks[t] = "none" \/ (store = "memory" /\ tasks[t] # "pending")
  THEN tasks ELSE [tasks EXCEPT ![t] = "approved"]

MarkTask(v) ==
  /\ At(v, "mark")
  /\ tasks' = MarkedTasks(target[v])
  /\ Proceed(v, "ok")
  /\ UNCHANGED <<store, hasQueue, kind, target, approvals, approvedBy, definitions, runs, usage, queue>>

-----------------------------------------------------------------------------
\* A statement fails without effect, or Redis refuses the job.
CallFails(r) ==
  /\ pc[r] \in StoreCalls \cup {"enqueue"} /\ MayRun(r) /\ ~Local(pc[r])
  /\ pc[r] = "enqueue" => redisUp
  /\ GoTo(r, "error")
  /\ UNCHANGED <<store, hasQueue, kind, target, tables, queue>>

\* The replica that serves r dies; its statement in flight may have run
\* before (then the step that has it run came first).
Lose(r) ==
  /\ store = "postgres" /\ pc[r] \in Calls
  /\ pc' = [pc EXCEPT ![r] = "lost"]
  /\ turn' = IF turn = r THEN None ELSE turn
  /\ UNCHANGED <<store, hasQueue, kind, target, tables, audit, queue>>

\* In memory mode the tables die with the process; the queue does not.
Restart ==
  /\ store = "memory" /\ \E r \in Requests : pc[r] \in Calls
  /\ pc' = [r \in Requests |-> IF pc[r] \in Calls THEN "lost" ELSE pc[r]]
  /\ turn' = None
  /\ NoRows
  /\ UNCHANGED <<store, hasQueue, kind, target, queue>>

-----------------------------------------------------------------------------
\* The worker.  It does each job at least once and touches no table; a job
\* whose worker dies goes back once, and fails the next time.

\* Fault: a stalled job always goes back.
AfterStall_Requeue(j) == "waiting"
AfterStall(j) == IF j \in stalled THEN "failed" ELSE "waiting"

TakeJob(s, n) ==
  /\ redisUp /\ jobs[s][n] = "waiting"
  /\ jobs' = [jobs EXCEPT ![s][n] = "active"]
  /\ UNCHANGED <<store, hasQueue, pc, kind, target, turn, tables, audit, stalled, redisUp>>

CompleteJob(s, n) ==
  /\ redisUp /\ jobs[s][n] = "active"
  /\ jobs' = [jobs EXCEPT ![s][n] = "done"]
  /\ UNCHANGED <<store, hasQueue, pc, kind, target, turn, tables, audit, stalled, redisUp>>

StallJob(s, n) ==
  /\ redisUp /\ jobs[s][n] = "active"
  /\ jobs' = [jobs EXCEPT ![s][n] = AfterStall(<<s, n>>)]
  /\ stalled' = stalled \cup {<<s, n>>}
  /\ UNCHANGED <<store, hasQueue, pc, kind, target, turn, tables, audit, redisUp>>

RedisStops ==
  /\ hasQueue /\ redisUp
  /\ redisUp' = FALSE
  /\ UNCHANGED <<store, hasQueue, pc, kind, target, turn, tables, audit, jobs, stalled>>

RedisRecovers ==
  /\ ~redisUp
  /\ redisUp' = TRUE
  /\ UNCHANGED <<store, hasQueue, pc, kind, target, turn, tables, audit, jobs, stalled>>

-----------------------------------------------------------------------------
Statement(s) == \/ CreateApproval(s) \/ CreateTask(s) \/ CreateDefinition(s)
                \/ LookupDefinition(s) \/ CreateRun(s) \/ CreateUsage(s)
Enqueue(s) == EnqueueNothing(s) \/ AddJob(s) \/ Answered(s)
Gate(v) == Approve(v) \/ MarkTask(v)
Worker(s) == \E n \in Adds : TakeJob(s, n) \/ CompleteJob(s, n) \/ StallJob(s, n)

Next ==
  \/ \E s \in Submissions :
       Submit(s) \/ Statement(s) \/ Enqueue(s) \/ Resend(s) \/ Worker(s)
  \/ \E v \in Reviews : Review(v) \/ Gate(v)
  \/ \E r \in Requests : CallFails(r) \/ Lose(r)
  \/ Restart \/ RedisStops \/ RedisRecovers

Spec == Init /\ [][Next]_vars

\* PostgreSQL answers, and so does Redis when it is there often enough; it may
\* stay away for ever, and nobody has to ask.  When jobs are offered often enough
\* a worker takes one, and then completes it or dies.
FairSpec ==
  /\ Spec
  /\ \A s \in Submissions : /\ WF_vars(Statement(s) \/ EnqueueNothing(s))
                            /\ SF_vars(AddJob(s) \/ Answered(s))
  /\ \A v \in Reviews : WF_vars(Gate(v))
  /\ SF_vars(\E s \in Submissions, n \in Adds : TakeJob(s, n))
  /\ SF_vars(\E s \in Submissions, n \in Adds : CompleteJob(s, n) \/ StallJob(s, n))

-----------------------------------------------------------------------------
\* Every variable holds a value of its kind.
TypeOK ==
  /\ store \in Stores /\ hasQueue \in BOOLEAN
  /\ pc \in [Requests -> PCs]
  /\ kind \in [Submissions -> Kinds]
  /\ target \in [Requests -> Submissions \cup {None}]
  /\ turn \in Requests \cup {None}
  /\ approvals \in [Submissions -> {"none", "pending", "approved"}]
  /\ approvedBy \in [Submissions -> Reviews \cup {None}]
  /\ tasks \in [Submissions -> {"none", "pending", "executed", "approved"}]
  /\ definitions \subseteq Submissions /\ runs \subseteq Submissions
  /\ usage \in [Submissions -> 0..1]
  /\ audit \subseteq Requests
  /\ jobs \in [Submissions -> [Adds -> JobStates]]
  /\ stalled \subseteq Submissions \X Adds
  /\ redisUp \in BOOLEAN

Agent(s) == kind[s] \in {"high", "low"}
HasRow(s) == (Agent(s) => tasks[s] # "none") /\ (kind[s] = "workflow" => s \in runs)

Queued(s) == \E n \in Adds : jobs[s][n] # "none"

\* Wherever a handler breaks off: a tenant is charged for a task or a run only
\* if that exists, and for a task only if its job was queued (the charge comes
\* last); over PostgreSQL a job is of a task or a run that exists, and that of a
\* run is queued only if the run was charged (there the job comes last); and a
\* run is of a workflow that exists.
WorkExists ==
  /\ \A s \in Submissions :
       /\ usage[s] > 0 => HasRow(s) /\ (Agent(s) /\ hasQueue => Queued(s))
       /\ store = "postgres" /\ Queued(s) => HasRow(s) /\ (Agent(s) \/ usage[s] = 1)
  /\ \A s \in runs : target[s] \in definitions

\* A risky task never exists without the approval that can release it, and
\* is completed only when that approval was given, by a review of this task.
GateStandsFirst ==
  \A s \in Submissions : kind[s] = "high" =>
    /\ tasks[s] # "none" => approvals[s] # "none"
    /\ tasks[s] # "executed"
    /\ tasks[s] = "approved" => approvals[s] = "approved"
    /\ approvals[s] = "approved" <=> approvedBy[s] # None
    /\ approvedBy[s] # None => target[approvedBy[s]] = s

\* What the audit trail reports as done is done completely: row, charge and
\* job of a submission, the approval of a review.
AuditedIsComplete ==
  /\ \A s \in Submissions \cap audit :
       /\ HasRow(s)
       /\ kind[s] # "define" => usage[s] = 1
       /\ Agent(s) \/ kind[s] = "workflow" => (hasQueue => Queued(s))
       /\ kind[s] = "define" => s \in definitions
  /\ \A v \in Reviews \cap audit : approvals[target[v]] = "approved"

\* A completed task stays completed, except that the memory of a process
\* dies with it: no late insert or repeated review reopens it.
CompletedStays ==
  [][\A t \in Submissions : tasks[t] \in {"executed", "approved"} =>
       tasks'[t] = tasks[t] \/ (store = "memory" /\ tasks'[t] = "none")]_vars

\* "task planning/execution with confidence and approval gates": the worker
\* does the job of a risky task only after its approval.
GateHoldsJobs ==
  \A s \in Submissions, n \in Adds : kind[s] = "high" /\ jobs[s][n] \in {"active", "done"} =>
    approvals[s] = "approved"

\* README: "Agent/workflow jobs are enqueued to BullMQ when Redis is available".
\* What an outage of Redis costs: the one request that is never answered is the
\* submission of a task or a run, at its job, while Redis stays away for good.
\* Nothing else waits for Redis, or for a handler that does, not even in the
\* memory of one process; and where no Redis is configured every request ends.
OnlyJobsWait == \A r \in Requests :
  pc[r] \in Calls ~>
    \/ pc[r] \in Done
    \/ [](/\ r \in Submissions /\ kind[r] \in {"high", "low", "workflow"}
          /\ pc[r] \in QueueCalls /\ hasQueue /\ ~redisUp)

\* Every job that is put on the queue, each copy of it, is done, or given up
\* after two workers died over it, unless Redis stays away for good.
EveryJobEnds == \A s \in Submissions, n \in Adds :
  jobs[s][n] = "waiting" ~> jobs[s][n] \in {"done", "failed"} \/ []~redisUp

\* A review of a task that waits takes it out of waiting, or does not report
\* success: whatever became of the reviews before it (one that came before
\* the task, one that broke off between approval and task), reviewing again
\* repairs it.
ReviewTakesEffect == \A v \in Reviews, t \in Submissions :
  pc[v] = "approve" /\ target[v] = t /\ tasks[t] = "pending"
    ~> tasks[t] = "approved" \/ pc[v] \in {"error", "lost"}
=============================================================================
