-------------------------- MODULE OperationsProofs --------------------------
(***************************************************************************)
(* Proofs about Operations, for any number of submissions and reviews, in  *)
(* both storage modes, with or without a queue.  A handler has no          *)
(* transaction, so what holds the tables together is the order of its      *)
(* calls: the invariant says, for every call, what is done before it and   *)
(* what is not.                                                            *)
(***************************************************************************)
EXTENDS Operations, TLAPS

\* A handler that has not begun has done nothing.
IdleIsClean ==
  /\ \A s \in Submissions : pc[s] = "idle" =>
       /\ approvals[s] = "none" /\ approvedBy[s] = None /\ tasks[s] = "none"
       /\ s \notin definitions /\ s \notin runs /\ s \notin audit
       /\ usage[s] = 0 /\ ~Queued(s)
  /\ \A v \in Reviews : pc[v] = "idle" =>
       v \notin audit /\ \A t \in Submissions : approvedBy[t] # v

\* Where the handler of a submission is, what it has to do next is not done and
\* what comes before is.
BeforeTable(s) ==
  /\ pc[s] = "approval" => kind[s] = "high" /\ approvals[s] = "none"
  /\ pc[s] \in {"approval", "task"} => tasks[s] = "none" /\ usage[s] = 0
  /\ pc[s] = "task" => Agent(s) /\ (kind[s] = "high" => approvals[s] # "none")
  /\ pc[s] \in {"lookup", "run"} => kind[s] = "workflow" /\ usage[s] = 0
  /\ pc[s] = "run" => target[s] \in definitions
  /\ pc[s] = "define" => kind[s] = "define"

AfterTable(s) ==
  /\ pc[s] \in {"bill", "enqueue", "queued"} => kind[s] # "define" /\ HasRow(s)
  /\ pc[s] = "bill" => usage[s] = 0 /\ (Agent(s) /\ hasQueue => Queued(s))
  /\ pc[s] = "queued" => Queued(s)
  /\ pc[s] \in QueueCalls => /\ kind[s] # "usage"
                             /\ Agent(s) => usage[s] = 0
                             /\ kind[s] = "workflow" => usage[s] = 1

HandlersFollow == \A s \in Submissions :
  BeforeTable(s) /\ AfterTable(s) /\ pc[s] \notin {"approve", "mark"}

ReviewsFollow == \A v \in Reviews :
  /\ pc[v] \in {"idle", "approve", "mark"} \cup Done
  /\ pc[v] # "idle" => target[v] \in Submissions
  /\ pc[v] = "mark" => approvals[target[v]] = "approved"

\* Only a risky task has an approval.
RiskyOnly == \A s \in Submissions :
  kind[s] # "high" => approvals[s] = "none" /\ approvedBy[s] = None

\* The inductive invariant: what the runs check, and what it takes to keep it.
Inv == /\ TypeOK /\ WorkExists /\ GateStandsFirst /\ AuditedIsComplete
       /\ IdleIsClean /\ HandlersFollow /\ ReviewsFollow /\ RiskyOnly

-----------------------------------------------------------------------------
\* Request r has gone on to x, and is audited if that is "ok".
Went(r, x) ==
  /\ pc' = [pc EXCEPT ![r] = x] /\ x \in PCs
  /\ audit' = IF x = "ok" THEN audit \cup {r} ELSE audit
  /\ turn' \in Requests \cup {None}

LEMMA GoToGoes ==
  ASSUME NEW r \in Requests, NEW x \in PCs, GoTo(r, x)
  PROVE  Went(r, x)
BY DEF GoTo, Went

LEMMA ProceedGoes ==
  ASSUME NEW r \in Requests, NEW x \in PCs, Proceed(r, x)
  PROVE  \E y \in {x, "error"} : Went(r, y)
<1>1. "error" \in PCs
  BY DEF PCs, Done
<1> QED
  BY <1>1, GoToGoes DEF Proceed

\* The call after each call.
LEMMA Successors ==
  ASSUME NEW s \in Submissions, TypeOK, HandlersFollow
  PROVE  /\ pc[s] = "approval" => Following(s) = "task"
         /\ pc[s] = "task" => Following(s) = "enqueue"
         /\ pc[s] = "lookup" => Following(s) = "run"
         /\ pc[s] = "run" => Following(s) = "bill"
         /\ pc[s] = "define" => Following(s) = "ok"
         /\ pc[s] = "bill" => Following(s) = IF kind[s] = "workflow" THEN "enqueue" ELSE "ok"
         /\ pc[s] = "enqueue" => Following(s) = IF kind[s] = "workflow" THEN "ok" ELSE "bill"
         /\ pc[s] = "queued" =>
              NextCall[kind[s]].enqueue = IF kind[s] = "workflow" THEN "ok" ELSE "bill"
<1>1. kind[s] \in {"high", "low", "workflow", "define", "usage"}
  BY DEF TypeOK, Kinds
<1>2. NextCall[kind[s]] = CASE kind[s] = "high" -> HighCalls [] kind[s] = "low" -> LowCalls
        [] kind[s] = "workflow" -> WorkflowCalls [] kind[s] = "define" -> DefineCalls
        [] kind[s] = "usage" -> UsageCalls
  BY <1>1 DEF NextCall
<1> QED
  BY <1>1, <1>2 DEF Following, HandlersFollow, BeforeTable, AfterTable, Agent,
     HighCalls, LowCalls, WorkflowCalls, DefineCalls, UsageCalls, QueueCalls

\* A step that leaves the queue alone leaves the jobs of every request there.
LEMMA SameJobs == UNCHANGED queue => \A s \in Submissions : Queued(s)' <=> Queued(s)
BY DEF Queued, queue

\* The approval of a risky task is made before anything else.
LEMMA CreateApprovalKeeps ==
  ASSUME Inv, NEW s \in Submissions, CreateApproval(s)
  PROVE  Inv'
<1>1. /\ pc[s] = "approval" /\ s \in Requests /\ kind[s] = "high" /\ approvals[s] = "none"
      /\ approvals' = [approvals EXCEPT ![s] = "pending"]
      /\ UNCHANGED <<store, hasQueue, kind, target, approvedBy, tasks, definitions, runs, usage, queue>>
  BY DEF CreateApproval, At, Inv, HandlersFollow, BeforeTable, HasRow, Requests
<1>2. PICK x \in {"task", "error"} : Went(s, x)
  BY <1>1, Successors, ProceedGoes DEF CreateApproval, Inv, PCs, Calls, StoreCalls, QueueCalls, Done
<1>3. TypeOK'
  BY <1>1, <1>2 DEF Inv, TypeOK, Went, queue, tables, JobStates, Kinds
<1>4. WorkExists'
  BY <1>1, <1>2, SameJobs DEF Inv, TypeOK, WorkExists, HasRow, Agent, queue, tables
<1>5. GateStandsFirst'
  BY <1>1, <1>2 DEF Inv, TypeOK, GateStandsFirst, tables
<1>6. AuditedIsComplete'
  BY <1>1, <1>2, SameJobs, DistinctAssumption DEF Inv, TypeOK, AuditedIsComplete, HasRow, Agent,
     Went, queue, tables, ReviewsFollow, IdleIsClean
<1>7. IdleIsClean'
  BY <1>1, <1>2, SameJobs, DistinctAssumption DEF Inv, TypeOK, IdleIsClean, Went, queue, tables,
     Requests
<1>8. HandlersFollow'
  BY <1>1, <1>2, SameJobs, DistinctAssumption DEF Inv, TypeOK, HandlersFollow, BeforeTable,
     AfterTable, HasRow, Agent, Went, queue, tables, Requests, QueueCalls
<1>9. ReviewsFollow'
  BY <1>1, <1>2, DistinctAssumption DEF Inv, TypeOK, ReviewsFollow, Went, Requests, tables
<1>10. RiskyOnly'
  BY <1>1, <1>2 DEF Inv, TypeOK, RiskyOnly, tables
<1> QED
  BY <1>3, <1>4, <1>5, <1>6, <1>7, <1>8, <1>9, <1>10 DEF Inv

\* A task is made once, and pending if it has an approval.
LEMMA CreateTaskKeeps ==
  ASSUME Inv, NEW s \in Submissions, CreateTask(s)
  PROVE  Inv'
<1>1. /\ pc[s] = "task" /\ s \in Requests /\ kind[s] \in {"high", "low"} /\ tasks[s] = "none"
      /\ (kind[s] = "high" => approvals[s] # "none") /\ usage[s] = 0
      /\ tasks' = [tasks EXCEPT ![s] = IF kind[s] = "high" THEN "pending" ELSE "executed"]
      /\ UNCHANGED <<store, hasQueue, kind, target, approvals, approvedBy, definitions, runs, usage, queue>>
  BY DEF CreateTask, At, Inv, HandlersFollow, BeforeTable, Agent, HasRow, Requests
<1>2. PICK x \in {"enqueue", "error"} : Went(s, x)
  BY <1>1, Successors, ProceedGoes DEF CreateTask, Inv, PCs, Calls, StoreCalls, QueueCalls, Done
<1>3. TypeOK'
  BY <1>1, <1>2 DEF Inv, TypeOK, Went, queue, tables, JobStates, Kinds
<1>4. WorkExists'
  BY <1>1, <1>2, SameJobs DEF Inv, TypeOK, WorkExists, HasRow, Agent, queue, tables
<1>5. GateStandsFirst'
  BY <1>1, <1>2 DEF Inv, TypeOK, GateStandsFirst, tables
<1>6. AuditedIsComplete'
  BY <1>1, <1>2, SameJobs, DistinctAssumption DEF Inv, TypeOK, AuditedIsComplete, HasRow, Agent,
     Went, queue, tables, ReviewsFollow, IdleIsClean
<1>7. IdleIsClean'
  BY <1>1, <1>2, SameJobs, DistinctAssumption DEF Inv, TypeOK, IdleIsClean, Went, queue, tables,
     Requests
<1>8. HandlersFollow'
  BY <1>1, <1>2, SameJobs, DistinctAssumption DEF Inv, TypeOK, HandlersFollow, BeforeTable,
     AfterTable, HasRow, Agent, Went, queue, tables, Requests, QueueCalls
<1>9. ReviewsFollow'
  BY <1>1, <1>2, DistinctAssumption DEF Inv, TypeOK, ReviewsFollow, Went, Requests, tables
<1>10. RiskyOnly'
  BY <1>1, <1>2 DEF Inv, TypeOK, RiskyOnly, tables
<1> QED
  BY <1>3, <1>4, <1>5, <1>6, <1>7, <1>8, <1>9, <1>10 DEF Inv

\* A definition is all that its handler makes.
LEMMA CreateDefinitionKeeps ==
  ASSUME Inv, NEW s \in Submissions, CreateDefinition(s)
  PROVE  Inv'
<1>1. /\ pc[s] = "define" /\ s \in Requests /\ kind[s] = "define"
      /\ definitions' = definitions \cup {s}
      /\ UNCHANGED <<store, hasQueue, kind, target, approvals, approvedBy, tasks, runs, usage, queue>>
  BY DEF CreateDefinition, At, Inv, HandlersFollow, BeforeTable, HasRow, Requests
<1>2. PICK x \in {"ok", "error"} : Went(s, x)
  BY <1>1, Successors, ProceedGoes DEF CreateDefinition, Inv, PCs, Calls, StoreCalls, QueueCalls, Done
<1>3. TypeOK'
  BY <1>1, <1>2 DEF Inv, TypeOK, Went, queue, tables, JobStates, Kinds
<1>4. WorkExists'
  BY <1>1, <1>2, SameJobs DEF Inv, TypeOK, WorkExists, HasRow, Agent, queue, tables
<1>5. GateStandsFirst'
  BY <1>1, <1>2 DEF Inv, TypeOK, GateStandsFirst, tables
<1>6. AuditedIsComplete'
  BY <1>1, <1>2, SameJobs, DistinctAssumption DEF Inv, TypeOK, AuditedIsComplete, HasRow, Agent,
     Went, queue, tables, ReviewsFollow, IdleIsClean
<1>7. IdleIsClean'
  BY <1>1, <1>2, SameJobs, DistinctAssumption DEF Inv, TypeOK, IdleIsClean, Went, queue, tables,
     Requests
<1>8. HandlersFollow'
  BY <1>1, <1>2, SameJobs, DistinctAssumption DEF Inv, TypeOK, HandlersFollow, BeforeTable,
     AfterTable, HasRow, Agent, Went, queue, tables, Requests, QueueCalls
<1>9. ReviewsFollow'
  BY <1>1, <1>2, DistinctAssumption DEF Inv, TypeOK, ReviewsFollow, Went, Requests, tables
<1>10. RiskyOnly'
  BY <1>1, <1>2 DEF Inv, TypeOK, RiskyOnly, tables
<1> QED
  BY <1>3, <1>4, <1>5, <1>6, <1>7, <1>8, <1>9, <1>10 DEF Inv

\* A run is begun only of a definition that is there.
LEMMA LookupDefinitionKeeps ==
  ASSUME Inv, NEW s \in Submissions, LookupDefinition(s)
  PROVE  Inv'
<1>1. /\ pc[s] = "lookup" /\ s \in Requests /\ kind[s] = "workflow" /\ usage[s] = 0
      /\ UNCHANGED <<store, hasQueue, kind, target, tables, queue>>
  BY DEF LookupDefinition, At, Inv, HandlersFollow, BeforeTable, HasRow, Requests
<1>2. PICK x \in {"run", "notfound"} : Went(s, x) /\ (x = "run" => target[s] \in definitions)
  BY <1>1, Successors, GoToGoes DEF LookupDefinition, Inv, PCs, Calls, StoreCalls, QueueCalls, Done
<1>3. TypeOK'
  BY <1>1, <1>2 DEF Inv, TypeOK, Went, queue, tables, JobStates, Kinds
<1>4. WorkExists'
  BY <1>1, <1>2, SameJobs DEF Inv, TypeOK, WorkExists, HasRow, Agent, queue, tables
<1>5. GateStandsFirst'
  BY <1>1, <1>2 DEF Inv, TypeOK, GateStandsFirst, tables
<1>6. AuditedIsComplete'
  BY <1>1, <1>2, SameJobs, DistinctAssumption DEF Inv, TypeOK, AuditedIsComplete, HasRow, Agent,
     Went, queue, tables, ReviewsFollow, IdleIsClean
<1>7. IdleIsClean'
  BY <1>1, <1>2, SameJobs, DistinctAssumption DEF Inv, TypeOK, IdleIsClean, Went, queue, tables,
     Requests
<1>8. HandlersFollow'
  BY <1>1, <1>2, SameJobs, DistinctAssumption DEF Inv, TypeOK, HandlersFollow, BeforeTable,
     AfterTable, HasRow, Agent, Went, queue, tables, Requests, QueueCalls
<1>9. ReviewsFollow'
  BY <1>1, <1>2, DistinctAssumption DEF Inv, TypeOK, ReviewsFollow, Went, Requests, tables
<1>10. RiskyOnly'
  BY <1>1, <1>2 DEF Inv, TypeOK, RiskyOnly, tables
<1> QED
  BY <1>3, <1>4, <1>5, <1>6, <1>7, <1>8, <1>9, <1>10 DEF Inv

\* The run is there before its charge.
LEMMA CreateRunKeeps ==
  ASSUME Inv, NEW s \in Submissions, CreateRun(s)
  PROVE  Inv'
<1>1. /\ pc[s] = "run" /\ s \in Requests /\ kind[s] = "workflow" /\ usage[s] = 0
      /\ target[s] \in definitions
      /\ runs' = runs \cup {s}
      /\ UNCHANGED <<store, hasQueue, kind, target, approvals, approvedBy, tasks, definitions, usage, queue>>
  BY DEF CreateRun, At, Inv, HandlersFollow, BeforeTable, HasRow, Requests
<1>2. PICK x \in {"bill", "error"} : Went(s, x)
  BY <1>1, Successors, ProceedGoes DEF CreateRun, Inv, PCs, Calls, StoreCalls, QueueCalls, Done
<1>3. TypeOK'
  BY <1>1, <1>2 DEF Inv, TypeOK, Went, queue, tables, JobStates, Kinds
<1>4. WorkExists'
  BY <1>1, <1>2, SameJobs DEF Inv, TypeOK, WorkExists, HasRow, Agent, queue, tables
<1>5. GateStandsFirst'
  BY <1>1, <1>2 DEF Inv, TypeOK, GateStandsFirst, tables
<1>6. AuditedIsComplete'
  BY <1>1, <1>2, SameJobs, DistinctAssumption DEF Inv, TypeOK, AuditedIsComplete, HasRow, Agent,
     Went, queue, tables, ReviewsFollow, IdleIsClean
<1>7. IdleIsClean'
  BY <1>1, <1>2, SameJobs, DistinctAssumption DEF Inv, TypeOK, IdleIsClean, Went, queue, tables,
     Requests
<1>8. HandlersFollow'
  BY <1>1, <1>2, SameJobs, DistinctAssumption DEF Inv, TypeOK, HandlersFollow, BeforeTable,
     AfterTable, HasRow, Agent, Went, queue, tables, Requests, QueueCalls
<1>9. ReviewsFollow'
  BY <1>1, <1>2, DistinctAssumption DEF Inv, TypeOK, ReviewsFollow, Went, Requests, tables
<1>10. RiskyOnly'
  BY <1>1, <1>2 DEF Inv, TypeOK, RiskyOnly, tables
<1> QED
  BY <1>3, <1>4, <1>5, <1>6, <1>7, <1>8, <1>9, <1>10 DEF Inv

\* A charge is written once, for what is there.
LEMMA CreateUsageKeeps ==
  ASSUME Inv, NEW s \in Submissions, CreateUsage(s)
  PROVE  Inv'
<1>1. /\ pc[s] = "bill" /\ s \in Requests /\ kind[s] # "define" /\ usage[s] = 0 /\ HasRow(s)
      /\ (Agent(s) /\ hasQueue => Queued(s))
      /\ usage' = [usage EXCEPT ![s] = @ + 1]
      /\ UNCHANGED <<store, hasQueue, kind, target, approvals, approvedBy, tasks, definitions, runs, queue>>
  BY DEF CreateUsage, At, Inv, HandlersFollow, AfterTable, HasRow, Requests
<1>2. PICK x \in {IF kind[s] = "workflow" THEN "enqueue" ELSE "ok", "error"} : Went(s, x)
  BY <1>1, Successors, ProceedGoes DEF CreateUsage, Inv, PCs, Calls, StoreCalls, QueueCalls, Done
<1>3. TypeOK'
  BY <1>1, <1>2 DEF Inv, TypeOK, Went, queue, tables, JobStates, Kinds
<1>4. WorkExists'
  BY <1>1, <1>2, SameJobs DEF Inv, TypeOK, WorkExists, HasRow, Agent, queue, tables
<1>5. GateStandsFirst'
  BY <1>1, <1>2 DEF Inv, TypeOK, GateStandsFirst, tables
<1>6. AuditedIsComplete'
  BY <1>1, <1>2, SameJobs, DistinctAssumption DEF Inv, TypeOK, AuditedIsComplete, HasRow, Agent,
     Went, queue, tables, ReviewsFollow, IdleIsClean
<1>7. IdleIsClean'
  BY <1>1, <1>2, SameJobs, DistinctAssumption DEF Inv, TypeOK, IdleIsClean, Went, queue, tables,
     Requests
<1>8. HandlersFollow'
  BY <1>1, <1>2, SameJobs, DistinctAssumption DEF Inv, TypeOK, HandlersFollow, BeforeTable,
     AfterTable, HasRow, Agent, Went, queue, tables, Requests, QueueCalls
<1>9. ReviewsFollow'
  BY <1>1, <1>2, DistinctAssumption DEF Inv, TypeOK, ReviewsFollow, Went, Requests, tables
<1>10. RiskyOnly'
  BY <1>1, <1>2 DEF Inv, TypeOK, RiskyOnly, tables
<1> QED
  BY <1>3, <1>4, <1>5, <1>6, <1>7, <1>8, <1>9, <1>10 DEF Inv

\* Without a queue there is no job to wait for.
LEMMA EnqueueNothingKeeps ==
  ASSUME Inv, NEW s \in Submissions, EnqueueNothing(s)
  PROVE  Inv'
<1>1. /\ pc[s] = "enqueue" /\ s \in Requests /\ kind[s] \notin {"define", "usage"} /\ HasRow(s)
      /\ (Agent(s) => usage[s] = 0) /\ (kind[s] = "workflow" => usage[s] = 1)
      /\ (hasQueue => Queued(s))
      /\ UNCHANGED <<store, hasQueue, kind, target, tables, queue>>
  BY DEF EnqueueNothing, At, Inv, HandlersFollow, AfterTable, QueueCalls, Requests
<1>2. PICK x \in {IF kind[s] = "workflow" THEN "ok" ELSE "bill"} : Went(s, x)
  BY <1>1, Successors, GoToGoes DEF EnqueueNothing, Inv, PCs, Calls, StoreCalls, QueueCalls, Done
<1>3. TypeOK'
  BY <1>1, <1>2 DEF Inv, TypeOK, Went, queue, tables
<1>4. WorkExists'
  BY <1>1, <1>2, SameJobs DEF Inv, TypeOK, WorkExists, HasRow, Agent, queue, tables
<1>6. AuditedIsComplete'
  BY <1>1, <1>2, SameJobs, DistinctAssumption DEF Inv, TypeOK, AuditedIsComplete, HasRow,
     Agent, Went, queue, tables, ReviewsFollow, IdleIsClean, Kinds
<1>7. IdleIsClean'
  BY <1>1, <1>2, SameJobs, DistinctAssumption DEF Inv, TypeOK, IdleIsClean, Went, queue,
     tables, Requests
<1>8. HandlersFollow'
  BY <1>1, <1>2, SameJobs, DistinctAssumption DEF Inv, TypeOK, HandlersFollow, BeforeTable,
     AfterTable, HasRow, Agent, Went, queue, tables, Requests, QueueCalls, Kinds
<1>5. GateStandsFirst'
  BY <1>1, <1>2 DEF Inv, TypeOK, GateStandsFirst, tables
<1>9. ReviewsFollow'
  BY <1>1, <1>2, DistinctAssumption DEF Inv, TypeOK, ReviewsFollow, Went, Requests, tables
<1>10. RiskyOnly'
  BY <1>1, <1>2 DEF Inv, TypeOK, RiskyOnly, tables
<1> QED
  BY <1>3, <1>4, <1>5, <1>6, <1>7, <1>8, <1>9, <1>10 DEF Inv

\* An answer comes when the job is there.
LEMMA AnsweredKeeps ==
  ASSUME Inv, NEW s \in Submissions, Answered(s)
  PROVE  Inv'
<1>1. /\ pc[s] = "queued" /\ s \in Requests /\ kind[s] \notin {"define", "usage"} /\ HasRow(s)
      /\ (Agent(s) => usage[s] = 0) /\ (kind[s] = "workflow" => usage[s] = 1)
      /\ (hasQueue => Queued(s))
      /\ UNCHANGED <<store, hasQueue, kind, target, tables, queue>>
  BY DEF Answered, At, Inv, HandlersFollow, AfterTable, QueueCalls, Requests
<1>2. PICK x \in {IF kind[s] = "workflow" THEN "ok" ELSE "bill"} : Went(s, x)
  BY <1>1, Successors, GoToGoes DEF Answered, Inv, PCs, Calls, StoreCalls, QueueCalls, Done
<1>3. TypeOK'
  BY <1>1, <1>2 DEF Inv, TypeOK, Went, queue, tables
<1>4. WorkExists'
  BY <1>1, <1>2, SameJobs DEF Inv, TypeOK, WorkExists, HasRow, Agent, queue, tables
<1>6. AuditedIsComplete'
  BY <1>1, <1>2, SameJobs, DistinctAssumption DEF Inv, TypeOK, AuditedIsComplete, HasRow,
     Agent, Went, queue, tables, ReviewsFollow, IdleIsClean, Kinds
<1>7. IdleIsClean'
  BY <1>1, <1>2, SameJobs, DistinctAssumption DEF Inv, TypeOK, IdleIsClean, Went, queue,
     tables, Requests
<1>8. HandlersFollow'
  BY <1>1, <1>2, SameJobs, DistinctAssumption DEF Inv, TypeOK, HandlersFollow, BeforeTable,
     AfterTable, HasRow, Agent, Went, queue, tables, Requests, QueueCalls, Kinds
<1>5. GateStandsFirst'
  BY <1>1, <1>2 DEF Inv, TypeOK, GateStandsFirst, tables
<1>9. ReviewsFollow'
  BY <1>1, <1>2, DistinctAssumption DEF Inv, TypeOK, ReviewsFollow, Went, Requests, tables
<1>10. RiskyOnly'
  BY <1>1, <1>2 DEF Inv, TypeOK, RiskyOnly, tables
<1> QED
  BY <1>3, <1>4, <1>5, <1>6, <1>7, <1>8, <1>9, <1>10 DEF Inv

\* A command that is sent again has been run.
LEMMA ResendKeeps ==
  ASSUME Inv, NEW s \in Submissions, Resend(s)
  PROVE  Inv'
<1>1. /\ pc[s] = "queued" /\ s \in Requests /\ kind[s] \notin {"define", "usage"} /\ HasRow(s)
      /\ (Agent(s) => usage[s] = 0) /\ (kind[s] = "workflow" => usage[s] = 1)
      /\ UNCHANGED <<store, hasQueue, kind, target, tables, queue>>
  BY DEF Resend, Inv, HandlersFollow, AfterTable, QueueCalls, Requests
<1>2. PICK x \in {"enqueue"} : Went(s, x)
  BY <1>1 DEF Resend, Went, PCs, Calls, QueueCalls, Inv, TypeOK
<1>3. TypeOK'
  BY <1>1, <1>2 DEF Inv, TypeOK, Went, queue, tables
<1>4. WorkExists'
  BY <1>1, <1>2, SameJobs DEF Inv, TypeOK, WorkExists, HasRow, Agent, queue, tables
<1>6. AuditedIsComplete'
  BY <1>1, <1>2, SameJobs, DistinctAssumption DEF Inv, TypeOK, AuditedIsComplete, HasRow,
     Agent, Went, queue, tables, ReviewsFollow, IdleIsClean, Kinds
<1>7. IdleIsClean'
  BY <1>1, <1>2, SameJobs, DistinctAssumption DEF Inv, TypeOK, IdleIsClean, Went, queue,
     tables, Requests
<1>8. HandlersFollow'
  BY <1>1, <1>2, SameJobs, DistinctAssumption DEF Inv, TypeOK, HandlersFollow, BeforeTable,
     AfterTable, HasRow, Agent, Went, queue, tables, Requests, QueueCalls, Kinds
<1>5. GateStandsFirst'
  BY <1>1, <1>2 DEF Inv, TypeOK, GateStandsFirst, tables
<1>9. ReviewsFollow'
  BY <1>1, <1>2, DistinctAssumption DEF Inv, TypeOK, ReviewsFollow, Went, Requests, tables
<1>10. RiskyOnly'
  BY <1>1, <1>2 DEF Inv, TypeOK, RiskyOnly, tables
<1> QED
  BY <1>3, <1>4, <1>5, <1>6, <1>7, <1>8, <1>9, <1>10 DEF Inv

\* A job is added for what is there, and does not go away.
LEMMA AddJobKeeps ==
  ASSUME Inv, NEW s \in Submissions, AddJob(s)
  PROVE  Inv'
<1>1. /\ pc[s] = "enqueue" /\ s \in Requests /\ kind[s] \notin {"define", "usage"} /\ HasRow(s)
      /\ (Agent(s) => usage[s] = 0) /\ (kind[s] = "workflow" => usage[s] = 1)
      /\ pc' = [pc EXCEPT ![s] = "queued"]
      /\ UNCHANGED <<store, hasQueue, kind, target, turn, tables, audit, stalled, redisUp>>
  BY DEF AddJob, Inv, HandlersFollow, AfterTable, QueueCalls, Requests
<1>0. PICK n \in Adds : jobs' = [jobs EXCEPT ![s][n] = "waiting"]
  BY DEF AddJob
<1>2. PICK x \in {"queued"} : Went(s, x)
  BY <1>1 DEF Went, PCs, Calls, QueueCalls, Inv, TypeOK
<1>11. Queued(s)' /\ \A t \in Submissions \ {s} : Queued(t)' <=> Queued(t)
  BY <1>0 DEF Queued, Inv, TypeOK
<1>3. TypeOK'
  <2>1. jobs' \in [Submissions -> [Adds -> JobStates]]
    BY <1>0 DEF Inv, TypeOK, JobStates
  <2> QED
    BY <1>1, <1>2, <2>1 DEF Inv, TypeOK, Went, tables
<1>4. WorkExists'
  BY <1>1, <1>11 DEF Inv, TypeOK, WorkExists, HasRow, Agent, tables, Kinds
<1>6. AuditedIsComplete'
  BY <1>1, <1>11 DEF Inv, TypeOK, AuditedIsComplete, HasRow, Agent, tables
<1>7. IdleIsClean'
  BY <1>1, <1>11, DistinctAssumption DEF Inv, TypeOK, IdleIsClean, tables, Requests
<1>8. HandlersFollow'
  BY <1>1, <1>11, DistinctAssumption DEF Inv, TypeOK, HandlersFollow, BeforeTable,
     AfterTable, HasRow, Agent, tables, Requests, QueueCalls
<1>5. GateStandsFirst'
  BY <1>1, <1>2 DEF Inv, TypeOK, GateStandsFirst, tables
<1>9. ReviewsFollow'
  BY <1>1, <1>2, DistinctAssumption DEF Inv, TypeOK, ReviewsFollow, Went, Requests, tables
<1>10. RiskyOnly'
  BY <1>1, <1>2 DEF Inv, TypeOK, RiskyOnly, tables
<1> QED
  BY <1>3, <1>4, <1>5, <1>6, <1>7, <1>8, <1>9, <1>10 DEF Inv

\* A handler begins with nothing done, as what it names is its own.
LEMMA SubmitKeeps ==
  ASSUME Inv, NEW s \in Submissions, Submit(s)
  PROVE  Inv'
<1>1. PICK k \in Kinds, d \in Submissions :
        /\ pc[s] = "idle" /\ s \in Requests
        /\ kind' = [kind EXCEPT ![s] = k]
        /\ target' = [target EXCEPT ![s] = IF k = "workflow" THEN d ELSE s]
        /\ GoTo(s, NextCall[k].start)
        /\ UNCHANGED <<store, hasQueue, tables, queue>>
  BY DEF Submit, At, Requests
<1>2. PICK x \in {"approval", "task", "lookup", "define", "bill"} :
        /\ Went(s, x)
        /\ x = "approval" => k = "high"
        /\ x = "task" => k = "low"
        /\ x = "lookup" => k = "workflow"
        /\ x = "define" => k = "define"
        /\ x = "bill" => k = "usage"
  <2>1. k \in {"high", "low", "workflow", "define", "usage"}
    BY DEF Kinds
  <2>2. NextCall[k].start = CASE k = "high" -> "approval" [] k = "low" -> "task"
          [] k = "workflow" -> "lookup" [] k = "define" -> "define" [] k = "usage" -> "bill"
    BY <2>1 DEF NextCall, HighCalls, LowCalls, WorkflowCalls, DefineCalls, UsageCalls
  <2> QED
    BY <1>1, <2>1, <2>2, GoToGoes DEF PCs, Calls, StoreCalls
<1>3. TypeOK'
  BY <1>1, <1>2 DEF Inv, TypeOK, Went, queue, tables, JobStates, Kinds
<1>4. WorkExists'
  BY <1>1, <1>2, SameJobs DEF Inv, TypeOK, WorkExists, HasRow, Agent, queue, tables, IdleIsClean
<1>5. GateStandsFirst'
  BY <1>1, <1>2 DEF Inv, TypeOK, GateStandsFirst, tables, IdleIsClean, ReviewsFollow
<1>6. AuditedIsComplete'
  BY <1>1, <1>2, SameJobs, DistinctAssumption DEF Inv, TypeOK, AuditedIsComplete, HasRow, Agent,
     Went, queue, tables, ReviewsFollow, IdleIsClean
<1>7. IdleIsClean'
  BY <1>1, <1>2, SameJobs, DistinctAssumption DEF Inv, TypeOK, IdleIsClean, Went, queue, tables,
     Requests
<1>8. HandlersFollow'
  BY <1>1, <1>2, SameJobs, DistinctAssumption DEF Inv, TypeOK, HandlersFollow, BeforeTable,
     AfterTable, HasRow, Agent, Went, queue, tables, Requests, QueueCalls, IdleIsClean
<1>9. ReviewsFollow'
  BY <1>1, <1>2, DistinctAssumption DEF Inv, TypeOK, ReviewsFollow, Went, Requests, tables
<1>10. RiskyOnly'
  BY <1>1, <1>2 DEF Inv, TypeOK, RiskyOnly, tables, IdleIsClean
<1> QED
  BY <1>3, <1>4, <1>5, <1>6, <1>7, <1>8, <1>9, <1>10 DEF Inv

\* A review begins with the approval it names.
LEMMA ReviewKeeps ==
  ASSUME Inv, NEW s \in Reviews, Review(s)
  PROVE  Inv'
<1>1. PICK t \in Submissions :
        /\ pc[s] = "idle" /\ s \in Requests /\ s \notin Submissions
        /\ target' = [target EXCEPT ![s] = t] /\ GoTo(s, "approve")
        /\ UNCHANGED <<store, hasQueue, kind, tables, queue>>
  BY DistinctAssumption DEF Review, At, Requests
<1>2. PICK x \in {"approve"} : Went(s, x)
  BY <1>1, GoToGoes DEF PCs, Calls, StoreCalls
<1>3. TypeOK'
  BY <1>1, <1>2 DEF Inv, TypeOK, Went, queue, tables, JobStates, Kinds
<1>4. WorkExists'
  BY <1>1, <1>2, SameJobs DEF Inv, TypeOK, WorkExists, HasRow, Agent, queue, tables, Requests
<1>5. GateStandsFirst'
  BY <1>1, <1>2 DEF Inv, TypeOK, GateStandsFirst, tables, IdleIsClean, Requests
<1>6. AuditedIsComplete'
  BY <1>1, <1>2, SameJobs, DistinctAssumption DEF Inv, TypeOK, AuditedIsComplete, HasRow, Agent,
     Went, queue, tables, ReviewsFollow, IdleIsClean
<1>7. IdleIsClean'
  BY <1>1, <1>2, SameJobs, DistinctAssumption DEF Inv, TypeOK, IdleIsClean, Went, queue, tables,
     Requests
<1>8. HandlersFollow'
  BY <1>1, <1>2, SameJobs, DistinctAssumption DEF Inv, TypeOK, HandlersFollow, BeforeTable,
     AfterTable, HasRow, Agent, Went, queue, tables, Requests, QueueCalls
<1>9. ReviewsFollow'
  BY <1>1, <1>2, DistinctAssumption DEF Inv, TypeOK, ReviewsFollow, Went, Requests, tables
<1>10. RiskyOnly'
  BY <1>1, <1>2 DEF Inv, TypeOK, RiskyOnly, tables
<1> QED
  BY <1>3, <1>4, <1>5, <1>6, <1>7, <1>8, <1>9, <1>10 DEF Inv

\* An approval that is not there stays so; one that is names its review.
LEMMA ApproveKeeps ==
  ASSUME Inv, NEW s \in Reviews, Approve(s)
  PROVE  Inv'
<1>1. /\ pc[s] = "approve" /\ s \in Requests /\ s \notin Submissions /\ target[s] \in Submissions
      /\ UNCHANGED <<store, hasQueue, kind, target, tasks, definitions, runs, usage, queue>>
  BY DistinctAssumption DEF Approve, At, Requests, Inv, ReviewsFollow
<1>2. PICK x \in {"notfound", "mark", "error"} :
        /\ Went(s, x)
        /\ IF x = "notfound" THEN UNCHANGED <<approvals, approvedBy>>
           ELSE /\ approvals[target[s]] # "none"
                /\ approvals' = [approvals EXCEPT ![target[s]] = "approved"]
                /\ approvedBy' = [approvedBy EXCEPT ![target[s]] = s]
  BY <1>1, GoToGoes, ProceedGoes DEF Approve, AfterApprove, PCs, Calls, StoreCalls, QueueCalls, Done
<1>3. TypeOK'
  BY <1>1, <1>2 DEF Inv, TypeOK, Went, queue, tables, JobStates, Kinds
<1>4. WorkExists'
  BY <1>1, <1>2, SameJobs DEF Inv, TypeOK, WorkExists, HasRow, Agent, queue, tables
<1>5. GateStandsFirst'
  BY <1>1, <1>2, NoneAssumption DEF Inv, TypeOK, GateStandsFirst, tables, Requests
<1>6. AuditedIsComplete'
  BY <1>1, <1>2, SameJobs, DistinctAssumption DEF Inv, TypeOK, AuditedIsComplete, HasRow, Agent,
     Went, queue, tables, ReviewsFollow, IdleIsClean
<1>7. IdleIsClean'
  BY <1>1, <1>2, SameJobs, DistinctAssumption DEF Inv, TypeOK, IdleIsClean, Went, queue, tables,
     Requests
<1>8. HandlersFollow'
  BY <1>1, <1>2, SameJobs, DistinctAssumption DEF Inv, TypeOK, HandlersFollow, BeforeTable,
     AfterTable, HasRow, Agent, Went, queue, tables, Requests, QueueCalls
<1>9. ReviewsFollow'
  BY <1>1, <1>2, DistinctAssumption DEF Inv, TypeOK, ReviewsFollow, Went, Requests,
     tables, Done
<1>10. RiskyOnly'
  BY <1>1, <1>2 DEF Inv, TypeOK, RiskyOnly, tables
<1> QED
  BY <1>3, <1>4, <1>5, <1>6, <1>7, <1>8, <1>9, <1>10 DEF Inv

\* The task of an approved approval is risky, if it is there at all.
LEMMA MarkTaskKeeps ==
  ASSUME Inv, NEW s \in Reviews, MarkTask(s)
  PROVE  Inv'
<1>1. /\ pc[s] = "mark" /\ s \in Requests /\ s \notin Submissions /\ target[s] \in Submissions
      /\ approvals[target[s]] = "approved" /\ kind[target[s]] = "high"
      /\ tasks' \in {tasks, [tasks EXCEPT ![target[s]] = "approved"]}
      /\ tasks[target[s]] = "none" => tasks' = tasks
      /\ UNCHANGED <<store, hasQueue, kind, target, approvals, approvedBy, definitions, runs, usage, queue>>
  BY DistinctAssumption DEF MarkTask, MarkedTasks, At, Requests, Inv, ReviewsFollow,
     RiskyOnly
<1>2. PICK x \in {"ok", "error"} : Went(s, x)
  BY <1>1, ProceedGoes DEF MarkTask, PCs, Calls, StoreCalls, QueueCalls, Done
<1>3. TypeOK'
  BY <1>1, <1>2 DEF Inv, TypeOK, Went, queue, tables, JobStates, Kinds
<1>4. WorkExists'
  BY <1>1, <1>2, SameJobs DEF Inv, TypeOK, WorkExists, HasRow, Agent, queue, tables
<1>5. GateStandsFirst'
  BY <1>1, <1>2 DEF Inv, TypeOK, GateStandsFirst, tables
<1>6. AuditedIsComplete'
  BY <1>1, <1>2, SameJobs, DistinctAssumption DEF Inv, TypeOK, AuditedIsComplete, HasRow, Agent,
     Went, queue, tables, ReviewsFollow, IdleIsClean
<1>7. IdleIsClean'
  BY <1>1, <1>2, SameJobs, DistinctAssumption DEF Inv, TypeOK, IdleIsClean, Went, queue, tables,
     Requests
<1>8. HandlersFollow'
  BY <1>1, <1>2, SameJobs, DistinctAssumption DEF Inv, TypeOK, HandlersFollow, BeforeTable,
     AfterTable, HasRow, Agent, Went, queue, tables, Requests, QueueCalls
<1>9. ReviewsFollow'
  BY <1>1, <1>2, DistinctAssumption DEF Inv, TypeOK, ReviewsFollow, Went, Requests,
     tables, Done
<1>10. RiskyOnly'
  BY <1>1, <1>2 DEF Inv, TypeOK, RiskyOnly, tables
<1> QED
  BY <1>3, <1>4, <1>5, <1>6, <1>7, <1>8, <1>9, <1>10 DEF Inv

\* A handler that breaks off leaves its tables as they are.
LEMMA BreakOffKeeps ==
  ASSUME Inv, NEW s \in Requests, CallFails(s) \/ Lose(s)
  PROVE  Inv'
<1>1. /\ pc[s] \in Calls
      /\ UNCHANGED <<store, hasQueue, kind, target, tables, queue>>
  BY DEF CallFails, Lose, Calls, QueueCalls
<1>2. PICK x \in {"error", "lost"} : Went(s, x)
  <2>1. CASE CallFails(s)
    BY <2>1, GoToGoes DEF CallFails, PCs, Done
  <2>2. CASE Lose(s)
    BY <2>2 DEF Lose, Went, PCs, Done, Inv, TypeOK
  <2> QED
    BY <2>1, <2>2
<1>3. TypeOK'
  BY <1>1, <1>2 DEF Inv, TypeOK, Went, queue, tables, JobStates, Kinds
<1>4. WorkExists'
  BY <1>1, <1>2, SameJobs DEF Inv, TypeOK, WorkExists, HasRow, Agent, queue, tables
<1>5. GateStandsFirst'
  BY <1>1, <1>2 DEF Inv, TypeOK, GateStandsFirst, tables
<1>6. AuditedIsComplete'
  BY <1>1, <1>2, SameJobs, DistinctAssumption DEF Inv, TypeOK, AuditedIsComplete, HasRow, Agent,
     Went, queue, tables, ReviewsFollow, IdleIsClean
<1>7. IdleIsClean'
  BY <1>1, <1>2, SameJobs, DistinctAssumption DEF Inv, TypeOK, IdleIsClean, Went, queue, tables,
     Requests
<1>8. HandlersFollow'
  BY <1>1, <1>2, SameJobs, DistinctAssumption DEF Inv, TypeOK, HandlersFollow, BeforeTable,
     AfterTable, HasRow, Agent, Went, queue, tables, Requests, QueueCalls
<1>9. ReviewsFollow'
  BY <1>1, <1>2, DistinctAssumption DEF Inv, TypeOK, ReviewsFollow, Went, Requests,
     tables, Done, Calls, StoreCalls, QueueCalls
<1>10. RiskyOnly'
  BY <1>1, <1>2 DEF Inv, TypeOK, RiskyOnly, tables
<1> QED
  BY <1>3, <1>4, <1>5, <1>6, <1>7, <1>8, <1>9, <1>10 DEF Inv

\* A restart ends every handler and empties the tables of a process.
LEMMA RestartKeeps ==
  ASSUME Inv, Restart
  PROVE  Inv'
<1>1. /\ store = "memory" /\ turn' = None /\ NoRows
      /\ pc' = [r \in Requests |-> IF pc[r] \in Calls THEN "lost" ELSE pc[r]]
      /\ UNCHANGED <<store, hasQueue, kind, target, queue>>
  BY DEF Restart
<1>2. /\ \A r \in Requests : pc'[r] \in {"idle"} \cup Done
      /\ \A r \in Requests : pc'[r] = "idle" <=> pc[r] = "idle"
      /\ "lost" \in PCs
  BY <1>1 DEF Inv, TypeOK, PCs, Calls, StoreCalls, QueueCalls, Done
<1>3. TypeOK'
  BY <1>1, <1>2 DEF Inv, TypeOK, NoRows, queue
<1>4. WorkExists' /\ GateStandsFirst' /\ AuditedIsComplete' /\ RiskyOnly'
  BY <1>1 DEF NoRows, WorkExists, GateStandsFirst, AuditedIsComplete, RiskyOnly
<1>5. IdleIsClean'
  BY <1>1, <1>2, SameJobs, NoneAssumption DEF Inv, IdleIsClean, NoRows, queue, Requests
<1>6. HandlersFollow'
  BY <1>2 DEF HandlersFollow, BeforeTable, AfterTable, Requests, Done, QueueCalls
<1>7. ReviewsFollow'
  BY <1>1, <1>2 DEF Inv, ReviewsFollow, Requests, Done
<1> QED
  BY <1>3, <1>4, <1>5, <1>6, <1>7 DEF Inv

\* The worker and Redis move jobs on, and a job that was put stays one.
LEMMA QueueKeeps ==
  ASSUME Inv, (\E s \in Submissions : Worker(s)) \/ RedisStops \/ RedisRecovers
  PROVE  Inv'
<1>1. UNCHANGED <<store, hasQueue, pc, kind, target, turn, tables, audit>>
  BY DEF Worker, TakeJob, CompleteJob, StallJob, RedisStops, RedisRecovers
<1>2. /\ jobs' \in [Submissions -> [Adds -> JobStates]]
      /\ stalled' \subseteq Submissions \X Adds /\ redisUp' \in BOOLEAN
      /\ \A s \in Submissions, n \in Adds : jobs'[s][n] = "none" <=> jobs[s][n] = "none"
  <2>1. CASE RedisStops \/ RedisRecovers
    BY <2>1 DEF RedisStops, RedisRecovers, Inv, TypeOK
  <2>2. ASSUME NEW s \in Submissions, NEW n \in Adds, NEW x \in JobStates \ {"none"},
               jobs[s][n] # "none", jobs' = [jobs EXCEPT ![s][n] = x],
               stalled' \in {stalled, stalled \cup {<<s, n>>}}, redisUp' = redisUp
        PROVE  /\ jobs' \in [Submissions -> [Adds -> JobStates]]
               /\ stalled' \subseteq Submissions \X Adds /\ redisUp' \in BOOLEAN
               /\ \A t \in Submissions, m \in Adds : jobs'[t][m] = "none" <=> jobs[t][m] = "none"
    BY <2>2 DEF Inv, TypeOK
  <2>3. ASSUME NEW s \in Submissions, NEW n \in Adds,
               TakeJob(s, n) \/ CompleteJob(s, n) \/ StallJob(s, n)
        PROVE  \E x \in JobStates \ {"none"} :
                 /\ jobs[s][n] # "none" /\ jobs' = [jobs EXCEPT ![s][n] = x]
                 /\ stalled' \in {stalled, stalled \cup {<<s, n>>}} /\ redisUp' = redisUp
    BY <2>3 DEF TakeJob, CompleteJob, StallJob, AfterStall, JobStates
  <2> QED
    BY <2>1, <2>2, <2>3 DEF Worker
<1>3. \A s \in Submissions : Queued(s)' <=> Queued(s)
  BY <1>2 DEF Queued
<1>4. TypeOK' /\ GateStandsFirst' /\ ReviewsFollow' /\ RiskyOnly'
  BY <1>1, <1>2 DEF Inv, TypeOK, GateStandsFirst, ReviewsFollow, RiskyOnly, tables
<1>5. WorkExists' /\ AuditedIsComplete' /\ IdleIsClean'
  BY <1>1, <1>3 DEF Inv, WorkExists, AuditedIsComplete, IdleIsClean, HasRow, Agent, tables
<1>6. HandlersFollow'
  BY <1>1, <1>3 DEF Inv, HandlersFollow, BeforeTable, AfterTable, HasRow, Agent, tables
<1> QED
  BY <1>4, <1>5, <1>6 DEF Inv

LEMMA InitInv == Init => Inv
<1> SUFFICES ASSUME Init PROVE Inv
  OBVIOUS
<1>1. TypeOK
  <2>1. redisUp \in BOOLEAN
    BY AddsAssumption DEF Init
  <2> QED BY <2>1 DEF Init, TypeOK, PCs, Kinds, JobStates
<1>2. WorkExists /\ GateStandsFirst /\ AuditedIsComplete /\ RiskyOnly /\ HandlersFollow
  BY DEF Init, WorkExists, GateStandsFirst, AuditedIsComplete, RiskyOnly, HandlersFollow,
     BeforeTable, AfterTable, Requests, Queued, QueueCalls
<1>3. IdleIsClean /\ ReviewsFollow
  BY NoneAssumption DEF Init, IdleIsClean, ReviewsFollow, Requests, Queued
<1> QED
  BY <1>1, <1>2, <1>3 DEF Inv

LEMMA StepInv == Inv /\ [Next]_vars => Inv'
<1> SUFFICES ASSUME Inv, [Next]_vars PROVE Inv'
  OBVIOUS
<1>1. ASSUME NEW s \in Submissions, Submit(s) \/ Statement(s) PROVE Inv'
  BY <1>1, SubmitKeeps, CreateApprovalKeeps, CreateTaskKeeps, CreateDefinitionKeeps,
     LookupDefinitionKeeps, CreateRunKeeps, CreateUsageKeeps DEF Statement
<1>4. ASSUME NEW s \in Submissions, Enqueue(s) \/ Resend(s) PROVE Inv'
  BY <1>4, EnqueueNothingKeeps, AddJobKeeps, AnsweredKeeps, ResendKeeps DEF Enqueue
<1>2. ASSUME NEW v \in Reviews, Review(v) \/ Gate(v) PROVE Inv'
  BY <1>2, ReviewKeeps, ApproveKeeps, MarkTaskKeeps DEF Gate
<1>3. CASE UNCHANGED vars
  <2>1. TypeOK' /\ WorkExists' /\ GateStandsFirst' /\ AuditedIsComplete'
    BY <1>3, SameJobs DEF vars, tables, queue, Inv, TypeOK, WorkExists, GateStandsFirst,
       AuditedIsComplete, HasRow, Agent
  <2>2. IdleIsClean' /\ HandlersFollow' /\ ReviewsFollow' /\ RiskyOnly'
    BY <1>3, SameJobs DEF vars, tables, queue, Inv, IdleIsClean, HandlersFollow, BeforeTable,
       AfterTable, ReviewsFollow, RiskyOnly, HasRow, Agent
  <2> QED
    BY <2>1, <2>2 DEF Inv
<1> QED
  BY <1>1, <1>2, <1>3, <1>4, BreakOffKeeps, RestartKeeps, QueueKeeps DEF Next

-----------------------------------------------------------------------------
\* Every handler, wherever it is, has done what comes before its next call and
\* nothing of what comes after.
THEOREM OperationsInvariance == Spec => []Inv
<1> QED
  BY InitInv, StepInv, PTL DEF Spec

\* Type correctness; in particular nobody is charged twice for one request.
THEOREM OperationsTypeCorrect == Spec => []TypeOK
BY OperationsInvariance, PTL DEF Inv

\* Charges, and jobs over PostgreSQL, are of tasks and runs that exist, and
\* runs of workflows that exist, wherever handlers break off.
THEOREM ChargedWorkExists == Spec => []WorkExists
BY OperationsInvariance, PTL DEF Inv

\* No risky task is without its approval, and none is completed without a
\* review of this very task.
THEOREM GatesStandFirst == Spec => []GateStandsFirst
BY OperationsInvariance, PTL DEF Inv

\* The audit trail reports as done only what is done completely.
THEOREM AuditReportsComplete == Spec => []AuditedIsComplete
BY OperationsInvariance, PTL DEF Inv

\* No step takes a completed task out of completion, but the restart of a
\* process that keeps its tasks in memory.
THEOREM CompletedTasksStay == Spec => CompletedStays
<1> DEFINE Stays == \A t \in Submissions : tasks[t] \in {"executed", "approved"} =>
              tasks'[t] = tasks[t] \/ (store = "memory" /\ tasks'[t] = "none")
<1>1. Inv /\ [Next]_vars => [Stays]_vars
  <2> SUFFICES ASSUME Inv, Next PROVE Stays
    OBVIOUS
  <2>1. CASE tasks' = tasks
    BY <2>1
  <2>2. ASSUME NEW s \in Submissions, CreateTask(s) PROVE Stays
    BY <2>2 DEF CreateTask, At, Inv, TypeOK, HandlersFollow, BeforeTable
  <2>3. ASSUME NEW v \in Reviews, MarkTask(v) PROVE Stays
    BY <2>3 DEF MarkTask, At, MarkedTasks, Inv, TypeOK, ReviewsFollow, RiskyOnly,
       GateStandsFirst
  <2>4. CASE Restart
    BY <2>4 DEF Restart, NoRows
  <2>5. ASSUME NEW s \in Submissions, ~CreateTask(s),
               Submit(s) \/ Statement(s) \/ Enqueue(s) \/ Resend(s)
        PROVE  tasks' = tasks
    BY <2>5 DEF Submit, Statement, CreateApproval, CreateDefinition, LookupDefinition,
       CreateRun, CreateUsage, Enqueue, EnqueueNothing, AddJob, Answered, Resend, tables
  <2>6. ASSUME NEW s \in Submissions, Worker(s) PROVE tasks' = tasks
    BY <2>6 DEF Worker, TakeJob, CompleteJob, StallJob, tables
  <2>7. ASSUME NEW v \in Reviews, Review(v) \/ Approve(v) PROVE tasks' = tasks
    BY <2>7 DEF Review, Approve, tables
  <2>8. ASSUME NEW r \in Requests, CallFails(r) \/ Lose(r) PROVE tasks' = tasks
    BY <2>8 DEF CallFails, Lose, tables
  <2>9. ASSUME RedisStops \/ RedisRecovers PROVE tasks' = tasks
    BY <2>9 DEF RedisStops, RedisRecovers, tables
  <2> QED
    BY <2>1, <2>2, <2>3, <2>4, <2>5, <2>6, <2>7, <2>8, <2>9 DEF Next, Gate
<1> QED
  BY <1>1, OperationsInvariance, PTL DEF Spec, CompletedStays
=============================================================================
