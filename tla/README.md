# SmartHub: a TLA+ verification project

SmartHub turns requirements into reviewed test designs and test cases, generates
Playwright scripts for them with Agents, executes the scripts and reports the
results. The server (`server/`, TypeScript on Node.js) consists of an HTTP process
and any number of worker processes that share a PostgreSQL database and a directory
of workspaces. This project models the part of it where several of these actors
meet: who owns a piece of work, what a stopped, slow or crashed owner may still
write, and what the rows say afterwards.

## 1. Inventory

| Component | State it keeps | Operations | Interacts through |
|---|---|---|---|
| Test execution store (`infrastructure/test-execution-store.ts`, triggers in `migrations.ts`) | rows of runs, tasks, script revisions, attempts, jobs (status, claims, lease owner, run token, fencing token, expiry, cancel request) | createAggregate, claimJob, renewJobLease, heartbeatJob, yieldJob, releaseJob, finishJob, cancelRun, retryTask, transactionWithLease, reconcileExpiredExhaustedJob | PostgreSQL transactions, row locks, deferred constraint triggers |
| Test execution service (`application/test-execution-service.ts`, `test-execution-validation.ts`) | none; works on a task it read before | createRun, cancelRun, retryTask, processPreparedTask: prepare, generate, execute, diagnose, repair | store (under a lease), Agents, Runner, workspace |
| Worker (`worker.ts`, `domain/worker-stop.ts`) | one AbortController per claim, heartbeat timers, lanes | processTestExecutionOne, heartbeat, shutdown, knowledge/review/test design lanes | store, service, signals |
| Resource governor (`application/execution-resource-governor.ts`) | limits, active counters, waiter queues, nested-scope context | withResource, configure, refresh, acquire, drain | called around each Agent call and Runner execution of a process |
| Resource scheduler (`application/execution-resource-scheduler.ts`) | limits, sets of active promises | refresh, tick, stop | starts processTestExecutionOne per free slot |
| Execution workspace and bindings (`infrastructure/execution-workspace-store.ts`) | files and one binding per test case on disk, an in-process mutation lock | resolveBinding, saveBindingImplementation, setBindingStatus, validateBindingAfterPass | called by service stages of several tasks; one worker process per workspace (docs/test-execution-concurrency-verification.md), so the lock is a promise chain |
| Workflow job queues (`infrastructure/postgres-store.ts`, `domain/test-design-job-state.ts`) | sync tasks, review jobs, test design jobs with leases | claim, renew, heartbeat, finish, release, cancel | worker lanes |
| State store and write queue (`infrastructure/store.ts`, `postgres-store.ts`) | the application state document | serialised updates | every service |
| Infrastructure configuration (`application/test-execution-infrastructure-configuration-service.ts`) | draft, published version, revision | saveDraft, publishDraft, resolveConcurrency | governor and scheduler read it |
| Pi session runtime (`agent/pi-session-runtime.ts`) | a chain of promises per session scope | acquire, acquireIdle, release | Agent runtimes, which hold a slot of the governor meanwhile |
| Test design run (`application/test-design-service.ts`, `application/test-design/workflow.ts`) | a run, its stages with their generations, repair, coverage audit | start, node execution, repair, regeneration, edits, cancel, retry | test design jobs, Agents, HTTP handlers |
| Case library (`application/test-design/case-review.ts`, `library.ts`, `suites.ts`) | candidate cases with revisions and reviews, change proposals, library versions, suites, handoffs | edit, review, audit, publish, maintain, select | users; test execution takes the handoffs |
| Requirement analysis (`application/requirement-analysis-service.ts`, `planning-workflow-service.ts`) | analysis runs: status, result, clarifications, attempts, model calls, release, automatic transition | start, retry, cancel, actOnClarifications, processPreparedRun, failPreparedRun, finalizeRequirementRelease, requirementReleasePublished | review jobs (worker lane), HTTP handlers, PlanningAgent, test design |
| Tool approval (`application/review-governance-service.ts`) | approvals with their request, decision and expiry | authorize (polls), decideApproval, listApprovals | governed tools of an analysis run, users |
| Knowledge base (`application/knowledge-service.ts`) | documents, versions, index versions, scope locks, tasks | upload, delete, rebuild, configure, cancel, retry, synchronise | knowledge lane of the workers, users, retrieval |
| Project versions, reports, AI resources, HTTP, web interface | documents, projections | CRUD, rendering | state store |

What is hard here: a job is executed by whoever holds an expiring lease, its work
takes minutes and happens outside any transaction, and the same rows are written by
users (cancel, manual retry), by other workers that reconcile expired leases, and by
the owner. Nothing tells an owner synchronously that it lost its lease. The hazards
this leads to are listed, each at its line, in `PROJECT.json`.

What makes each component correct, in words:

* execution: at most one writer per task; a recorded PASS is never undone; attempts,
  task, job and run tell the same story after each transaction; a cancelled run ends
  cancelled; the claim budget counts real failures only; everything ends.
* governor: never more grants than the limit of the moment, first in first out, no
  leaked slot, no lost wakeup, no deadlock between the two classes.
* scheduler: as much work as capacity, reserved before a lease is claimed.
* workspace: a binding describes the files that are on disk, and an outdated check
  never overwrites a newer binding.
* job queues: one owner at a time, bounded retries, a stopped worker changes nothing.
* test design: an open run always has somebody who will continue it, an audit is about
  the cases as they are, a stage of an old generation writes nothing.
* case library: a version contains what was reviewed and audited, in exactly that
  content; what was published or selected never changes.
* knowledge: the active index holds the active version of every document and nothing
  that was deleted; the newest upload wins; a lock has somebody who will release it.
* tool approval: one execution per approval, with the approved arguments; a decision is
  final; no question stays open that nobody waits for.
* requirement analysis: a run and its job agree on whether it is over, somebody ends
  every run, a release is published once, from the result the run shows, and a
  cancellation is final.
* sessions: one flow in a session at a time, in order, whoever cancels.
* configuration: a published version comes from the draft that was looked at.

## 2. Plan

The order of the modules follows what goes wrong worst: first the execution of tests and
the workspace it writes, then the runs that lead to it.

1. `ExecutionLifecycle`, `ExecutionRun` (abstract promise), `TestExecution`
   (detailed) and its proofs. Done.
2. `ResourceGovernor`, composed with the session locks in `AgentSessions`, which
   implements the line `SessionLine` promises; `AgentSessionsProofs`. Done.
3. `WorkspaceBinding` and its proofs. Done.
4. `AnalysisRun`: the analysis run and the review job that drives it; proofs. Done.
5. `TestDesign`, the run and its jobs, and `CaseLibrary`, what becomes of its cases; proofs
   of both. Done.
6. `KnowledgeSync`, documents, index and their tasks; proofs. Done.
7. `ToolApproval` and its proofs. Done.
8. Left: the resource scheduler in front of `Claim`, the deletion and closing of project
   versions, the `coverage_audit` node, the configuration of the infrastructure.

## 3. Test execution

### 3.1 Modules

* `ExecutionLifecycle`: statuses, the graph `EXECUTION_TASK_TRANSITIONS` and
  `aggregateExecutionRunStatus`.
* `ExecutionRun`: the abstract specification. Its state is what a user sees, the
  status of the run, whether cancellation was requested, the status of each task.
  A task takes one edge of the graph at a time and the run is the aggregate; once
  cancellation is requested an open task can only end cancelled; only a manual retry
  of an uncancelled run reopens it.
* `TestExecution`: database, worker slots and commands.

| Variable | Code |
|---|---|
| `run` | `test_execution_runs.status`, `cancel_requested_at IS NOT NULL` |
| `task[t]` | `test_execution_tasks`: status, repair count, how its current script revision was made, the attempts of that revision, whether earlier revisions had any |
| `job[t]` | the latest row of `test_execution_jobs` of the task; `claims` is `attempts`, `owner` stands for `lease_owner, run_token, fencing_token`, `expired` for `lease_expires_at <= clock_timestamp()` |
| `slot[w]` | one call of `processTestExecutionOne`: where it stands, what it read of its task (`seen`) and whether the task was written since (`current`: `state_version` still matches), why its controller was aborted (`stop`) |
| `lost[t]` | history only: claims of the latest job that ended abnormally |

A transaction is one action. Each takes the row lock of its job or run before it
reads, so that transactions on the same task are serial in the database. What a slot
does between two transactions (Agents, Runner, files) is its own step and may fail
(`StageFails`, `DropResult`), be interrupted, or take so long that the lease expires.

* `Claim`, `Reconcile`, `Expire`: `claimJob`. Its loop reconciles expired jobs in
  transactions of their own and then claims one; the sets of rows are disjoint.
* `HeartbeatCancelled`, `HeartbeatLost`, `Interrupt`, `Crash`: the heartbeat aborts
  a controller once, with the first reason it meets.
* `Read`, then a stage: `Prepare`, `Generate`, `AuthenticationFails`, `StartAttempt`
  and `SettleVerdict`/`SettleInfrastructureError`/`SettleCancelled`/`DropResult`,
  `Diagnose`, `Repair`, `Yield`, `Conclude`.
* `Finish`, `FailCancelled`, `Release`, `GiveUp`: how `processClaimedTestExecutionJob`
  ends a claim.
* `CancelRun`, `RetryTask`: the user's commands.

The triggers of `migrations.ts` that reject a write are not guards of the model
unless the code relies on the rejection (a second cancellation, the retry of a
cancelled run, the unique index of active jobs). All others are stated as
properties: that a transaction never runs into them is a result, not an assumption.

### 3.2 Properties

| Property | Kind | Meaning |
|---|---|---|
| `RowsAgree` | invariant | all rows tell one story. `AttemptsMatchTask`: running iff the last attempt is, passed iff the last attempt passed; `NoOrphanTask`: open tasks have an active job, queued jobs have work, closed jobs report their task; `RunAgreesWithTasks`: each status of the run means what it says about the tasks; `BudgetCountsLosses`: claims used = claims lost (+ 1 while running) |
| `CancellationReachesJobs` | invariant | after a cancellation only executing jobs stay active, and they are told |
| `OwnersSnapshotIsFresh` | invariant | the owner of a lease works on the state the task really has |
| `DiagnosisHasEvidence` | invariant | one failed attempt before diagnosis, two without a workspace |
| `AttemptsAreAdmissible` | action | each inserted attempt has a kind the insert trigger accepts |
| `StoppedSlotsStaySilent` | action | what each stop reason still allows a slot to write |
| `ImplementsRun` | refinement | every step is a step of `ExecutionRun` or a stutter |
| `WorkEnds` | liveness | under `Fairness` every run settles (`RunEventuallySettles`) and every job closes (`EveryJobCloses`) |

### 3.3 Runs and bounds

`MaxClaims` is `max_attempts` (3 in production), `MaxRepairs` the limit of
`automaticRepairAllowed`; `MaxJobs` bounds the manual retries of a task and is the
only bound that is not in the code.

| Run | Instance | Question |
|---|---|---|
| `TestExecution_One` | 1 task, 2 slots, 2 claims, 1 repair, 1 job, no workspace | fencing, reconciliation, budget, stop reasons, the evidence a diagnosis needs, liveness |
| `TestExecution_Retry` | 1 task, 2 slots, 1 claim, 1 repair, 2 jobs | manual retry after every possible end: admissible attempts, agreement of the rows, the refinement |
| `TestExecution_Two` | 2 tasks, 2 slots, 1 claim, no repair | aggregation, cancellation across tasks, the refinement |

Why the bounds are enough: two claims are the least with which one claim is not the
last and one is, two slots the least with which a former owner meets a new one; tasks
share nothing but the run row, so two of them show every way one task's step changes
what the run says about another. `TestExecution_One` has no execution workspace,
where a script is tried twice before its diagnosis and evidence may be missing; the
other runs have one. Liveness is checked in `TestExecution_One`, without symmetry. A larger instance of the first kind (2 claims, 1
repair, 2 jobs, 3 million states) was explored once and agrees. Slots, and
where there are two of them tasks, are symmetric: no definition distinguishes them.

Deadlock is not checked in these runs: a finished run whose slots are idle has
nothing left to do.

### 3.4 Fairness

`WF(SlotStep(w))`: a slot carries on, because each wait in a stage (Agent, Runner,
probe, governor queue) has a timeout and ends by throwing at worst. `WF(ClaimAny(t))`
and `WF(Reconcile(t))`: idle slots poll `claimJob` every few seconds, and the query
orders by age, so an eligible job is not passed over forever. `WF(ExpireAbandoned(t))`:
a lease nobody renews runs out. A lease whose owner is alive may or may not expire;
crashes, interruptions and commands need no fairness. That an interruption can recur
forever does no harm, because each one costs a claim and claims are bounded.

## 4. Resource governor and Agent sessions

`ResourceGovernor` has one action per stretch of JavaScript between two awaits. The
queue of a resource is represented by the set of waiters in front of each waiter,
which is what first in, first out is about. `granted` is a waiter whose promise is
resolved but whose continuation has not run: it already holds its slot, may be
aborted there, and must then return it.

`AgentSessions` composes it with the locks of `pi-session-runtime.ts`. A flow that
executes, reviews or compacts first takes an Agent slot and then the lock of its
session; a flow that appends a message to a planning session takes only the lock, and
has no abort signal. A compaction reads the binding of its session before it takes the
lock, and takes it only if nobody uses the session or waits for it (`acquireIdle`). The
lock is a chain of promises: each user waits for the gates of all before it. The model
keeps for each flow the set of gates that are still closed (`before`), and for each
session the gates of its tail and its counter of users (`locks`).

| Property | Kind | Meaning |
|---|---|---|
| `SlotsAreAccounted` | invariant | the counter of a resource equals the calls that own a slot (`ActiveCountsHolders`), and somebody waits only while all slots are taken (`NoLostWakeup`) |
| `GrantsAreFair` | action | a grant respects the limit of that moment, comes first come first served, newcomers included, and never goes to an aborted waiter, even when several share a signal |
| `KeepsTheLine` | refinement | the users of a session form a line (`SessionLine`): only the first uses the session, and whoever gives up in the middle leaves the others in their order |
| `EveryWaitEnds` | liveness | nobody waits for ever, neither for a slot while its holder waits for a session, nor for a session |

The run `AgentSessions` has three governed flows and one that appends, one session, the
resources Agent (limit 1 or 2) and Runner (limit 1), and queues of 2. Two flows share an
abort signal, as the calls of one job do. Three flows are the least with which one can
give up in the middle of a line; a full queue, raising and lowering the limit under load
and a compaction that finds the session busy all happen. Deadlock is checked.

Fairness (`SessionsFairness`): promise continuations run, and a governed operation or an
append ends, because Agents, probes and file writes have deadlines; configuration reads,
aborts and new calls have none. The model asks whether fairness to *each flow* is
enough, that is whether the queues themselves starve nobody.

Left out: the check that an entry is still the same object after the wait, which the
counter of users makes true; the binding of the active session (`bindActive`), which
throws only if two flows own one session; opening and reading session files.

## 5. Execution workspace

`WorkspaceBinding` models `execution-workspace-store.ts` and the stages of the service
that call it, for the concurrent claims (`actor`) of one worker process. One process is
what the documentation allows per workspace; the mutation lock is a chain of promises
and does not reach further.

| Variable | Code |
|---|---|
| `files`, `binding` | the files of a project version and `bindings/*.json`; content stands for its hash |
| `actor[a]` | a claim of a task: what it has read, the package it made and the snapshot it made it from, what its publication has still to write |
| `mutations` | the chain of `mutationTails`: its head is in its critical section |
| `passed`, `torn` | history only: packages that passed, files of publications that were cut off |

Every read and every write of a binding is a step of its own, as is every write of a
file; reads that are only compared are one step. `GiveUp` ends a claim anywhere, also
within the critical section (a lost lease in `beforePublish`, a revision conflict, a
file system error), `Crash` ends all of them. `Resume` is a later claim of a task that
passed and whose binding was not validated.

| Property | Kind | Meaning |
|---|---|---|
| `BindingsAreTrue` | invariant | `ValidatedWasExecuted`: only an implementation that passed counts as validated; `BindingsDescribeFiles`: a usable binding has the hashes of the files, unless a publication is under way or was cut off |
| `NoBlindOverwrite` | action | a publication replaces only what its Agent was given |
| `EveryMutationEnds` | liveness | whoever waits for the lock gets it and gives it back |
| `OnlyPublicationsReplace` | action, violated | only publications change what a binding says of the implementation |

The last one is a finding. `resolveBinding` reads and writes a binding without the lock
and writes an old binding, marked invalid, over one that was published in between.
`setBindingStatus` has the same weakness: a rejection is lost when it falls between the
check and the write of a validation. Neither makes a wrong implementation count as
validated: `ValidatedWasExecuted` holds in spite of them, since validation compares the
package with the binding and the files under the lock. What is lost is a new
implementation (it is generated again) or a rejection.

`WorkspaceBinding_Two`: two cases, one shared helper, two contents and two claims. Two
cases are needed for a publication to affect the binding of another, two claims for one
to publish, reject or resolve while the other is at work. An instance with three claims
in all was explored once without the liveness property and agrees.
`WorkspaceBinding_Drift` needs one case only. Cases,
contents and claims are symmetric. Fairness is that of the lock holder: it waits for
file system and database, which answer or throw. Deadlock is not checked: when
`MaxTasks` claims have ended, nothing is left to do.

## 6. Analysis runs

`AnalysisRun` models a requirement-analysis run (`review_runs`) together with the job
(`review_jobs`) that drives it. The HTTP process creates, cancels and clarifies runs,
workers execute them, and almost every operation is several transactions: start inserts
the run, then the job; cancel flags the job, then marks the run; a worker begins an
attempt, opens and closes a model call, commits the result and only then publishes the
release, and settles the job at the end.

| Variable | Code |
|---|---|
| `run[r]` | `ReviewRun`: `status`; `result`, the attempt that produced it; `blocking`, whether a blocking clarification is pending; `transition`, `workflow.automaticTransition.status`; `release`, the attempt whose result it holds; `design`, whether the automatic test design exists |
| `job[r]` | `review_jobs`: status, `attempt_count`, `live` for `lease_expires_at > now()`, `cancel_requested_at IS NOT NULL` |
| `tries`, `route` | `executionAttempts` and `modelRouteAttempts` of the run, per attempt number |
| `worker[w]` | one call of `processReviewOne`: its stage, its claim, why its controller was aborted (`stop`) and the kind of error being handled |
| `request`, `cancel`, `desk` | the HTTP handlers of start, of cancel, and of clarifications or the retry of the transition |

A transaction is one action. `Fenced` is the check of `runTransaction`; `Refused` its
failure. `At` is `throwIfWorkerStopped`: a worker acts at a stage only while its
controller is not aborted, and otherwise leaves through `SettleStoppedWork`. Publication
(`Notify`) has neither check in the code and so has none here; it is the same action for
the worker and for the handler that answers clarifications.

Abstractions: the run token is the attempt number, which is fresh for each claim because
`attempt_count` never decreases in this queue. A signal check and the transaction
behind it are one step: an abort that falls in between commutes with the transaction,
since nothing else reads the signal. A run has one cancel request and one clarification
or retry request at a time. Errors are of two kinds, those `isRetryableReviewJobError`
retries and all others. Publication fails nondeterministically (changed inputs, a closed
version, an unreachable Agent). Progress fields and `execution` are left out, and with
them the refusal of an answer while an execution record is missing.

| Property | Kind | Meaning |
|---|---|---|
| `ResultsAgree` | invariant | the history shows one attempt running, the newest (`OnlyNewestAttemptRuns`), and a release holds the result the run shows, nothing of it pending (`ReleaseIsOfTheResult`) |
| `ReleaseIsImmutable` | action | a published release is never replaced |
| `LateWorkersPublishTheirOwn` | action | a worker publishes only the result it committed itself, with no question left, however late |
| `StopsAreRespected` | action | no executing worker overwrites a cancellation that its job carries (`CancelledStaysCancelled`), and infrastructure stops end neither run nor model call (`StoppedWorkSettlesNothing`) |
| `EveryRunFinishes` | liveness | under `Fairness` a running run ends |
| `RunHasAKeeper` | invariant, proved | a running run has a creator, a job or a cancellation that will end it |

What the actions show beside the properties, and what the code may be asked about:

* A cancellation that comes before the job exists flags nothing (`start` 374-378 and 215,
  `cancel` 251-255). The worker that has begun meanwhile commits its result (494) and
  turns the cancelled run into a succeeded one, against the comment at 389. That is why
  `CancelledStaysCancelled` speaks of cancellations the job carries.
* A read that fails after the commit (513) is handled as a failed execution (573-586) and
  rewrites a run that has been released, against 632.
* The transactions of `Notify` carry no lease: a worker told that its lease is lost still
  publishes the release of the result it has committed, although
  requirement-analysis-service.ts:591, README.md:418 and the concurrency document (67)
  promise the opposite. `LateWorkersPublishTheirOwn` and `ReleaseIsImmutable` bound
  the damage: what it publishes is its own result, committed under a live lease, even
  if another worker has claimed the job since, and only once. Had the
  worker stopped, nobody would publish: the next holder of the job refuses a run that
  has ended.
* A crash, or a failing append to the planning session, at 146 leaves the automatic
  transition pending until a user retries it.
* When `worker.ts:385` loses the first of its two writes, the run stays running and has
  no job.

`Faults` names what may go wrong in an instance: a worker crash, a crash of the HTTP
process, the read after the commit failing, the write of `failPreparedRun` failing;
`MaxFaults` bounds their number and is the only bound that is not in the code. Shutdowns,
failing heartbeats and expiring leases are always possible. Properties that need a fault
not to happen say so where they are stated: `RunHasAKeeper` and `EveryRunFinishes` do
not survive a crash of the HTTP process between two transactions (nothing recovers a
run without a job), `RunHasAKeeper` not the loss of the write of `failPreparedRun`, and
`ReleaseIsOfTheResult` and `CancelledStaysCancelled` not the failing read.

| Run | Instance | Question |
|---|---|---|
| `AnalysisRun_Safety` | 2 workers, 2 attempts, 2 faults: crashes and lost writes | attempts, release and result, finality of a cancellation, stopped workers, late publications |
| `AnalysisRun_Live` | 1 worker, 2 attempts, 2 worker crashes or failing reads | every run ends, releases stay |

Both runs have one analysis run: two of them meet only in the claim, which recovers all
expired jobs and takes one, and the proofs cover any number. Two attempts are the least
with which one is the last and one is not; two workers the least with which a former
owner of the job is still at work when it is claimed again. In `AnalysisRun_Live` one
worker is enough, because the former owner may as well have crashed. Workers are
symmetric; symmetry is not used for liveness. Deadlock is not checked: when the run has
ended and its handlers are done, nothing is left to do.

Fairness: `WF(WorkerStep(w))`, as each wait of a worker has a timeout; the HTTP handlers
carry on; idle workers poll `claimReviewJob` (`runLane`, every `pollMs`), which orders by
age; a lease that no worker renews (`Abandoned`) runs out. A live worker's lease may or may
not expire; faults, aborts and user requests have no fairness.

## 7. Test design

`TestDesign` models one design run: its two Agent stages (`test_case_design` and the
automatic `test_design_repair`), the queue jobs of their nodes, the HTTP requests that
create, cancel, restart and edit the run, and the workers that execute it.

| Variable | Code |
|---|---|
| `run` | `workflow_runs`: status, the automatic repair and how often it was used |
| `node[k]` | the current generation of a stage and its status; the id of a node contains its generation |
| `job[n]` | `workflow_task_jobs`: status, attempts, holder, whether the lease is live |
| `candidate`, `audit` | the test cases (which node wrote them, the edits made since) and the cases the valid coverage audit is about |
| `worker[w]`, `desk[h]` | where a worker or a request stands between two transactions, and what it read before |

A node is scheduled after the transaction that queued it (`ScheduleRepair`,
`EnqueueRepair` of the worker, `Schedule`, `Enqueue` of a request), so that a crash in
between is a state of the model. `Startable`, `Committable` and `Fenced` are the checks
of the code at the begin and at the commit; everything a worker read in between may be
old. How a stage ends on each error (`FailNode`, `SettleFailure`, `Finish`,
`SettleStoppedWork`) is one action per transaction.

| Property | Kind | Meaning |
|---|---|---|
| `CasesAndAuditAgree` | invariant | types (`TypeOK`); the valid audit is about the cases as they are, whoever changed them last (`AuditIsOfTheCases`) |
| `RunMatchesItsStages` | invariant | an open run has somebody who continues it (`RunHasAKeeper`), a succeeded one nothing left to do (`SuccessIsFinal`), never may two workers both commit (`OneStageAtATime`) |
| `CancelledStaysCancelled` | action | no worker revives a cancelled run |
| `RepairKeepsTheEdits` | action | a repair computed from older cases overwrites no human edit |
| `OldGenerationsWriteNothing` | action | a worker of a replaced generation writes neither run nor node nor cases |
| `RunEnds` | liveness | every run ends unless nobody is left to continue it |

The run `TestDesign`: two workers, one request handler, two attempts, one repair, two
generations, one request after the start, one edit, one fault of one of four kinds (a
worker that pauses or shuts down, a worker crash, a crash of the HTTP process, a query
that fails after a commit). Two workers are the least with which the former holder of a
lease meets the next one; the second generation is what makes a worker old. The safety
properties were explored once with two requests (7.6 million states). Fairness is one
`WF` of the disjunction of all steps of workers, requests and leases: a run takes
finitely many of them, so that it is enough that they never all stop. Idle slots
are interchangeable and the first of them claims (`NextSlot`), which takes the place of
a symmetry that liveness does not allow. Deadlock is checked: an idle worker polls.

What the properties have to except, because the code does it:

* A stage that had failed is not cancelled with its run; a retry that passed its first
  read before `cancelRun` revives the run (test-design-service.ts:628-640).
* A read or an enqueue that fails after the commit (685-706) makes the catch fail the
  stage that has succeeded. `RunHasAKeeper`, `SuccessIsFinal`, `OneStageAtATime` and
  `RunEnds` speak of runs without such a fault; what holds under it is
  that the audit is of the present cases, that no repair takes back an edit and that old
  generations write nothing.
* A crash between the commit and the scheduling (685) leaves the repair committed and
  unscheduled (`RepairNeverScheduled`).
* After such a failure a repair may be queued beside a design that has failed. When the
  design's job is recovered as cancelled, the run ends cancelled and the repair stays
  queued; its worker revives the run. `CancelledStaysCancelled` speaks of runs without
  such a fault, too.
* A read that fails at the begin finishes the job while the run stays queued.
* A design of a later generation replaces human edits, as it is meant to.

## 8. Case library

`CaseLibrary` is what happens to the cases of a design run: matching with the baseline
of the library, editing, reviewing, deletion, the coverage audit, publication as a new
version of the library, maintenance of the library itself, suites and the handoffs that
test execution starts from. Each operation is one transaction of the state store; what
makes it hard is that these are many, by different people, each based on what a page
showed earlier (`seen`).

| Variable | Code |
|---|---|
| `cases`, `proposals`, `audits` | candidate cases with revisions, review state and approvals; the change proposals of a run; its valid audit |
| `library`, `versions` | formal cases with their revisions; the published versions with frozen members |
| `drafts`, `suites`, `handoffs` | selections of one version |

A content is what the hashes of the code tell apart: its sense and whether it covers the
requirement. `Reconciled` is what the code does with the proposals of a run after each
change of a case, `EffectiveCases` what the auditor is shown, `Publish` both gates and
the whole of `applyProposalToLibrary`. `Review` takes any set of cases, as the batch of a
page does; an empty one only reconciles the proposals. The gate `BaselineIntact` is in the
model because it is in the code; no reachable state fails it (section 11).

| Property | Kind | Meaning |
|---|---|---|
| `PublishedWasAccepted` | invariant | each member of a version was approved by somebody who looked at that content (`PublishedWasReviewed`), and the audit was about exactly this version (`PublishedWasAudited`) |
| `ReviewIsEnough` | invariant | one proposal per baseline case (`TypeOK`); once all live candidates of a run are approved, each of its proposals is or can be accepted and the frozen revisions are intact: no order of edits, deletions, withdrawals and library changes leaves a run that cannot be published (`ApprovedCanBePublished`) |
| `EverythingLiveIsPublished` | action | a publication leaves no live candidate and no baseline case out |
| `PublishedStaysPublished` | action | revisions are never rewritten (`HistoryIsKept`), so that versions, suites and handoffs keep the contents they froze (`SelectionsStayFrozen`) |

The run `CaseLibrary`: one run, a baseline case that a designed case matches, a case
people add, a library case people create, one suite key, three contents (two senses, one
of them with and without the requirement), two writes of people. Deadlock is not
checked: with the writes used up nothing is left to do.

Where the code is surprising but within these properties: editing the deleted candidate
of an update leaves a `create` proposal without a live candidate that blocks every
publication (library.ts:600) until the candidate is deleted again, the one exception of
`ReviewIsEnough`; a repeated request for a publication returns the version there is (1236)
before it compares anything with what the page showed, so that edits made after the first
publication are silently not in it; an update published after an edit of the library case
supersedes that edit, and reactivates a case that was deprecated meanwhile; two runs
publish from the same baseline independently of each other. Not modelled: the projection
to the summary (2055-2137), edits of references only, readiness overrides, the
dependency graph, traceability, deduplication by hash.

## 9. Knowledge base

`KnowledgeSync` models documents, their uploaded versions, the active index and the
tasks that change them: synchronisation of one upload, deletion of a document or of a
directory, rebuild. A task is claimed under a lease, reads its base (`BeginSync`,
`BeginRebuild`, `BeginCleanup`), builds a candidate away from the store (`Fill`) and
activates it in a last transaction (`CommitSync`, `CommitRebuild`, `CommitDelete`,
`CommitDirectory`), where everything may have changed.

| Property | Kind | Meaning |
|---|---|---|
| `SearchAgreesWithDocuments` | invariant | active versions are complete ones of their document (`TypeOK`); the active index covers exactly the active version of every document (`ActiveVersionsAreIndexed`), with vectors of one dimension (`IndexIsHomogeneous`): `IndexServesDocuments` |
| `DeletedStaysDeleted` | invariant | no candidate brings back what was purged while it was built |
| `MarksHaveATask` | invariant | a scope lock, or an upload shown as under way, has a task that can settle it or be retried |
| `NewestVersionWins` | action | an upload is never replaced by an earlier one, in whatever order synchronisations end |

The run `KnowledgeSync`: two documents, one of them in the directory, two contents, two
configurations of different dimension, two workers with two attempts per task, two
tasks of people, one retry, two faults. Two documents are the least with which an index
may lose one while the other is synchronised. At first nothing or every document is
indexed. Configurations are numbered in the order in which they are saved, from 1, the
initial one.
Workers and contents are symmetric. Deadlock is not checked.

Where the code is weaker than one might think, and the properties say so:

* The deletion of a directory records the index it starts from
  (knowledge-service.ts:347) and never compares it when it commits (659-686), unlike a
  synchronisation (469-471): `overtaken` marks the states after that, which
  `ActiveVersionsAreIndexed` excepts.
* `deleteDirectory` looks for queued and running tasks only (319-322, 336). A second
  deletion takes over the lock of a failed one (352); when it ends the lock is released,
  uploads are accepted, and a retry of the first one (525-528) deletes the new files.
  tests/phase1.test.ts:113 says that a failed cleanup keeps its scope locked.
* A failed deletion of a directory releases its scope before it is retried.
* Embeddings are reused after a change of the model if the dimension is the same.
* An upload equal to the active version is dropped although a different one is in flight.
* A failure because the base has changed leaves the version `syncing`, recovery of an
  exhausted lease leaves its locks until a manual retry.

Not modelled: raw files, renaming and moving, the guard for running reviews, the purge of
references in other components, priorities, liveness, and retrieval.

## 10. Tool approval

`ToolApproval` models `ReviewGovernanceService`: a tool that writes waits until a human
has decided about its request, by polling. Between the snapshot it read and the
transaction it then makes, other calls, the human, the clock and the run move on.

| Variable | Code |
|---|---|
| `approvals` | `toolApprovals` of a run: request (tool, version, hash of the arguments), status, `consumed`, who decided what (`decision`), whether `expiresAt` has passed (`lapsed`) |
| `caller`, `aborted` | what a call of `authorize` knows: its request, the approval it waits for, its last snapshot; its signal |
| `running` | whether the run is running |
| `executions`, `abandoned` | history only: which call executed on which approval, which questions lost their call with its process |

| Property | Kind | Meaning |
|---|---|---|
| `ApprovedOnce` | invariant | an approval lets one call through (`OneExecutionPerApproval`), with the arguments a human approved (`ExecutedWasApproved`) |
| `QuestionsAreCurrent` | invariant | one open question per tool (`OneQuestionPerTool`), and somebody waits for its answer (`QuestionsAreAttended`) |
| `DecisionsStand` | action | while the run is running a decision is not changed (`DecisionsAreFinal`), and after a rejection no further call is let through (`RejectionIsFinal`) |
| `EveryCallEnds` | liveness | every call is answered, cancelled or times out |

The run `ToolApproval`: two concurrent calls, one tool with two sets of arguments, two
approvals, two calls in all; a call takes the first free place. Fairness: the loop polls, and time passes. Deadlock is not
checked: when the calls are made and have ended, nothing is left to do.

What the code does beyond that: the transaction that consumes an approval (92-97) does not
look at the run again; a decision about an approval of an ended run rewrites its status
to `cancelled`; `now` (47) is taken before the transaction, so that an approval which
expired meanwhile may be used; calls of one tool with different arguments cancel each
other; aborting one of two calls that share a question refuses the other; an approval is
consumed before `GovernedToolRuntime` applies its limits, so that a refused repetition
uses it up.

## 11. Proofs

Each theorem holds for all values of the constants that satisfy the named assumptions of
its module. `TheoremName` below is a theorem; the properties of the runs it states are
those of the tables above.

`TestExecutionProofs` proves, for all values of the constants that satisfy
`ExecutionAssumption` and `TasksAssumption`:

* `TypeCorrect`: `Spec => []TypeOK`.
* `BudgetExact`: `Spec => []BudgetCountsLosses`.

The inductive invariant is `TypeInv == TypeOK /\ SlotsServeTasks /\ BudgetCountsLosses`.
`TypeOK` alone is not inductive: `RefundedJob` decrements `claims`, and that the
result is still a natural number follows from the accounting of claims; a commit
writes `task[slot[w].task]`, and that this is a record follows from
`SlotsServeTasks`. There is one lemma per action; those of the actions that commit a
stage share `CommitTypes`, those that close a job `CloseJobTypes`.

* `OwnersFresh`: `Spec => []OwnersSnapshotIsFresh`. The invariant says nothing of slots
  that do not own a lease, and one of them may become an owner only by claiming;
  inductive is `SnapshotInv`, which adds that whatever a slot believes to be current is
  current, owner or not, because each write of a task outdates every slot that serves it.
  It is used as `TypeInv /\ SnapshotInv`.

The rest of the module builds on these, with one invariant for each thing the rows
have to agree on. All of them rest on the fresh snapshot of the owner, and each is
preserved by a few shapes of steps to which the actions are reduced once.

* `AttemptsTellTheStory` and `RunAgrees`, by `StoryInv == AttemptsMatchTask /\
  RunFollows`. `RunFollows` (the run is the aggregate of its tasks, or nothing has
  happened yet) is what `recomputeRun` preserves; `RunAgreesWithTasks` follows from it
  and is not inductive by itself, since it does not say which final status a mixture of
  results has. `recomputeRun` leaves a finished run alone, so that the step needs that
  only open tasks are written, hence fencing. `Advances` is the common shape of all stage
  transactions.
* `NoOrphans` and `CancellationReaches`, by `JobInv`, which adds that an unsupported task
  never has a job. `RowsTellOneStory` puts these together: `Spec => []RowsAgree`.
* `KeepsPromise`, the refinement `Spec => ImplementsRun`. Each stage transaction is an
  `Advance` of `ExecutionRun` (its edge is in the graph because the snapshot is fresh,
  and it is a cancellation if one was requested, because the job of a task that is still
  open has been told); the end of a job whose task was done already is a stutter, because
  the run was the aggregate before; `CancelRun` is `RequestCancel`, `RetryTask` is
  `Reopen`.
* `DiagnosisIsFounded` (`DiagnosisHasEvidence`) and `AttemptsAreAccepted`
  (`AttemptsAreAdmissible`), by `HistoryInv`: which attempts a revision can have in each
  status, in particular that a confirming attempt exists only after a failure and that
  `retrying` remembers one. Evidence for a diagnosis alone is not inductive, since it is
  collected in statuses that are not diagnoses.
* `StoppedSlotsAreSilent` (`StoppedSlotsStaySilent`), by `StopInv`: a slot that was told
  that its lease is lost owns none, or its task is done. Without it a stage whose guard
  does not look at the reason could still write.

`WorkspaceBindingProofs` proves `WorkspaceTypes`, `ValidatedExecuted`,
`BindingsDescribe` (together `BindingsTrue`, that is `BindingsAreTrue`) and
`NothingOverwritten` from `WorkspaceAssumption`. `TypeInv` and
`LockHeld` (whoever publishes or promotes is first in the chain) are inductive
together. `SafetyInv` adds what the holder of the lock knows between its check and its
last write: `PublicationOnTrack` (files written and to be written, the bindings yet to
be rebased, and that all others agree with the package) and `PromotionJustified`.
`QuietSafety` is the shape of all steps outside the lock: they can make a binding
unusable, which no invariant minds; that is why neither the finding nor a lost rejection breaks them.

`AnalysisRunProofs` proves, from `AttemptsAssumption` and `FaultsAssumption`:

* `AnalysisRunTypes`: `TypeOK` is inductive; one lemma per group of actions.
* `OnlyTheNewestAttemptRuns`: inductive with `EntriesWereDrawn` (an attempt has an entry
  only if a claim has drawn its number, so that all later numbers are still unused). Every
  step keeps the history, concludes the newest attempt or opens the one last drawn.
* `StoppedWorkIsLeftForRecovery`: with `IdleIsNotStopped`, a claim never starts under an
  old signal; then only stages without a signal check are left, and none of them writes
  the status of the run or its model calls.
* `RunsHaveKeepers`: `RunHasAKeeper`, assuming `NoLostWrites` (no crash of the HTTP
  process, no lost write of `failPreparedRun`). `KeeperInv` adds what makes it inductive:
  busy workers of a run hold different attempt numbers, all drawn already; a run without
  a job carries no cancellation; a running run whose job carries one is about to be
  cancelled; and the owner of a job that has given up or has published finishes the job
  of a run that has ended. The read after the commit may fail and workers may crash.
* `WhatARunShowsAgrees` and `StopsAreFinal`: `ResultsAgree` and `StopsAreRespected`,
  assuming `NoReadFailure`. The assumption is the one under which the run checks them: when
  the read after the commit fails, the code fails a run that shows a result, and both are
  false. `ResultInv` adds that a run which shows a result has ended (`ShownRunsEnded`) and
  that the owner of its job executes nothing (`ShownRunsRest`), so that nobody is left who
  could commit a second result under a release made of the first. A commit is the only step
  that is not `Tame`; it needs that owners of a run are unique.
* `LatePublicationsAreTheirOwn`: `LateWorkersPublishTheirOwn`, assuming `NoReadFailure`. It
  adds to `ResultInv` that a worker about to finalize shows its own attempt, with no question
  left (`FinalizersShowTheirOwn`), and that busy workers hold a number: another commit would
  need an owner of the job that executes a run which has a result, against `ShownRunsRest`.
* `AReleaseIsPublishedOnce`: `ReleaseIsImmutable`, under every fault: it depends on the check
  in the transaction that publishes and not on the history.

`AgentSessionsProofs`, from `GovernorAssumption` and `SessionsAssumption`, for any number
of callers, resources, limits and sessions:

* `SlotsAccounted` and `GrantsFair`, by `GovernorInv`, whose core is `Orderly`: the
  prefixes in front of the waiters of a resource are a line (`LineOn`), slots and
  reservations are counted. In a line the length of a prefix is a position; that the
  waiters whose prefix is shorter than the number of free slots fill these slots, or
  leave nobody behind, is `StartedFills`, the only place where finite sets are counted.
  `DrainKeeps` concludes that a drain starts the first waiters, never too many, and never
  leaves a slot free while somebody waits; `DrainStep` and `QuietStep` are the shapes of
  steps that drain and that do not. Every step of the sessions is a step of the governor
  or leaves it alone, so that the composition inherits both.
* `SessionsExclusive`: `SessionsAreExclusive`, that is one flow per session, and the entry
  of a session is about exactly its users. `Lined` is inductive: what a flow waits for is
  part of its line, only waiters wait for anybody, and of two flows in a line one waits
  for the other. Two owners would both wait for nobody.

* `LinesKept`: the refinement `SessionsSpec => KeepsTheLine`. The line of a session is its
  users, sorted by how many each has in front (`Ordered`); that the places 1 to n are all
  taken is `StartedFills` again (`PlacesAreTaken`), that no two share one is
  `PlacesDiffer`, and `OrderedIsTheLine` that a sequence is determined by that. Joining
  then appends (`JoiningAppends`) and leaving removes one place (`LeavingRemoves`), at the
  head, in the middle or at the end, which is how `SessionLine` says it. Steps of the
  governor stutter.

`ToolApprovalProofs`, from `ApprovalAssumption`: `ApprovalUsedOnce`, `QuestionsCurrent` and
`DecisionsHold`, put together from a theorem per part. Inductive is `Inv`: the four
invariants with what a snapshot in the hands of a caller still says about the approval
(`SnapshotsAge`: a settled approval changes only in ways that do not mislead who has read
it), that a decision is recorded where the status shows one (`DecisionsRecorded`), that
what was late stays lapsed, and that a rejected request has no approval beside it that
could still be used (`RejectedAlone`). `StepForms` says what a step can do to an approval,
`CallerMoves` where it brings a call.

`TestDesignProofs`, from `BoundsAssumption`, for any number of workers, requests,
attempts and generations, any set of faults and at most one automatic repair (the limit of
the code): `TestDesignTypes`,
`TheAuditIsOfTheCases`, `TheRunMatchesItsStages`, `ACancelledRunStaysCancelled`,
`ReplacedGenerationsWriteNothing` and `ARepairKeepsTheEdits`, that is all its safety
properties. Nothing the run checks is inductive by itself: that a worker may not revive a
cancelled run, that two may not both commit and that nobody leaves an open stage alone all
depend on where the owners of the jobs stand. `Inv` has, beside types and audit, `Sound`:

* `NodesAreKnown`: nobody has heard of a generation to come, workers work on jobs that
  exist, and a job in the queue carries no cancellation. This holds under every fault, and
  is all that `ReplacedGenerationsWriteNothing` needs.
* `StagesInOrder`: the repair has no job and nobody about to give it one until the design
  has succeeded, and the run is open exactly as long as a stage is. `OwnersAgree`: the
  holder of a live job of the present generation stands where the status of its node says,
  so that it never begins or commits what has succeeded. Both assume that no query failed
  (`Calm`), as the properties they imply do.
* `WorkIsKept`: an open stage has a job that is queued or running, or somebody who is going
  to schedule it, or a request about to cancel it; only a repair may have lost its
  scheduler, to a crash of the worker. It assumes that neither a query failed
  nor the HTTP process crashed (`Reliable`); workers may crash.

`Sound` is stated of tables, workers and desks that need not be those of one state, because
a claim recovers several expired jobs, one after the other, in one step: between two of
them the tables are those of no state, and must satisfy the invariant all the same.
`RecoverKeepsSound` shows it for one job that nobody holds alive, and `RecoveredKeepsSound`
applies it to each order of recovery. The other steps are of a few shapes, with a lemma
each: a worker goes on or rests (`QuietStep`), its job is settled (`SettleStep`), a job is
queued (`EnqueueStep`), the status of a node and of the run change together (`NodeStep`),
a commit queues the repair (`RepairStep`), and the requests. `MovesKeepSound` serves all
those that leave the nodes alone. `OwnerKnows` is what a commit uses: the holder of the
design's job knows that the repair has no job yet, the holder of the repair's that the
design has succeeded.

`CaseLibraryProofs`, from `ConstantsAssumption` (a candidate belongs to one run, two
designed cases of a run match different baseline cases, an added case matches none, and
the contents differ in sense and cover): `Typed`, `OnlyAcceptedIsPublished`,
`ApprovalSuffices`, `PublishedIsKept` and `LiveIsPublished`, that is all its properties. `Inv`
consists of what

* a proposal is (`Proposed`): one per baseline case, one per live candidate, with the
  present content and the operation that follows from it. A proposal of a deleted case is
  never accepted;
* an approval means (`Approved`): it was given to the present revision, unless the case
  still is the frozen one;
* versions say of the library (`Kept`): the frozen revisions are still there with the frozen
  content, and the library has no case of a run that is not published;
* selections are (`Selected`): drafts, suites and handoffs contain members of their version;
* an audit is about (`AuditsCover`): the whole baseline at least.

Edits, reviews and deletions disturb the first two, maintenance the third, suites the
fourth; only `Publish` reads all of them. That the gate for the integrity of the baseline
always passes is a lemma (`IntactBaseline`), and why it is no guard in the proofs.
`ApprovalSuffices` follows from it and from `Proposed`: a proposal that is still pending has
a candidate and is no reuse; if the candidate lives it is approved and the proposal is
accepted, and if it does not, the proposal is a creation without a source.

`KnowledgeSyncProofs`, from its `ConstantsAssumption` (finitely many documents,
configurations numbered from 1): `Typed`, `WhatIsSearchedIsWhatIsShown`,
`DeletedDocumentsStayAway`, `NothingIsMarkedForEver` and `NewestUploadWins`, that is all its
safety properties. The heart of `Inv` is `Promising`: as long as the index is the one a
fenced worker began from, its candidate is what its task is to make of it (`Goal`). It is
true when the worker reads its base, kept by quiet steps (`Quiet`), reached piece by piece
by `BuildStep`s, and used once, by the `CommitStep` that replaces the index. This step makes
every other worker's base old, so that what they had promised need not be kept. Beside it:
what is active is complete (`ActiveIsReady`), a sync task per upload (`OneTaskPerUpload`),
no candidate, queued, running or failed, contains a purged version
(`TasksAreWellFormed`), locks have their deletion (`LocksAreHeld`), uploads under way have
their task (`VersionsHaveATask`). The initial state in which every document is indexed
needs that finite sets can be numbered, the only use of cardinality. Where the deletion of
a directory replaces an index it was not built from, the promise is given up
(`overtaken`), as the property itself does; the other properties need no such exception.

Model-checked only: liveness (`WorkEnds`, `EveryWaitEnds`, `EveryMutationEnds`,
`EveryRunFinishes`, `RunEnds`, `EveryCallEnds`), which is out of the prover's reach, and the
finding `OnlyPublicationsReplace`, which is false. Every invariant, every action property and both
refinements the runs check are stated by a theorem.

## 12. What is not modelled, and why

* The retry delay (`available_at`): a queued job may be claimed at any time, which
  includes every delay.
* Row locks and their deadlocks: PostgreSQL aborts a transaction, which is a failing
  stage or a refused command here.
* Contents: scripts, packages, evidence, reports, prompts. A stage chooses among the
  outcomes the code distinguishes. One consequence: that a repair which reproduces an
  earlier package throws on a unique constraint (`migrations.ts:2637`) at every claim
  appears only as one of the failures a stage may have.
* In the workspace: bindings in the legacy location and entry files of several cases
  (read, no longer written), inheritance between project versions (before any
  execution), exploration records and authentication files.
* Of the analysis runs: execution without a queue (`start` of the in-memory store), the
  delay before a retry, the superseding of older releases of a project version, planning
  reviews, and what a document, a result or a clarification says.
* The scheduler of test executions (`execution-resource-scheduler.ts`): a claim may happen
  whenever a slot is free. What is particular to it, capacity lowered while work has
  started and not claimed yet (36), is a counter within one turn of the event loop.
* The configuration of the infrastructure: drafts and publications are single
  transactions that compare revisions. Its effect, a limit that changes under load, is
  `Configure`.
* The state store: that a read-modify-write is one action is assumed, and with it its
  rollback when the database refuses.
* Of test design: the `coverage_audit` node (an Agent that writes a report), the mode
  without a queue, and the check that the project version is open.
* The components marked `not_modelled` in `PROJECT.json`; the notes there say why.
