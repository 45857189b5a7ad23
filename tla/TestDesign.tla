------------------------------- MODULE TestDesign -------------------------------
(***************************************************************************)
(* One test design run: its stages, their generations and their jobs.       *)
(*                                                                         *)
(* A run (smarthub.workflow_runs) holds two agent stages, the design of the *)
(* test cases and one automatic repair after the coverage audit.  A stage   *)
(* is a node whose id contains its generation; the queue row of a node      *)
(* (smarthub.workflow_task_jobs) has a lease of its own.  Requests create,  *)
(* cancel, restart and edit the run while workers execute its nodes, and    *)
(* nobody but the scheduler called after a commit turns a queued node into  *)
(* a job.  Sources: server/application/test-design-service.ts,              *)
(* server/application/test-design/workflow.ts,                              *)
(* server/domain/test-design-job-state.ts,                                  *)
(* server/infrastructure/postgres-store.ts, server/worker.ts.               *)
(***************************************************************************)
EXTENDS Naturals, FiniteSets

CONSTANTS
    Workers,         \* worker slots; a restarted process takes the same slot
    Handlers,        \* requests being served by the HTTP process
    Nobody,          \* the holder of a job that no worker holds
    MaxAttempts,     \* maxAttempts of a job (3 in the code)
    MaxRepairs,      \* AUTOMATIC_REPAIR_MAX_ATTEMPTS (1 in the code)
    MaxGenerations,  \* bound on the generations of a node
    MaxRequests,     \* bound on the requests made of a run that exists
    MaxEdits,        \* bound on the human edits of a candidate
    Faults,          \* which of PossibleFaults may happen
    MaxFaults        \* bound on the kinds of faults that happen in a behaviour

PossibleFaults ==
    {"worker_interrupted", "worker_crash", "api_crash", "query_failure"}

ASSUME BoundsAssumption ==
    /\ MaxAttempts \in Nat \ {0} /\ MaxGenerations \in Nat \ {0}
    /\ MaxRequests \in Nat /\ MaxEdits \in Nat /\ MaxFaults \in Nat
    /\ MaxRepairs \in {0, 1}
    /\ Faults \subseteq PossibleFaults
    /\ Nobody \notin Workers

VARIABLES
    run,        \* the workflow_runs row
    node,       \* node[k]: the current generation of stage k and its status
    candidate,  \* the test cases: who wrote them and the edits made since
    audit,      \* the candidate the valid coverage audit is about, or Stale
    job,        \* job[n]: the workflow_task_jobs row of node n
    worker,     \* worker[w]: a worker's control state
    desk,       \* desk[h]: what a request of the HTTP process is doing
    requests,   \* number of requests so far
    faults      \* the kinds of faults that happened

vars == <<run, node, candidate, audit, job, worker, desk, requests, faults>>

Stages == {"test_case_design", "test_design_repair"}
Generations == 1 .. MaxGenerations
Nodes == [stage : Stages, generation : Generations]
NodeOf(k) == [stage |-> k, generation |-> node[k].generation]
Design == "test_case_design"
Repair == "test_design_repair"
NoNode == [stage |-> Design, generation |-> 0]

RunStatuses == {"absent", "queued", "running", "succeeded", "failed", "cancelled"}
NodeStatuses == {"pending", "queued", "running", "succeeded", "failed", "cancelled"}
RepairStatuses == {"idle", "queued", "running", "succeeded", "not_needed", "exhausted",
                   "deferred"}
\* A job that succeeded, failed or was cancelled is "over": nobody reads which, nor
\* anything else of its row.  "exhausted" is a failed job whose error is
\* WORKFLOW_JOB_LEASE_EXHAUSTED, which the recovery looks at again.
JobEnded == {"over", "exhausted"}
JobStatuses == {"absent", "queued", "running"} \union JobEnded

\* A candidate is told apart by the node that wrote it and the edits made since.
Candidates == [by : Nodes \union {NoNode}, edits : 0 .. MaxEdits]
Stale == [by |-> NoNode, edits |-> MaxEdits + 1]

NoJob == [status |-> "absent", attempts |-> 0, holder |-> Nobody,
          live |-> FALSE, cancelAsked |-> FALSE]
Ended(status) == [NoJob EXCEPT !.status = status]
JobRows == [status : JobStatuses, attempts : 0 .. MaxAttempts,
            holder : Workers \union {Nobody}, live : BOOLEAN, cancelAsked : BOOLEAN]

WorkerStages == {"idle", "begin", "start", "read", "execute", "commit", "schedule",
                 "enqueue", "respond", "finish", "fail", "settle"}
Errors == {"none", "model", "other"}
Idle == [pc |-> "idle", node |-> NoNode, base |-> Stale, targets |-> {}, error |-> "none"]
AtRest == [pc |-> "idle", targets |-> {}]

Init ==
    /\ run = [status |-> "absent", repairs |-> 0, repair |-> "idle"]
    /\ node = [k \in Stages |->
                  [generation |-> 1,
                   status |-> IF k = Design THEN "queued" ELSE "pending"]]
    /\ candidate = [by |-> NoNode, edits |-> 0]
    /\ audit = Stale
    /\ job = [n \in Nodes |-> NoJob]
    /\ worker = [w \in Workers |-> Idle]
    /\ desk = [h \in Handlers |-> AtRest]
    /\ requests = 0
    /\ faults = {}

--------------------------------------------------------------------------------
(***************************************************************************)
(* Scheduling: the nodes queued in a snapshot of the run, then one          *)
(* enqueueTestDesignJob for each of them.                                   *)
(***************************************************************************)
QueuedNodes == {NodeOf(k) : k \in {s \in Stages : node[s].status = "queued"}}

\* The insert of a new row, and the update that only an ended job lets through.
Enqueued(n) ==
    IF job[n].status \in {"absent"} \union JobEnded
    THEN [job EXCEPT ![n] = [NoJob EXCEPT !.status = "queued"]] ELSE job

--------------------------------------------------------------------------------
(***************************************************************************)
(* The HTTP process.                                                        *)
(***************************************************************************)

NewRequest == requests < MaxRequests /\ requests' = requests + 1

\* createRun: the transaction inserts the run, or finds it by its key; a queued
\* run is then scheduled, again if it is only found.
CreateRun(h) ==
    /\ desk[h].pc = "idle"
    /\ \/ run.status = "absent" /\ UNCHANGED requests
       \/ run.status = "queued" /\ NewRequest
    /\ run' = [run EXCEPT !.status = "queued"]
    /\ desk' = [desk EXCEPT ![h].pc = "schedule"]
    /\ UNCHANGED <<node, candidate, audit, job, worker, faults>>

Schedule(h) ==
    /\ desk[h].pc = "schedule"
    /\ desk' = [desk EXCEPT ![h] = IF QueuedNodes = {} THEN AtRest
                                   ELSE [pc |-> "enqueue", targets |-> QueuedNodes]]
    /\ UNCHANGED <<run, node, candidate, audit, job, worker, requests, faults>>

Enqueue(h) ==
    /\ desk[h].pc = "enqueue"
    /\ \E n \in desk[h].targets :
          /\ job' = Enqueued(n)
          /\ desk' = [desk EXCEPT ![h] =
                IF @.targets = {n} THEN AtRest
                ELSE [pc |-> "enqueue", targets |-> @.targets \ {n}]]
    /\ UNCHANGED <<run, node, candidate, audit, worker, requests, faults>>

\* cancelRun first tells the jobs: a queued one is cancelled, a running one flagged ...
CancelTestDesignJob(h) ==
    /\ desk[h].pc = "idle" /\ NewRequest /\ run.status # "absent"
    /\ desk' = [desk EXCEPT ![h].pc = "cancel"]
    /\ job' = [n \in Nodes |->
                  CASE job[n].status = "queued" -> Ended("over")
                    [] job[n].status = "running" -> [job[n] EXCEPT !.cancelAsked = TRUE]
                    [] OTHER -> job[n]]
    /\ UNCHANGED <<run, node, candidate, audit, worker, faults>>

\* ... and then marks the run, unless it succeeded, and the nodes that are not over.
CancelledNodes ==
    [k \in Stages |-> IF node[k].status \in {"pending", "queued", "running"}
                      THEN [node[k] EXCEPT !.status = "cancelled"] ELSE node[k]]

CancelRun(h) ==
    /\ desk[h].pc = "cancel"
    /\ desk' = [desk EXCEPT ![h].pc = "idle"]
    /\ IF run.status = "succeeded" THEN UNCHANGED <<run, node>>
       ELSE run' = [run EXCEPT !.status = "cancelled"] /\ node' = CancelledNodes
    /\ UNCHANGED <<candidate, audit, job, worker, requests, faults>>

\* resynthesize: whatever the run is doing, both stages get a new generation and
\* the candidate is emptied.
Regenerated ==
    [k \in Stages |-> [generation |-> node[k].generation + 1,
                       status |-> IF k = Design THEN "queued" ELSE "pending"]]

Resynthesize(h) ==
    /\ desk[h].pc = "idle" /\ NewRequest /\ run.status # "absent"
    /\ \A k \in Stages : node[k].generation < MaxGenerations
    /\ run' = [status |-> "queued", repairs |-> 0, repair |-> "idle"]
    /\ node' = Regenerated
    /\ candidate' = [by |-> NoNode, edits |-> 0] /\ audit' = Stale
    /\ desk' = [desk EXCEPT ![h].pc = "schedule"]
    /\ UNCHANGED <<job, worker, faults>>

Edited == [candidate EXCEPT !.edits = @ + 1]

EditCaseKeepingTheAudit ==
    /\ run.status # "absent" /\ candidate.edits < MaxEdits
    /\ candidate' = Edited
    /\ UNCHANGED <<run, node, audit, job, worker, desk, requests, faults>>

\* createCase, patchCase and deleteCase, in any status of the run: all of them
\* end with invalidateAudit.
EditCase ==
    /\ run.status # "absent" /\ candidate.edits < MaxEdits
    /\ candidate' = Edited /\ audit' = Stale
    /\ UNCHANGED <<run, node, job, worker, desk, requests, faults>>

\* reAudit: a new audit of the cases as they are, the older ones become stale.
ReAudit ==
    /\ run.status # "absent" /\ audit' = candidate
    /\ UNCHANGED <<run, node, candidate, job, worker, desk, requests, faults>>

--------------------------------------------------------------------------------
(***************************************************************************)
(* claimTestDesignJob: one transaction recovers the expired jobs, one after *)
(* the other, and then takes a queued one.                                  *)
(***************************************************************************)
Current(n) == n.generation = node[n.stage].generation

\* The tables a recovery reads and writes.
Tables == [run |-> run, node |-> node, job |-> job]

\* An expired lease, or an exhausted job that left its run or node unfinished.
Expired(n) ==
    \/ job[n].status = "running" /\ ~job[n].live
    \/ /\ job[n].status = "exhausted" /\ Current(n)
       /\ run.status \in {"queued", "running"}
       /\ node[n.stage].status \in {"queued", "running"}

\* recoverTestDesignNode, applied to the tables t for the job of node n: the job of what is
\* over ends, another is cancelled, given up or queued again.
IsOver(t, n) ==
    \/ n.generation # t.node[n.stage].generation
    \/ t.run.status \in {"cancelled", "succeeded"}
    \/ t.node[n.stage].status \in {"cancelled", "succeeded"}

IsSpent(t, n) == t.job[n].attempts >= MaxAttempts \/ t.job[n].status = "exhausted"

Outcome(t, n) ==
    IF IsOver(t, n) THEN "over"
    ELSE IF t.job[n].cancelAsked THEN "cancel"
    ELSE IF IsSpent(t, n) THEN "fail" ELSE "queue"

WithJob(t, n, row) == [t EXCEPT !.job[n] = row]
Unclaimed(row) == [row EXCEPT !.status = "queued", !.holder = Nobody, !.live = FALSE]

\* The node, the run and an unfinished automatic repair end together.
WithEnd(t, n, status, repair) ==
    [t EXCEPT !.node[n.stage].status = status, !.run.status = status,
              !.run.repair = IF @ \in {"queued", "running"} THEN repair ELSE @]

WithRetry(t, n) ==
    [t EXCEPT !.node[n.stage].status = "queued", !.run.status = "queued",
              !.run.repair = IF n.stage = Repair THEN "queued" ELSE @]

RecoverTheJobOnly(t, n) ==
    WithJob(t, n, IF Outcome(t, n) = "queue" THEN Unclaimed(t.job[n]) ELSE Ended("over"))

Recover(t, n) ==
    LET outcome == Outcome(t, n) IN
    CASE outcome = "cancel" -> WithEnd(WithJob(t, n, Ended("over")), n, "cancelled", "deferred")
      [] outcome = "fail" -> WithEnd(WithJob(t, n, Ended("exhausted")), n, "failed", "exhausted")
      [] outcome = "queue" -> WithRetry(WithJob(t, n, Unclaimed(t.job[n])), n)
      [] OTHER -> WithJob(t, n, Ended("over"))

\* The tables after the recovery of the expired jobs in some order.  Those of the present
\* nodes affect each other; a job of an older generation is recovered for itself.
Recovered ==
    LET After(t, k) == IF Expired(NodeOf(k)) THEN Recover(t, NodeOf(k)) ELSE t
    IN  {[t EXCEPT !.job = [n \in Nodes |-> IF Expired(n) /\ ~Current(n)
                                           THEN Recover(t, n).job[n] ELSE t.job[n]]] :
         t \in {After(After(Tables, Design), Repair), After(After(Tables, Repair), Design)}}

Claimable(t, n) == t.job[n].status = "queued" /\ t.job[n].attempts < MaxAttempts

\* Idle slots are interchangeable: it is enough that one of them claims.
NextSlot == CHOOSE w \in Workers : worker[w].pc = "idle"

ClaimTestDesignJob(w) ==
    /\ worker[w].pc = "idle" /\ w = NextSlot
    /\ \E t \in Recovered : \E n \in Nodes :
          /\ Claimable(t, n)
          /\ run' = t.run /\ node' = t.node
          /\ job' = [t.job EXCEPT ![n] = [status |-> "running", holder |-> w, live |-> TRUE,
                                          attempts |-> @.attempts + 1,
                                          cancelAsked |-> @.cancelAsked]]
          /\ worker' = [worker EXCEPT ![w] = [Idle EXCEPT !.pc = "begin", !.node = n]]
    /\ UNCHANGED <<candidate, audit, desk, requests, faults>>

\* A claim that finds no job has still committed the recovery.
ClaimNothing(w) ==
    /\ worker[w].pc = "idle"
    /\ \E n \in Nodes : Expired(n)
    /\ \E t \in Recovered :
          /\ \A n \in Nodes : ~Claimable(t, n)
          /\ run' = t.run /\ node' = t.node /\ job' = t.job
    /\ UNCHANGED <<candidate, audit, worker, desk, requests, faults>>

--------------------------------------------------------------------------------
(***************************************************************************)
(* processPreparedNode.  transactionWithTestDesignLease commits only while  *)
(* the worker holds the job, its lease is alive, no cancellation was asked  *)
(* and the node is still one of the run's.                                  *)
(***************************************************************************)
Owns(w) ==
    LET j == job[worker[w].node] IN j.status = "running" /\ j.holder = w /\ j.live

FencedByLeaseOnly(w) == Owns(w) /\ ~job[worker[w].node].cancelAsked

Fenced(w) == Owns(w) /\ ~job[worker[w].node].cancelAsked /\ Current(worker[w].node)

Stage(w) == worker[w].node.stage
At(w, pc) == worker[w].pc = pc
Goto(w, pc) == worker' = [worker EXCEPT ![w].pc = pc]
Leave(w, pc) == worker' = [worker EXCEPT ![w].pc = pc, ![w].base = Stale]
Fail(w, pc, error) ==
    worker' = [worker EXCEPT ![w] = [Idle EXCEPT !.pc = pc, !.node = worker[w].node,
                                                 !.error = error]]
\* An error reaches the catch, which leaves WORKFLOW_JOB_LEASE_LOST to the caller.
Throw(w, error) == Fail(w, "fail", error)
ThrowLeaseLost(w) == Fail(w, "settle", "other")
Rest(w) == worker' = [worker EXCEPT ![w] = Idle]
KeepTables == UNCHANGED <<run, node, candidate, audit, job>>

\* The first read: nothing to do, a node that is gone, or work to start.
Begin(w) ==
    LET n == worker[w].node IN
    /\ At(w, "begin")
    /\ CASE ~Current(n) -> Fail(w, "settle", "other")
         [] Current(n) /\ (run.status = "cancelled"
                           \/ node[n.stage].status \in {"succeeded", "cancelled"}) ->
               Goto(w, "finish")
         [] OTHER -> Goto(w, "start")
    /\ KeepTables /\ UNCHANGED <<desk, requests, faults>>

AlwaysStartable(k) == TRUE
Startable(k) == node[k].status \in {"queued", "failed", "running"}

StartNode(w) ==
    LET k == Stage(w) IN
    /\ At(w, "start")
    /\ \/ /\ Fenced(w) /\ Startable(k)
          /\ node' = [node EXCEPT ![k].status = "running"]
          /\ run' = [run EXCEPT !.status = "running",
                        !.repair = IF k = Repair /\ @ = "queued" THEN "running" ELSE @]
          /\ Goto(w, "read")
       \/ /\ ~(Fenced(w) /\ Startable(k))
          /\ IF Fenced(w) THEN Throw(w, "other") ELSE ThrowLeaseLost(w)
          /\ UNCHANGED <<run, node>>
    /\ UNCHANGED <<candidate, audit, job, desk, requests, faults>>

\* The input of the stage: repairInput throws when there is no audit to repair.
ReadInput(w) ==
    /\ At(w, "read")
    /\ IF Stage(w) = Repair /\ run.repair = "idle" THEN Throw(w, "other")
       ELSE worker' = [worker EXCEPT ![w].pc = "execute",
                                     ![w].base = IF Stage(w) = Repair THEN candidate ELSE @]
    /\ KeepTables /\ UNCHANGED <<desk, requests, faults>>

\* The agent runs; a checkpoint of its progress may notice that the lease is lost.
Execute(w) ==
    /\ At(w, "execute")
    /\ \/ Goto(w, "commit")
       \/ \E error \in {"model", "other"} : Throw(w, error)
       \/ ~Fenced(w) /\ ThrowLeaseLost(w)
    /\ KeepTables /\ UNCHANGED <<desk, requests, faults>>

CommittableWithoutTheBase(w) == Fenced(w) /\ node[Stage(w)].status = "running"

\* finalizeCaseDesignAndAudit and finishNode.  A design replaces the cases; a
\* repair patches them, and only if they are the ones it was asked to repair.
Committable(w) ==
    /\ Fenced(w) /\ node[Stage(w)].status = "running"
    /\ Stage(w) = Repair => candidate = worker[w].base

Written(w) ==
    [by |-> worker[w].node,
     edits |-> IF Stage(w) = Repair THEN worker[w].base.edits ELSE 0]

\* The repair node is queued as it is, or as a new generation if it was used.
RepairQueued ==
    [node EXCEPT ![Design].status = "succeeded",
                 ![Repair] = IF @.status = "pending" THEN [@ EXCEPT !.status = "queued"]
                             ELSE [generation |-> @.generation + 1, status |-> "queued"]]

SettledRepairs == IF run.repairs > 0 THEN {"succeeded", "exhausted", "deferred"}
                  ELSE {"not_needed", "deferred"}

Commit(w) ==
    /\ At(w, "commit") /\ Committable(w)
    /\ candidate' = Written(w) /\ audit' = Written(w)
    /\ \/ /\ Stage(w) = Design /\ run.repairs < MaxRepairs
          /\ RepairQueued[Repair].generation <= MaxGenerations
          /\ node' = RepairQueued
          /\ run' = [status |-> "queued", repairs |-> run.repairs + 1, repair |-> "queued"]
          /\ Leave(w, "schedule")
       \/ /\ node' = [node EXCEPT ![Stage(w)].status = "succeeded"]
          /\ \E repair \in SettledRepairs :
                run' = [run EXCEPT !.status = "succeeded", !.repair = repair]
          /\ Leave(w, "respond")
    /\ UNCHANGED <<job, desk, requests, faults>>

\* The candidate is invalid, or the transaction is refused.
RejectCandidate(w) ==
    /\ At(w, "commit")
    /\ IF Fenced(w) /\ node[Stage(w)].status = "running" THEN Throw(w, "other")
       ELSE ThrowLeaseLost(w)
    /\ KeepTables /\ UNCHANGED <<desk, requests, faults>>

ScheduleRepair(w) ==
    /\ At(w, "schedule")
    /\ worker' = [worker EXCEPT ![w].pc = IF QueuedNodes = {} THEN "respond" ELSE "enqueue",
                                ![w].targets = QueuedNodes]
    /\ KeepTables /\ UNCHANGED <<desk, requests, faults>>

EnqueueRepair(w) ==
    /\ At(w, "enqueue")
    /\ \E n \in worker[w].targets :
          /\ job' = Enqueued(n)
          /\ worker' = [worker EXCEPT
                ![w].targets = @ \ {n},
                ![w].pc = IF worker[w].targets = {n} THEN "respond" ELSE "enqueue"]
    /\ UNCHANGED <<run, node, candidate, audit, desk, requests, faults>>

Respond(w) ==
    /\ At(w, "respond") /\ Goto(w, "finish")
    /\ KeepTables /\ UNCHANGED <<desk, requests, faults>>

\* The catch: unless the lease is lost, the running node (or else the claimed
\* one, even if it has succeeded) and the run fail in one fenced transaction.
FailedNode(w) ==
    IF \E k \in Stages : node[k].status = "running"
    THEN CHOOSE k \in Stages : node[k].status = "running" /\
            (node[Design].status = "running" => k = Design)
    ELSE Stage(w)

FailNode(w) ==
    /\ At(w, "fail")
    /\ Goto(w, "settle")
    /\ IF Fenced(w) /\ run.status # "cancelled"
       THEN /\ node' = [node EXCEPT ![FailedNode(w)].status = "failed"]
            /\ run' = [run EXCEPT !.status = "failed"]
       ELSE UNCHANGED <<run, node>>
    /\ UNCHANGED <<candidate, audit, job, desk, requests, faults>>

\* releaseTestDesignJob and finishTestDesignJob, as the row they leave.
ReleasedJob(w) ==
    LET n == worker[w].node IN
    IF Owns(w) /\ ~job[n].cancelAsked /\ job[n].attempts < MaxAttempts
    THEN [job EXCEPT ![n] = Unclaimed(@)] ELSE job
FinishedJob(w) ==
    IF Owns(w) THEN [job EXCEPT ![worker[w].node] = Ended("over")] ELSE job

\* processTestDesignOne: only an error of the model is worth another attempt.
SettleFailure(w) ==
    LET n == worker[w].node IN
    /\ At(w, "settle")
    /\ job' = IF worker[w].error = "model" /\ job[n].attempts < MaxAttempts
              THEN ReleasedJob(w) ELSE FinishedJob(w)
    /\ Rest(w)
    /\ UNCHANGED <<run, node, candidate, audit, desk, requests, faults>>

Finish(w) ==
    /\ At(w, "finish")
    /\ job' = FinishedJob(w) /\ Rest(w)
    /\ UNCHANGED <<run, node, candidate, audit, desk, requests, faults>>

\* throwIfWorkerStopped and settleStoppedWork: wherever the signal is checked it
\* may turn out aborted by the heartbeat, which found the lease lost or the job
\* cancelled.  (An abort has no effect before the next check, so it happens there.)
Checked == {"begin", "execute", "commit", "fail", "settle", "finish"}

SettleStoppedWork(w) ==
    /\ worker[w].pc \in Checked
    /\ ~Owns(w) \/ job[worker[w].node].cancelAsked
    /\ job' = IF Owns(w) THEN FinishedJob(w) ELSE job
    /\ Rest(w)
    /\ UNCHANGED <<run, node, candidate, audit, desk, requests, faults>>

--------------------------------------------------------------------------------
(***************************************************************************)
(* The clock and the faults.                                                *)
(***************************************************************************)

\* A lease that no worker renews any more runs out ...
Abandoned(n) == \A w \in Workers : worker[w].node = n => ~Owns(w)

LeaseExpires(n) ==
    /\ job[n].status = "running" /\ job[n].live /\ Abandoned(n)
    /\ job' = [job EXCEPT ![n].live = FALSE]
    /\ UNCHANGED <<run, node, candidate, audit, worker, desk, requests, faults>>

Fault(kind) ==
    /\ kind \in Faults \ faults /\ Cardinality(faults) < MaxFaults
    /\ faults' = faults \union {kind}

\* ... and one may run out under a worker that is paused and goes on later.
PauseWorker(n) ==
    /\ Fault("worker_interrupted")
    /\ job[n].status = "running" /\ job[n].live /\ ~Abandoned(n)
    /\ job' = [job EXCEPT ![n].live = FALSE]
    /\ UNCHANGED <<run, node, candidate, audit, worker, desk, requests>>

StopWorkerAsFailed(w) ==
    /\ Fault("worker_interrupted")
    /\ worker[w].pc \in Checked
    /\ job' = FinishedJob(w) /\ Rest(w)
    /\ UNCHANGED <<run, node, candidate, audit, desk, requests>>

\* A shutdown, or a heartbeat that cannot reach the database: the job goes back.
StopWorker(w) ==
    /\ Fault("worker_interrupted")
    /\ worker[w].pc \in Checked
    /\ job' = ReleasedJob(w) /\ Rest(w)
    /\ UNCHANGED <<run, node, candidate, audit, desk, requests>>

CrashWorker(w) ==
    /\ Fault("worker_crash")
    /\ worker[w].pc # "idle" /\ Rest(w)
    /\ KeepTables /\ UNCHANGED <<desk, requests>>

CrashApi ==
    /\ Fault("api_crash")
    /\ \E h \in Handlers : desk[h].pc # "idle"
    /\ desk' = [h \in Handlers |-> AtRest]
    /\ KeepTables /\ UNCHANGED <<worker, requests>>

\* A read of the run throws: outside the try at the beginning, inside it later.
FailToRead(w) ==
    /\ Fault("query_failure")
    /\ \/ At(w, "begin")
          /\ Fail(w, "settle", "other")
       \/ worker[w].pc \in {"read", "schedule", "respond"} /\ Throw(w, "other")
    /\ KeepTables /\ UNCHANGED <<desk, requests>>

\* enqueueTestDesignJob throws after the repair was committed.
FailToEnqueue(w) ==
    /\ Fault("query_failure")
    /\ At(w, "enqueue") /\ Throw(w, "other")
    /\ KeepTables /\ UNCHANGED <<desk, requests>>

\* The transaction of the catch throws; .catch(() => undefined) hides it.
LoseFailure(w) ==
    /\ Fault("query_failure")
    /\ At(w, "fail") /\ Goto(w, "settle")
    /\ KeepTables /\ UNCHANGED <<desk, requests>>

--------------------------------------------------------------------------------
WorkerStep(w) ==
    \/ Begin(w) \/ StartNode(w) \/ ReadInput(w) \/ Execute(w)
    \/ Commit(w) \/ RejectCandidate(w) \/ ScheduleRepair(w) \/ EnqueueRepair(w)
    \/ Respond(w) \/ FailNode(w) \/ SettleFailure(w) \/ Finish(w)

HandlerStep(h) == Schedule(h) \/ Enqueue(h) \/ CancelRun(h)

Next ==
    \/ \E h \in Handlers :
          CreateRun(h) \/ CancelTestDesignJob(h) \/ Resynthesize(h) \/ HandlerStep(h)
    \/ EditCase \/ ReAudit
    \/ \E w \in Workers :
          \/ ClaimTestDesignJob(w) \/ ClaimNothing(w) \/ WorkerStep(w)
          \/ SettleStoppedWork(w) \/ StopWorker(w)
          \/ CrashWorker(w) \/ FailToRead(w) \/ FailToEnqueue(w) \/ LoseFailure(w)
    \/ \E n \in Nodes : LeaseExpires(n) \/ PauseWorker(n)
    \/ CrashApi

Spec == Init /\ [][Next]_vars

\* Workers poll the queue and go on with what they claimed or are stopped, leases
\* run out, and the HTTP process finishes its requests.  A run takes finitely many
\* of these steps, so it is enough that they never stop altogether.
Fairness ==
    WF_vars(\/ \E w \in Workers :
                  WorkerStep(w) \/ ClaimTestDesignJob(w) \/ ClaimNothing(w)
            \/ \E h \in Handlers : HandlerStep(h)
            \/ \E n \in Nodes : LeaseExpires(n))

FairSpec == Spec /\ Fairness

--------------------------------------------------------------------------------
(***************************************************************************)
(* Properties.                                                              *)
(***************************************************************************)

\* Every variable stays in its range; in particular no node ends up in a status
\* of the run or of the job.
TypeOK ==
    /\ run \in [status : RunStatuses, repairs : 0 .. MaxRepairs, repair : RepairStatuses]
    /\ node \in [Stages -> [generation : Generations, status : NodeStatuses]]
    /\ candidate \in Candidates
    /\ audit \in Candidates \union {Stale}
    /\ job \in [Nodes -> JobRows]
    /\ worker \in [Workers -> [pc : WorkerStages, node : Nodes \union {NoNode},
                               base : Candidates \union {Stale}, targets : SUBSET Nodes,
                               error : Errors]]
    /\ desk \in [Handlers -> [pc : {"idle", "schedule", "enqueue", "cancel"},
                              targets : SUBSET Nodes]]
    /\ requests \in 0 .. MaxRequests
    /\ faults \subseteq Faults

\* The repair was committed by a worker that crashed before it scheduled it.
RepairNeverScheduled ==
    /\ "worker_crash" \in faults
    /\ node[Repair].status = "queued" /\ job[NodeOf(Repair)].status = "absent"

Scheduling ==
    \/ \E h \in Handlers : desk[h].pc \in {"schedule", "enqueue"}
    \/ \E w \in Workers : worker[w].pc \in {"schedule", "enqueue"}

\* A run that is queued or running has somebody who brings it on: a scheduler
\* that has not finished, a job of one of its nodes that is queued or leased, or
\* a cancellation.  The one exception a crash can make is a committed repair
\* that was never scheduled.  (It needs an HTTP process that does not crash in
\* between and queries that do not throw.)
RunHasAKeeper ==
    run.status \in {"queued", "running"} =>
        \/ faults \intersect {"api_crash", "query_failure"} # {}
        \/ RepairNeverScheduled \/ Scheduling
        \/ \E k \in Stages : job[NodeOf(k)].status \in {"queued", "running"}
        \/ \E h \in Handlers : desk[h].pc = "cancel"

\* The valid coverage audit is about the cases the run has now, whoever changed
\* them last: an edit, a design, a repair, or a resynthesis.
AuditIsOfTheCases == audit # Stale => audit = candidate

\* What the tables hold belongs together: their types, the cases and the audit.
CasesAndAuditAgree == TypeOK /\ AuditIsOfTheCases

\* No query failed; in particular none between a commit and the answer of the worker that made it.
\* (Such a failure makes the catch fail the stage that has succeeded, so that it
\* may be executed again beside the repair it has queued.)
Undisturbed == "query_failure" \notin faults

\* A run that succeeded has nothing left that could still change it: neither
\* stage is queued or running, and its automatic repair is settled.
SuccessIsFinal ==
    run.status = "succeeded" /\ Undisturbed =>
        /\ \A k \in Stages : node[k].status \notin {"queued", "running"}
        /\ run.repair \notin {"idle", "queued", "running"}

\* Two workers are never both entitled to write the results of the run: the
\* stages run one after the other, whatever expires, crashes or is restarted.
OneStageAtATime ==
    Undisturbed => \A v, w \in Workers :
        v # w /\ worker[v].pc = "commit" /\ worker[w].pc = "commit" =>
            ~Committable(v) \/ ~Committable(w)

\* A run says of its stages what is true: an open one is kept going by exactly one of
\* them, and one that has succeeded by none.
RunMatchesItsStages == RunHasAKeeper /\ SuccessIsFinal /\ OneStageAtATime

\* A run cancelled with its stages stays cancelled until it is restarted with new
\* generations: no worker that claimed, started or executed a node in between
\* revives it.  (A stage that had failed is not cancelled with the run: a retry of
\* it that passed the first check before the cancellation does revive the run.  And
\* a repair queued beside a design that has failed after its commit survives when the
\* design's job is recovered as cancelled.)
CancelledStaysCancelled ==
    [][run.status = "cancelled" /\ Undisturbed
       /\ (\A k \in Stages : node[k].status \notin {"failed", "running"}) =>
          run'.status = "cancelled" \/ node'[Design].generation > node[Design].generation]_vars

\* The human edits made to a candidate are there until a new design replaces it:
\* a repair that was computed from older cases never overwrites one.
RepairKeepsTheEdits ==
    [][candidate'.by.stage = Repair => candidate'.edits >= candidate.edits]_vars

\* A worker of a generation that was replaced writes neither the run nor its
\* nodes nor its cases, however late it wakes up.
OldGenerationsWriteNothing ==
    [][\A w \in Workers :
          worker'[w] # worker[w] /\ worker[w].pc # "idle" /\ ~Current(worker[w].node) =>
              UNCHANGED <<run, node, candidate, audit>>]_vars

\* Unless it is cancelled a run that was created ends: every stage is taken up
\* again until its attempts are used up.
RunEnds ==
    run.status \in {"queued", "running"} ~>
        \/ run.status \in {"succeeded", "failed", "cancelled"}
        \/ RepairNeverScheduled
        \/ faults \intersect {"api_crash", "query_failure"} # {}

================================================================================
