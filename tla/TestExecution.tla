--------------------------- MODULE TestExecution ---------------------------
(***************************************************************************)
(* One test run: its row, the rows of its tasks, attempts and jobs in      *)
(* Postgres, and the worker slots that claim the jobs, execute the stages  *)
(* of a task and write back under a lease.                                 *)
(*                                                                         *)
(* An action is one database transaction (each takes the job's row lock    *)
(* first) or one step of a slot between two of them.  A slot is one call   *)
(* of processTestExecutionOne: it serves one claim at a time, so the pair  *)
(* of slot and task stands for lease_owner, run_token and fencing_token.   *)
(* available_at (the retry delay) is left out: a queued job may be claimed *)
(* at any time.                                                            *)
(***************************************************************************)
EXTENDS ExecutionLifecycle, Integers, Sequences

CONSTANTS
  Slots,         \* concurrent calls of processTestExecutionOne, of any worker
  None,          \* no task, no owner
  MaxClaims,     \* job.max_attempts
  MaxRepairs,    \* automaticRepairAllowed's limit
  MaxJobs,       \* bound: jobs a task ever has, the first and its manual retries
  HasWorkspace   \* an executionWorkspace is configured

ASSUME ExecutionAssumption ==
  /\ MaxClaims \in Nat \ {0}
  /\ MaxRepairs \in Nat
  /\ MaxJobs \in Nat \ {0}
  /\ HasWorkspace \in BOOLEAN
  /\ None \notin Tasks \cup Slots

VARIABLES
  run,    \* [status, cancel]: the run and its cancel_requested_at
  task,   \* [Tasks -> record]: status, current revision, its attempts
  job,    \* [Tasks -> record]: the latest job of each task
  slot,   \* [Slots -> record]: where a slot stands in its claim
  lost    \* history: claims of the latest job that ended abnormally

vars == <<run, task, job, slot, lost>>

-----------------------------------------------------------------------------
(***************************************************************************)
(* Attempts.  Only those of the current script revision are kept in        *)
(* sequence; of the earlier ones it matters only whether there were any.   *)
(***************************************************************************)
Sources == {"none", "agent", "repair", "regeneration"}
Kinds == {"initial", "same_script_retry", "infrastructure_retry", "post_repair",
          "post_regeneration", "manual_retry"}
Outcomes == {"passed", "failed", "cancelled", "infrastructure_error"}
Attempts == [kind : Kinds, status : Outcomes \cup {"running"}]

TaskRecords ==
  [status : TaskStatuses, source : Sources, attempts : Seq(Attempts),
   earlier : BOOLEAN, repairs : 0..MaxRepairs]

LastOf(s) == s[Len(s)]
LastStatus(r) == IF r.attempts = <<>> THEN "none" ELSE LastOf(r.attempts).status
Executing(r) == LastStatus(r) = "running"
Failures(r) == {i \in DOMAIN r.attempts : r.attempts[i].status = "failed"}
FailedOnce(r) == Failures(r) # {}
FailedTwice(r) == \E i, j \in Failures(r) : i # j

\* Mutant: a reconciled attempt is left running.
KeepAttempt(r, outcome) == r

\* finalizeAttempt, and its like in reconciliation: the running attempt ends.
CloseAttempt(r, outcome) ==
  IF Executing(r) THEN [r EXCEPT !.attempts[Len(r.attempts)].status = outcome] ELSE r

\* Mutant: the kinds known before regenerated revisions had one of their own.
LegacyAttemptKind(r) ==
  IF r.status = "retrying" THEN "same_script_retry"
  ELSE IF r.attempts = <<>> /\ r.source = "repair" THEN "post_repair"
  ELSE IF r.attempts = <<>> /\ ~r.earlier THEN "initial"
  ELSE IF LastStatus(r) = "infrastructure_error" THEN "infrastructure_retry"
  ELSE "manual_retry"

\* attemptKind: why this attempt is made.
AttemptKind(r) ==
  IF r.status = "retrying" THEN "same_script_retry"
  ELSE IF r.attempts = <<>> /\ r.source = "repair" THEN "post_repair"
  ELSE IF r.attempts = <<>> /\ r.source = "regeneration" THEN "post_regeneration"
  ELSE IF r.attempts = <<>> /\ ~r.earlier THEN "initial"
  ELSE IF LastStatus(r) = "infrastructure_error" THEN "infrastructure_retry"
  ELSE "manual_retry"

\* persistScriptRevision: a new current revision, not executed yet.
NewRevision(r, source) ==
  [r EXCEPT !.status = "ready", !.source = source, !.attempts = <<>>,
            !.earlier = r.earlier \/ r.attempts # <<>>]

\* What generation and a reused binding call the revision they produce.
GeneratedSource(r) == IF r.source = "none" THEN "agent" ELSE "regeneration"

\* automaticRepairAllowed, of a repairable category.
MayRepair(r) == r.repairs < MaxRepairs

-----------------------------------------------------------------------------
(***************************************************************************)
(* Jobs and leases.                                                        *)
(***************************************************************************)
JobStatuses == {"queued", "running", "succeeded", "failed", "cancelled"}
Lanes == {"preparation", "runner", "agent"}

\* The statuses a lane claims (EXECUTION_RESOURCE_TASK_STATUSES; the runner lane
\* leaves pending tasks to the preparation lane).
LaneStatuses ==
  [l \in Lanes |->
    CASE l = "preparation" -> {"pending"}
      [] l = "runner" -> {"ready", "retrying", "running"}
      [] l = "agent" -> {"script_generating", "diagnosing", "repairing"}]

\* "none" is the job of an unsupported task, which has none.
JobRecords ==
  [status : JobStatuses \cup {"none"}, claims : 0..MaxClaims, owner : Slots \cup {None},
   expired : BOOLEAN, cancel : BOOLEAN, number : 0..MaxJobs]

QueuedJob(number) ==
  [status |-> "queued", claims |-> 0, owner |-> None, expired |-> FALSE,
   cancel |-> FALSE, number |-> number]
NoJob == [QueuedJob(0) EXCEPT !.status = "none"]

\* status=..., lease_owner=NULL, run_token=NULL, lease_expires_at=NULL.
Leave(j, status) == [j EXCEPT !.status = status, !.owner = None, !.expired = FALSE]

Active(j) == j.status \in {"queued", "running"}

\* The final status of a job, given that of its task.
JobOutcome(status) ==
  CASE status = "passed" -> "succeeded"
    [] status = "cancelled" -> "cancelled"
    [] OTHER -> "failed"

(***************************************************************************)
(* Slots.  seen is the status a slot read at the head of its loop, current *)
(* says that the task was not written since, so that state_version still   *)
(* matches; stop is the WorkerStopReason its controller was aborted with,  *)
(* "interrupted" standing for heartbeat_unavailable and worker_shutdown.   *)
(***************************************************************************)
Places == {"idle", "loop", "stage", "running", "finishing", "failing"}
Stops == {"none", "user_cancelled", "lease_lost", "interrupted"}
SlotRecords ==
  [pc : Places, task : Tasks \cup {None}, lane : Lanes \cup {"none"},
   seen : TaskStatuses \cup {"unread"}, current : BOOLEAN, stop : Stops]

IdleSlot == [pc |-> "idle", task |-> None, lane |-> "none", seen |-> "unread",
             current |-> FALSE, stop |-> "none"]

\* Slot w moves on, forgetting what it read.
Goto(w, pc) == [slot[w] EXCEPT !.pc = pc, !.seen = "unread", !.current = FALSE]

\* The slots s after a write of the tasks in W: their snapshots are outdated.
Outdated(s, W) ==
  [v \in Slots |-> IF s[v].task \in W THEN [s[v] EXCEPT !.current = FALSE] ELSE s[v]]

Owns(w) ==
  LET t == slot[w].task IN
  t # None /\ job[t].status = "running" /\ job[t].owner = w /\ ~job[t].expired

\* Mutant: the fencing columns are not compared.
UnfencedLease(w) ==
  LET t == slot[w].task IN t # None /\ job[t].status = "running" /\ ~job[t].cancel

\* lockOwnedJob without allowCancellation.
HoldsLease(w) == Owns(w) /\ ~job[slot[w].task].cancel

-----------------------------------------------------------------------------
Status(ts) == [t \in Tasks |-> ts[t].status]

\* recomputeRun, with the tasks ts.
Recompute(ts) ==
  IF run.status \in {"queued", "running"}
  THEN [run EXCEPT !.status = Aggregate(Status(ts))] ELSE run

\* createAggregate, with at least one task to execute.
Init ==
  \E unsupported \in SUBSET Tasks :
    /\ unsupported # Tasks
    /\ run = [status |-> "queued", cancel |-> FALSE]
    /\ task = [t \in Tasks |->
                 [status |-> IF t \in unsupported THEN "unsupported" ELSE "pending",
                  source |-> "none", attempts |-> <<>>, earlier |-> FALSE, repairs |-> 0]]
    /\ job = [t \in Tasks |-> IF t \in unsupported THEN NoJob ELSE QueuedJob(1)]
    /\ slot = [w \in Slots |-> IdleSlot]
    /\ lost = [t \in Tasks |-> 0]

-----------------------------------------------------------------------------
(***************************************************************************)
(* claimJob.  Its loop first reconciles, each in a transaction of its own, *)
(* the jobs Reconcile describes; the rows of the two are disjoint.         *)
(***************************************************************************)
Claimable(t, lane) ==
  /\ ~job[t].cancel
  /\ job[t].claims < MaxClaims
  /\ task[t].status \in LaneStatuses[lane]
  /\ \/ job[t].status = "queued"
     \/ job[t].status = "running" /\ job[t].expired /\ ~Executing(task[t])

Claim(w, t, lane) ==
  /\ slot[w].pc = "idle"
  /\ Claimable(t, lane)
  /\ job' = [job EXCEPT ![t].status = "running", ![t].claims = @ + 1,
                        ![t].owner = w, ![t].expired = FALSE]
  /\ lost' = IF job[t].status = "running" THEN [lost EXCEPT ![t] = @ + 1] ELSE lost
  /\ slot' = [slot EXCEPT ![w] = [IdleSlot EXCEPT !.pc = "loop", !.task = t, !.lane = lane]]
  /\ UNCHANGED <<run, task>>

\* Mutant: only exhausted and cancelled jobs are picked up again.
ReconcilableExhausted(t) ==
  /\ job[t].status = "running" /\ job[t].expired
  /\ \/ job[t].cancel
     \/ job[t].claims >= MaxClaims
     \/ task[t].status \in Terminal

\* The jobs reconcileExpiredExhaustedJob selects.
Reconcilable(t) ==
  /\ job[t].status = "running" /\ job[t].expired
  /\ \/ job[t].cancel
     \/ job[t].claims >= MaxClaims
     \/ Executing(task[t])
     \/ task[t].status \in Terminal

\* Mutant: exhaustion is looked at before cancellation.
ReconciledExhaustedFirst(t) ==
  IF task[t].status \in Terminal THEN task[t].status
  ELSE IF job[t].claims >= MaxClaims THEN "blocked"
  ELSE IF job[t].cancel THEN "cancelled"
  ELSE "ready"

\* Where reconciliation leaves the task.
ReconciledStatus(t) ==
  IF task[t].status \in Terminal THEN task[t].status
  ELSE IF job[t].cancel THEN "cancelled"
  ELSE IF job[t].claims >= MaxClaims THEN "blocked"
  ELSE "ready"

Reconcile(t) ==
  /\ Reconcilable(t)
  /\ LET status == ReconciledStatus(t)
         closed == CloseAttempt(task[t], IF status = "cancelled" THEN "cancelled"
                                         ELSE "infrastructure_error")
         changed == status # task[t].status
     IN
     /\ task' = [task EXCEPT ![t] = [closed EXCEPT !.status = status]]
     /\ slot' = IF changed THEN Outdated(slot, {t}) ELSE slot
     /\ job' = IF status = "ready" THEN job     \* claimed again, once expired
               ELSE [job EXCEPT ![t] = Leave(@, JobOutcome(status))]
     /\ run' = Recompute(task')
  /\ UNCHANGED lost

\* The lease runs out: no renewal was committed for leaseMs.
Expire(t) ==
  /\ job[t].status = "running"
  /\ ~job[t].expired
  /\ job' = [job EXCEPT ![t].expired = TRUE]
  /\ UNCHANGED <<run, task, slot, lost>>

-----------------------------------------------------------------------------
(***************************************************************************)
(* The heartbeat aborts a slot's controller, at most once, and only while  *)
(* processPreparedTask runs: it is cleared before finishJob, and the catch *)
(* block reads the reason once.  A renewal that succeeds keeps Expire away *)
(* and changes nothing here.                                               *)
(***************************************************************************)
Stop(w, reason) ==
  /\ slot[w].pc \in {"loop", "stage", "running"}
  /\ slot[w].stop = "none"
  /\ slot' = [slot EXCEPT ![w].stop = reason]
  /\ UNCHANGED <<run, task, job, lost>>

\* renewJobLease finds the job cancelled; a heartbeat once the task is terminal,
\* the lease expired or the job handed to somebody else finds the lease lost.
HeartbeatCancelled(w) == Owns(w) /\ job[slot[w].task].cancel /\ Stop(w, "user_cancelled")
HeartbeatLost(w) ==
  /\ slot[w].task # None
  /\ ~HoldsLease(w) \/ task[slot[w].task].status \in Terminal
  /\ ~(Owns(w) /\ job[slot[w].task].cancel)
  /\ Stop(w, "lease_lost")

\* The database cannot be reached, or the worker shuts down.
Interrupt(w) == Stop(w, "interrupted")

\* The process dies; whatever runs in its place claims under a new identity.
Crash(w) ==
  /\ slot[w].pc # "idle"
  /\ slot' = [slot EXCEPT ![w] = IdleSlot]
  /\ UNCHANGED <<run, task, job, lost>>

-----------------------------------------------------------------------------
(***************************************************************************)
(* processPreparedTask: the head of its loop reads the task, and what it   *)
(* read decides the stage.                                                 *)
(***************************************************************************)
Read(w) ==
  /\ slot[w].pc = "loop"
  /\ slot' = [slot EXCEPT ![w] =
       IF @.stop # "none" THEN Goto(w, "failing")
       ELSE [@ EXCEPT !.pc = "stage", !.seen = task[slot[w].task].status, !.current = TRUE]]
  /\ UNCHANGED <<run, task, job, lost>>

At(w, status) == slot[w].pc = "stage" /\ slot[w].seen = status

\* The runner lane would go on with a pending task, though it never claims one.
InLane(w) ==
  \/ slot[w].seen \in LaneStatuses[slot[w].lane]
  \/ slot[w].lane = "runner" /\ slot[w].seen = "pending"

\* yieldJob puts the job back and refunds the claim.
RefundedJob(j) == [Leave(j, "queued") EXCEPT !.claims = @ - 1]

\* The next phase belongs to another lane: the lease goes back first.
Yield(w) ==
  LET t == slot[w].task IN
  /\ slot[w].pc = "stage"
  /\ slot[w].seen \in Open /\ ~InLane(w)
  /\ HoldsLease(w) /\ ~Executing(task[t]) /\ task[t].status \in Open
  /\ job' = [job EXCEPT ![t] = RefundedJob(@)]
  /\ slot' = [slot EXCEPT ![w] = IdleSlot]
  /\ UNCHANGED <<run, task, lost>>

\* requiredLeaseTransaction around transitionTask: the slot is not stopped, it
\* holds the lease, and nobody wrote the task since the slot read it.
MayCommit(w) ==
  /\ slot[w].stop = "none"
  /\ HoldsLease(w)
  /\ slot[w].current

\* The transaction: the task becomes r, the run follows, the slot moves to pc.
Commit(w, r, pc) ==
  LET t == slot[w].task IN
  /\ task' = [task EXCEPT ![t] = r]
  /\ run' = Recompute(task')
  /\ slot' = [Outdated(slot, {t}) EXCEPT ![w] = Goto(w, pc)]
  /\ UNCHANGED <<job, lost>>

\* Whatever a stage does may throw: an Agent, a file, a lost lease, a conflict.
StageFails(w) ==
  /\ slot[w].pc = "stage"
  /\ slot' = [slot EXCEPT ![w] = Goto(w, "failing")]
  /\ UNCHANGED <<run, task, job, lost>>

\* prepareScript: the binding of the workspace is reused, or a script is needed.
Prepare(w) ==
  LET r == task[slot[w].task] IN
  /\ At(w, "pending") /\ InLane(w) /\ MayCommit(w)
  /\ \/ HasWorkspace /\ Commit(w, NewRevision(r, GeneratedSource(r)), "loop")
     \/ Commit(w, [r EXCEPT !.status = "script_generating"], "loop")

\* generateScript.
Generate(w) ==
  LET r == task[slot[w].task] IN
  /\ At(w, "script_generating") /\ InLane(w) /\ MayCommit(w)
  /\ Commit(w, NewRevision(r, GeneratedSource(r)), "loop")

\* executeRunner, its authentication cannot be prepared.
AuthenticationFails(w) ==
  LET r == task[slot[w].task] IN
  /\ At(w, "ready") \/ At(w, "retrying")
  /\ HasWorkspace /\ InLane(w) /\ MayCommit(w)
  /\ Commit(w, [r EXCEPT !.status = IF @ = "retrying" THEN "blocked" ELSE "waiting_manual"],
            "loop")

\* executeRunner up to the call of the runner: the attempt is on record, running,
\* before anything is executed.  The slot goes on with state_version + 1.
StartAttempt(w) ==
  LET t == slot[w].task
      attempt == [kind |-> AttemptKind(task[t]), status |-> "running"]
  IN
  /\ At(w, "ready") \/ At(w, "retrying")
  /\ InLane(w) /\ MayCommit(w)
  /\ task' = [task EXCEPT ![t].attempts = Append(@, attempt), ![t].status = "running"]
  /\ run' = Recompute(task')
  /\ slot' = [Outdated(slot, {t}) EXCEPT
                ![w] = [slot[w] EXCEPT !.pc = "running", !.seen = "running", !.current = TRUE]]
  /\ UNCHANGED <<job, lost>>

\* Mutant: without a workspace, too, a first failure may go to diagnosis.
HastyAfterFailure(r) == IF FailedOnce(r) THEN {"diagnosing"} ELSE {"retrying", "diagnosing"}

\* Where a failed attempt leads, r being the task before the attempt is closed: with
\* a workspace only a failure that looks like a network fault is tried again.
AfterFailure(r) ==
  IF FailedOnce(r) THEN {"diagnosing"}
  ELSE IF HasWorkspace THEN {"retrying", "diagnosing"} ELSE {"retrying"}

\* The runner passed, or failed: "blocked" is the deterministic diagnosis of a failure.
SettleVerdict(w) ==
  LET r == task[slot[w].task] IN
  /\ slot[w].pc = "running" /\ MayCommit(w)
  /\ \/ Commit(w, [CloseAttempt(r, "passed") EXCEPT !.status = "passed"], "loop")
     \/ \E s \in AfterFailure(r) \cup {"blocked"} :
          Commit(w, [CloseAttempt(r, "failed") EXCEPT !.status = s], "loop")

\* The runner could not run: the attempt does not count, the claim does.
SettleInfrastructureError(w) ==
  LET r == task[slot[w].task] IN
  /\ slot[w].pc = "running" /\ MayCommit(w)
  /\ Commit(w, [CloseAttempt(r, "infrastructure_error") EXCEPT !.status = "ready"], "failing")

\* The runner was aborted by the user's cancellation (allowCancellation).
SettleCancelled(w) ==
  LET r == task[slot[w].task] IN
  /\ slot[w].pc = "running" /\ slot[w].stop = "user_cancelled"
  /\ Owns(w) /\ job[slot[w].task].cancel /\ slot[w].current
  /\ Commit(w, [CloseAttempt(r, "cancelled") EXCEPT !.status = "cancelled"], "loop")

\* A result that is not written: the slot was stopped, its lease is gone, or the
\* transaction fails.  The attempt stays on record as running.
DropResult(w) ==
  /\ slot[w].pc = "running"
  /\ slot' = [slot EXCEPT ![w] = Goto(w, "failing")]
  /\ UNCHANGED <<run, task, job, lost>>

\* diagnoseFailure needs the evidence of one failed attempt, of two without workspace.
Diagnose(w) ==
  LET r == task[slot[w].task] IN
  /\ At(w, "diagnosing") /\ InLane(w) /\ MayCommit(w)
  /\ FailedOnce(r) /\ (HasWorkspace \/ FailedTwice(r))
  /\ \E s \in {"failed", "blocked", "waiting_manual"}
               \cup (IF MayRepair(r) THEN {"repairing"} ELSE {}) :
       Commit(w, [r EXCEPT !.status = s], "loop")

\* repairScript: a changed package is the new revision, anything else needs a human.
Repair(w) ==
  LET r == task[slot[w].task] IN
  /\ At(w, "repairing") /\ InLane(w) /\ MayCommit(w)
  /\ \/ /\ MayRepair(r)
        /\ Commit(w, [NewRevision(r, "repair") EXCEPT !.repairs = @ + 1], "loop")
     \/ Commit(w, [r EXCEPT !.status = "waiting_manual"], "loop")

\* The loop ends on a terminal task.  After a PASS the workspace binding is validated
\* in a lease transaction that writes no row.  The worker then looks at its signal once
\* more (a stopped slot is left to StageFails).
Conclude(w) ==
  /\ slot[w].pc = "stage" /\ slot[w].seen \in Terminal
  /\ slot[w].stop = "none"
  /\ slot[w].seen = "passed" => HoldsLease(w)
  /\ slot' = [slot EXCEPT ![w] = Goto(w, "finishing")]
  /\ UNCHANGED <<run, task, job, lost>>

-----------------------------------------------------------------------------
(***************************************************************************)
(* The worker's end of a claim.  Whatever the database refuses is only     *)
(* logged: the lease then runs out and the job is reconciled.              *)
(***************************************************************************)
\* The job of slot w ends with its task in the state r.
CloseJob(w, r) ==
  LET t == slot[w].task IN
  /\ task' = [task EXCEPT ![t] = r]
  /\ job' = [job EXCEPT ![t] = Leave(@, JobOutcome(r.status))]
  /\ run' = Recompute(task')
  /\ slot' = [Outdated(slot, IF r = task[t] THEN {} ELSE {t}) EXCEPT ![w] = IdleSlot]
  /\ UNCHANGED lost

Abandon(w) ==
  /\ slot' = [slot EXCEPT ![w] = IdleSlot]
  /\ UNCHANGED <<run, task, job, lost>>

\* What finishJob asks of the rows, for the outcome the task's status calls for.
FinishAccepted(w) ==
  LET t == slot[w].task IN
  /\ Owns(w) /\ task[t].status \in Terminal
  /\ job[t].cancel <=> task[t].status = "cancelled"

Finish(w) ==
  /\ slot[w].pc = "finishing"
  /\ \/ /\ FinishAccepted(w)
        /\ CloseJob(w, task[slot[w].task])
     \/ /\ ~FinishAccepted(w)
        /\ slot' = [slot EXCEPT ![w].pc = "failing"]
        /\ UNCHANGED <<run, task, job, lost>>

\* After user_cancelled: finishJob(..., 'cancelled').
FailCancelled(w) ==
  /\ slot[w].pc = "failing" /\ slot[w].stop = "user_cancelled"
  /\ IF FinishAccepted(w) /\ job[slot[w].task].cancel
     THEN CloseJob(w, task[slot[w].task]) ELSE Abandon(w)

\* Mutant: an interrupted slot on its last claim releases the job like any other.
ReleaseAlways(w) ==
  /\ slot[w].stop \in {"none", "interrupted"}
  /\ HoldsLease(w) /\ ~Executing(task[slot[w].task])

\* releaseJob is called, and accepted.  An interrupted slot on the last claim leaves the
\* job to reconciliation, because releasing it would block the task.
MayRelease(w) ==
  LET t == slot[w].task IN
  /\ slot[w].stop \in {"none", "interrupted"}
  /\ slot[w].stop = "interrupted" => job[t].claims < MaxClaims
  /\ HoldsLease(w) /\ ~Executing(task[t])

Release(w) ==
  LET t == slot[w].task IN
  /\ slot[w].pc = "failing" /\ MayRelease(w)
  /\ \/ /\ task[t].status \in Terminal
        /\ CloseJob(w, task[t])
     \/ /\ task[t].status \in Open /\ job[t].claims < MaxClaims
        /\ job' = [job EXCEPT ![t] = Leave(@, "queued")]
        /\ lost' = [lost EXCEPT ![t] = @ + 1]
        /\ slot' = [slot EXCEPT ![w] = IdleSlot]
        /\ UNCHANGED <<run, task>>
     \/ /\ task[t].status \in Open /\ job[t].claims >= MaxClaims
        /\ CloseJob(w, [task[t] EXCEPT !.status = "blocked"])

GiveUp(w) ==
  /\ slot[w].pc = "failing" /\ slot[w].stop # "user_cancelled" /\ ~MayRelease(w)
  /\ Abandon(w)

-----------------------------------------------------------------------------
(***************************************************************************)
(* The commands of the user.  A stale expected version is refused without  *)
(* a write, so only the commands that fit the current rows appear.         *)
(***************************************************************************)
\* Mutant: the job of an executing attempt is not told.
CancelledUntold(t) ==
  IF task[t].status \in Terminal THEN Leave(job[t], JobOutcome(task[t].status))
  ELSE IF Executing(task[t]) THEN job[t]
  ELSE Leave([job[t] EXCEPT !.cancel = TRUE], "cancelled")

\* cancelRun's view of an active job, its task still as it was.
CancelledJob(t) ==
  IF task[t].status \in Terminal THEN Leave(job[t], JobOutcome(task[t].status))
  ELSE IF Executing(task[t]) THEN [job[t] EXCEPT !.cancel = TRUE]
  ELSE Leave([job[t] EXCEPT !.cancel = TRUE], "cancelled")

\* A second cancellation of the same run is refused by the run's write trigger.  (A task
\* whose PASS is on record while it still counts as running would be promoted first;
\* AttemptsMatchTask says that there is none.)
CancelRun ==
  LET hit == {t \in Tasks : task[t].status \in Open /\ ~Executing(task[t])} IN
  /\ run.status \in {"queued", "running"} /\ ~run.cancel
  /\ task' = [t \in Tasks |->
                IF t \in hit THEN [task[t] EXCEPT !.status = "cancelled"] ELSE task[t]]
  /\ job' = [t \in Tasks |-> IF Active(job[t]) THEN CancelledJob(t) ELSE job[t]]
  /\ run' = [Recompute(task') EXCEPT !.cancel = TRUE]
  /\ slot' = Outdated(slot, hit)
  /\ UNCHANGED lost

\* Mutant: the task is open again, but nothing is queued for it.
RetryTaskUnqueued(t, status) ==
  /\ run.status \in {"failed", "partial"} /\ ~run.cancel
  /\ task[t].status \in Retryable
  /\ status = "ready" => task[t].source # "none"
  /\ status = "pending" => task[t].source = "none" \/ HasWorkspace
  /\ task' = [task EXCEPT ![t].status = status]
  /\ run' = [run EXCEPT !.status = "running"]
  /\ slot' = Outdated(slot, {t})
  /\ UNCHANGED <<job, lost>>

\* Mutant: the task is open again, but its run still counts as finished.
RetryTaskAlone(t, status) ==
  /\ run.status \in {"failed", "partial"} /\ ~run.cancel
  /\ task[t].status \in Retryable
  /\ ~Active(job[t]) /\ job[t].number < MaxJobs
  /\ status = "ready" => task[t].source # "none"
  /\ status = "pending" => task[t].source = "none" \/ HasWorkspace
  /\ task' = [task EXCEPT ![t].status = status]
  /\ job' = [job EXCEPT ![t] = QueuedJob(@.number + 1)]
  /\ lost' = [lost EXCEPT ![t] = 0]
  /\ slot' = Outdated(slot, {t})
  /\ UNCHANGED run

\* retryTask with manualRetryStatus: a new job for a task that did not pass.  The index
\* of active jobs refuses it while the previous job is not finished, and the run's
\* write trigger once cancellation was requested.
RetryTask(t, status) ==
  /\ run.status \in {"failed", "partial"} /\ ~run.cancel
  /\ task[t].status \in Retryable
  /\ ~Active(job[t]) /\ job[t].number < MaxJobs
  /\ status = "ready" => task[t].source # "none"
  /\ status = "pending" => task[t].source = "none" \/ HasWorkspace
  /\ task' = [task EXCEPT ![t].status = status]
  /\ run' = [run EXCEPT !.status = "running"]
  /\ job' = [job EXCEPT ![t] = QueuedJob(@.number + 1)]
  /\ lost' = [lost EXCEPT ![t] = 0]
  /\ slot' = Outdated(slot, {t})

-----------------------------------------------------------------------------
Stage(w) ==
  \/ Prepare(w) \/ Generate(w) \/ AuthenticationFails(w) \/ StartAttempt(w)
  \/ Diagnose(w) \/ Repair(w) \/ Yield(w) \/ Conclude(w) \/ StageFails(w)

Settle(w) ==
  SettleVerdict(w) \/ SettleInfrastructureError(w) \/ SettleCancelled(w) \/ DropResult(w)

EndClaim(w) == Finish(w) \/ FailCancelled(w) \/ Release(w) \/ GiveUp(w)

SlotStep(w) == Read(w) \/ Stage(w) \/ Settle(w) \/ EndClaim(w)

ClaimAny(t) == \E w \in Slots, lane \in Lanes : Claim(w, t, lane)

Next ==
  \/ \E w \in Slots : SlotStep(w) \/ Crash(w)
  \/ \E w \in Slots : HeartbeatCancelled(w) \/ HeartbeatLost(w) \/ Interrupt(w)
  \/ \E t \in Tasks : ClaimAny(t) \/ Reconcile(t) \/ Expire(t)
  \/ CancelRun
  \/ \E t \in Tasks, status \in {"pending", "ready"} : RetryTask(t, status)

Spec == Init /\ [][Next]_vars

\* The lease of a claim nobody works on any more: its owner crashed, gave it up or
\* serves another task.  No heartbeat renews it, so it runs out.
ExpireAbandoned(t) ==
  /\ job[t].owner # None
  /\ slot[job[t].owner].task # t
  /\ Expire(t)

(***************************************************************************)
(* What the worker's scheduling justifies: a slot carries on (every wait   *)
(* of it, for an Agent or a Runner, has a timeout and ends by throwing at  *)
(* worst), idle slots poll claimJob, which reconciles before it claims,    *)
(* and an abandoned lease expires.  Crashes, interruptions, the expiry of  *)
(* a lease at work and the user's commands may happen or not.              *)
(***************************************************************************)
Fairness ==
  /\ \A w \in Slots : WF_vars(SlotStep(w))
  /\ \A t \in Tasks : /\ WF_vars(ClaimAny(t))
                      /\ WF_vars(Reconcile(t))
                      /\ WF_vars(ExpireAbandoned(t))

FairSpec == Spec /\ Fairness

-----------------------------------------------------------------------------
TypeOK ==
  /\ run \in [status : RunStatuses, cancel : BOOLEAN]
  /\ task \in [Tasks -> TaskRecords]
  /\ job \in [Tasks -> JobRecords]
  /\ slot \in [Slots -> SlotRecords]
  /\ lost \in [Tasks -> 0..MaxClaims]

\* The row of the run tells the truth about its tasks after every transaction, as the
\* deferred trigger validate_test_execution_aggregate_completeness demands: a run that
\* did not start has untouched tasks, a running one still has work, and each final
\* status means exactly what it says.
RunAgreesWithTasks ==
  LET all(s) == \A t \in Tasks : task[t].status = s
      open == \E t \in Tasks : task[t].status \in Open
  IN
  /\ run.status = "queued" => \A t \in Tasks : task[t].status \in {"pending", "unsupported"}
  /\ run.status \in {"queued", "running"} <=> open
  /\ run.status = "succeeded" <=> all("passed")
  /\ run.status = "failed" <=> all("failed")
  /\ run.status = "cancelled" <=> all("cancelled")

\* Attempts and task tell one story (validate_test_execution_task_attempts): a task
\* counts as running exactly while one attempt of it is, that is its last one, and it
\* has passed exactly when its last attempt did, so that neither a crash nor a
\* cancellation nor an exhausted job ever turns a recorded PASS into something else.
AttemptsMatchTask ==
  \A t \in Tasks :
    LET r == task[t] IN
    /\ r.status = "running" <=> Executing(r)
    /\ r.status = "passed" <=> LastStatus(r) = "passed"
    /\ \A i \in DOMAIN r.attempts :
         r.attempts[i].status \in {"running", "passed"} => i = Len(r.attempts)

\* No task is ever left without somebody to advance it, and no job without a task to
\* advance: an open task has an active job, a queued job has an open task that is not
\* executing, and a job that ended says what became of its task (the job's trigger:
\* TEST_EXECUTION_JOB_TERMINAL_MISMATCH).
NoOrphanTask ==
  \A t \in Tasks :
    /\ task[t].status \in Open => Active(job[t])
    /\ job[t].status = "queued" => task[t].status \in Open /\ ~Executing(task[t])
    /\ job[t].status \in {"succeeded", "failed", "cancelled"} =>
         job[t].status = JobOutcome(task[t].status)

\* Once cancelRun has committed, every job that is still active knows of it, and is
\* active only because an attempt was executing that a worker has yet to settle.
CancellationReachesJobs ==
  run.cancel =>
    \A t \in Tasks : Active(job[t]) =>
      /\ job[t].status = "running" /\ job[t].cancel
      /\ task[t].status \in {"running", "cancelled"}

\* Whoever owns the lease of a task is the only one to write it: what the owner read at
\* the head of its loop is still the state of the task while it works on the stage.
OwnersSnapshotIsFresh ==
  \A w \in Slots :
    Owns(w) /\ slot[w].pc \in {"stage", "running"} =>
      slot[w].current /\ slot[w].seen = task[slot[w].task].status

\* Claims that ended orderly, at the boundary of a lane, cost nothing; only a crash, a
\* lost lease or a thrown error uses up the budget of a job (verification document of
\* the execution pools: the handoff refunds its claim, real failures keep consuming).
BudgetCountsLosses ==
  \A t \in Tasks :
    /\ job[t].status = "queued" => job[t].claims = lost[t]
    /\ job[t].status = "running" => job[t].claims = lost[t] + 1

\* After every transaction the rows of attempts, task, job and run tell one story, whoever
\* wrote last: the worker, another one that reconciles its job, or the user.
RowsAgree ==
  /\ TypeOK
  /\ AttemptsMatchTask
  /\ NoOrphanTask
  /\ RunAgreesWithTasks
  /\ BudgetCountsLosses

\* A task is handed to the diagnosis Agent only with the evidence diagnoseFailure asks
\* for, else every claim of it would throw until the task is blocked.
DiagnosisHasEvidence ==
  \A t \in Tasks : task[t].status = "diagnosing" =>
    FailedOnce(task[t]) /\ (HasWorkspace \/ FailedTwice(task[t]))

\* What validate_test_execution_attempt_write accepts: the attempt kind, given the task r.
Admissible(r, kind) ==
  LET retries == {i \in DOMAIN r.attempts : r.attempts[i].kind = "same_script_retry"} IN
  /\ r.status \in {"ready", "retrying"}
  /\ r.status = "retrying" <=> kind = "same_script_retry"
  /\ kind = "initial" => r.attempts = <<>> /\ ~r.earlier /\ r.source # "repair"
  /\ kind = "same_script_retry" => retries = {} /\ LastStatus(r) = "failed"
  /\ kind = "infrastructure_retry" => LastStatus(r) = "infrastructure_error"
  /\ kind = "post_repair" => r.source = "repair" /\ r.attempts = <<>>
  /\ kind = "post_regeneration" => r.source = "regeneration" /\ r.attempts = <<>>
  /\ kind = "manual_retry" => r.attempts # <<>>

\* Whatever led back to "ready", the service names the next attempt in a way the
\* database accepts: repairs, regenerations, reconciled attempts and manual retries in
\* any order never make the insert fail.
AttemptsAreAdmissible ==
  [][\A t \in Tasks : Len(task'[t].attempts) > Len(task[t].attempts) =>
       Admissible(task[t], LastOf(task'[t].attempts).kind)]_vars

\* The stop reasons of the worker (its concurrency document, section 4): after a lost
\* lease a claim writes nothing at all; after an interruption it may return the job, but
\* leaves task and run alone; after a cancellation all it may write is "cancelled".
StoppedSlotsStaySilent ==
  [][\A w \in Slots : slot'[w].pc # slot[w].pc =>
       /\ slot[w].stop = "lease_lost" => UNCHANGED <<run, task, job>>
       /\ slot[w].stop = "interrupted" => UNCHANGED <<run, task>>
       /\ slot[w].stop = "user_cancelled" =>
            \A t \in Tasks : task'[t] # task[t] => task'[t].status = "cancelled"]_vars

\* The promises of a run, kept by the database and its workers.
Promise == INSTANCE ExecutionRun WITH
  runStatus <- run.status, cancelRequested <- run.cancel, taskStatus <- Status(task)

\* Seen from the run, every transaction takes at most one task one edge of the lifecycle
\* graph, a requested cancellation is final, and only a manual retry reopens a run.
ImplementsRun == Promise!RunSpec

\* Every run comes to an end, whatever crashes, lost leases and cancellations happen on
\* the way (their number is bounded by the claims of a job).
RunEventuallySettles == run.status \in {"queued", "running"} ~> run.status \in Finished

\* Every job is closed in the end, also one whose worker vanished after the task was
\* done: a job that stays active would refuse the manual retry of its task for good.
EveryJobCloses == \A t \in Tasks : Active(job[t]) ~> ~Active(job[t])

\* Whatever has been started is finished: the run settles and no job stays behind.
WorkEnds == RunEventuallySettles /\ EveryJobCloses

=============================================================================
