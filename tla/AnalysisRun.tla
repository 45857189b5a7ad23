------------------------------ MODULE AnalysisRun ------------------------------
(***************************************************************************)
(* A requirement-analysis run and the queue row that drives it.             *)
(*                                                                         *)
(* The run (smarthub.review_runs) is the business record; the job           *)
(* (smarthub.review_jobs) is its queue row, with a lease and an attempt     *)
(* counter.  The HTTP process creates, cancels and clarifies runs; workers  *)
(* claim jobs, execute the PlanningAgent and publish its result.  Nearly    *)
(* every operation is several transactions, so the two rows disagree in     *)
(* between and a crash, a cancellation or an expired lease can strike       *)
(* there.  Sources: server/application/requirement-analysis-service.ts,     *)
(* server/infrastructure/postgres-store.ts, server/worker.ts.               *)
(***************************************************************************)
EXTENDS Naturals, FiniteSets

CONSTANTS
    Runs,          \* run ids
    Workers,       \* worker slots; a restarted process takes the same slot
    MaxAttempts,   \* max_attempts of the job (3 in the code)
    Faults,        \* which of PossibleFaults may happen
    MaxFaults      \* bound on how many faults happen

PossibleFaults == {"worker_crash", "api_crash", "read_failure", "write_failure"}

ASSUME AttemptsAssumption == MaxAttempts \in Nat \ {0}
ASSUME FaultsAssumption == Faults \subseteq PossibleFaults /\ MaxFaults \in Nat

VARIABLES
    run,      \* run[r]: the review_runs row
    job,      \* job[r]: the review_jobs row
    tries,    \* tries[r][n]: executionAttempts entry n of the run
    route,    \* route[r][n]: the modelRouteAttempts entry made by attempt n
    worker,   \* worker[w]: a worker's control state
    request,  \* request[r]: the HTTP handler running start()
    cancel,   \* cancel[r]: the HTTP handler running cancel()
    desk,     \* desk[r]: the HTTP handler answering or retrying the transition
    faults    \* number of faults so far

vars == <<run, job, tries, route, worker, request, cancel, desk, faults>>

Attempts == 1 .. MaxAttempts
Ended == {"waiting_clarification", "succeeded", "failed", "cancelled"}
Transitions == {"none", "pending", "running", "succeeded", "failed"}
Infrastructure == {"lease_lost", "heartbeat_unavailable", "worker_shutdown"}

RunStatuses == {"absent", "running"} \union Ended
JobStatuses == {"absent", "queued", "running", "succeeded", "failed", "cancelled"}

\* result and release name the attempt whose result they hold; 0 is none.
RunRows ==
    [status : RunStatuses, result : 0 .. MaxAttempts,
     blocking : BOOLEAN, transition : Transitions,
     release : 0 .. MaxAttempts, design : BOOLEAN]

\* The run token of a claim is abstracted to the attempt number it drew.
JobRows ==
    [status : JobStatuses,
     attempts : 0 .. MaxAttempts, live : BOOLEAN, cancelAsked : BOOLEAN]

Outcomes == {"none", "running", "succeeded", "failed"}

\* Where a worker is in processReviewOne and the calls it makes.
Stages == {"idle", "begin", "read", "start", "route", "execute", "routed",
           "route_failed", "commit", "finalize", "design", "settle_transition",
           "transition_failed", "respond", "finish", "fail_run",
           "fail_prepared", "requeue", "give_up"}
Stops == {"none", "user_cancelled"} \union Infrastructure
Errors == {"none", "model", "other"}

WorkerStates ==
    [pc : Stages, run : Runs, attempt : 0 .. MaxAttempts, stop : Stops, error : Errors]

DeskStages == {"idle", "tell", "finalize", "design", "settle_transition",
               "transition_failed", "retry_design", "retry_settle"}

Init ==
    /\ run = [r \in Runs |-> [status |-> "absent", result |-> 0, blocking |-> FALSE,
                              transition |-> "none", release |-> 0, design |-> FALSE]]
    /\ job = [r \in Runs |-> [status |-> "absent", attempts |-> 0,
                              live |-> FALSE, cancelAsked |-> FALSE]]
    /\ tries = [r \in Runs |-> [n \in Attempts |-> "none"]]
    /\ route = [r \in Runs |-> [n \in Attempts |-> "none"]]
    /\ worker \in [Workers -> {[pc |-> "idle", run |-> r, attempt |-> 0,
                                stop |-> "none", error |-> "none"] : r \in Runs}]
    /\ request = [r \in Runs |-> "none"]
    /\ cancel = [r \in Runs |-> "idle"]
    /\ desk = [r \in Runs |-> "idle"]
    /\ faults = 0

--------------------------------------------------------------------------------
(***************************************************************************)
(* The HTTP process.                                                        *)
(***************************************************************************)

\* start(): analyze(deferExecution) inserts the run in a transaction of its own ...
CreateRun(r) ==
    /\ request[r] = "none"
    /\ request' = [request EXCEPT ![r] = "created"]
    /\ run' = [run EXCEPT ![r].status = "running"]
    /\ UNCHANGED <<job, tries, route, worker, cancel, desk, faults>>

\* ... and enqueueReviewJob inserts its job afterwards.
EnqueueReviewJob(r) ==
    /\ request[r] = "created"
    /\ request' = [request EXCEPT ![r] = "enqueued"]
    /\ job' = [job EXCEPT ![r].status = "queued"]
    /\ UNCHANGED <<run, tries, route, worker, cancel, desk, faults>>

\* cancel(): the handler reads a snapshot and goes on only if the run is running.
AskCancel(r) ==
    /\ cancel[r] = "idle"
    /\ run[r].status = "running"
    /\ cancel' = [cancel EXCEPT ![r] = "asked"]
    /\ UNCHANGED <<run, job, tries, route, worker, request, desk, faults>>

\* cancelReviewJob: a queued job is cancelled at once, a running one is flagged.
CancelReviewJob(r) ==
    /\ cancel[r] = "asked"
    /\ cancel' = [cancel EXCEPT ![r] = "flagged"]
    /\ job' = IF job[r].status \notin {"queued", "running"} THEN job
              ELSE [job EXCEPT ![r].cancelAsked = TRUE,
                               ![r].status = IF @ = "queued" THEN "cancelled" ELSE @]
    /\ UNCHANGED <<run, tries, route, worker, request, desk, faults>>

\* The last transaction of cancel() marks the run, if it is still running.
CancelRun(r) ==
    /\ cancel[r] = "flagged"
    /\ cancel' = [cancel EXCEPT ![r] = "idle"]
    /\ run' = IF run[r].status = "running"
              THEN [run EXCEPT ![r].status = "cancelled"] ELSE run
    /\ UNCHANGED <<job, tries, route, worker, request, desk, faults>>

\* actOnClarifications: all blocking questions are answered in one transaction.
Answer(r) ==
    /\ desk[r] = "idle"
    /\ run[r].result # 0 /\ run[r].release = 0 /\ run[r].blocking
    /\ run' = [run EXCEPT ![r].status = "succeeded", ![r].blocking = FALSE,
                          ![r].transition = "pending"]
    /\ desk' = [desk EXCEPT ![r] = "tell"]
    /\ UNCHANGED <<job, tries, route, worker, request, cancel, faults>>

\* appendPlanningClarification may throw; the request then ends without a release.
Tell(r) ==
    /\ desk[r] = "tell"
    /\ \E next \in {"finalize", "idle"} : desk' = [desk EXCEPT ![r] = next]
    /\ UNCHANGED <<run, job, tries, route, worker, request, cancel, faults>>

\* POST .../automatic-test-design/retry calls requirementReleasePublished itself.
RetryTransition(r) ==
    /\ desk[r] = "idle"
    /\ run[r].release # 0
    /\ desk' = [desk EXCEPT ![r] = "retry_design"]
    /\ UNCHANGED <<run, job, tries, route, worker, request, cancel, faults>>

--------------------------------------------------------------------------------
(***************************************************************************)
(* notifyRequirementReleaseReady, run by a worker after its commit and by   *)
(* the HTTP process after an answer.  None of it carries a lease.           *)
(***************************************************************************)

\* finalizeRequirementRelease; it also throws when inputs or the version changed.
Finalizable(r) == run[r].status = "succeeded" /\ run[r].result # 0 /\ ~run[r].blocking

FinalizedAgain(r) ==
    [run EXCEPT ![r].release = run[r].result, ![r].transition = "running"]

Finalized(r) ==
    IF run[r].release # 0 THEN run
    ELSE [run EXCEPT ![r].release = run[r].result, ![r].transition = "running"]

\* createAutomaticDesignAndRun is idempotent per release and needs a succeeded run.
Designable(r) == run[r].status = "succeeded" /\ run[r].release # 0
Designed(r) == [run EXCEPT ![r].design = TRUE]

\* finalize -> design -> settle_transition, or transition_failed from any of them;
\* "next" is the stage the notifier goes to.
Notify(r, stage, next) ==
    \/ /\ stage = "finalize" /\ Finalizable(r)
       /\ run' = Finalized(r) /\ next = "design"
    \/ /\ stage = "design" /\ Designable(r)
       /\ run' = Designed(r) /\ next \in {"settle_transition", "transition_failed"}
    \/ /\ stage \in {"finalize", "design"}
       /\ run' = run /\ next = "transition_failed"
    \/ /\ stage = "settle_transition"
       /\ run' = [run EXCEPT ![r].transition = "succeeded"] /\ next = "done"
    \/ /\ stage = "transition_failed"
       /\ run' = [run EXCEPT ![r].transition = "failed"] /\ next = "done"

DeskNotifies(r) ==
    /\ \E next \in {"design", "settle_transition", "transition_failed", "done"} :
          /\ Notify(r, desk[r], next)
          /\ desk' = [desk EXCEPT ![r] = IF next = "done" THEN "idle" ELSE next]
    /\ UNCHANGED <<job, tries, route, worker, request, cancel, faults>>

\* A retry that throws only answers the request: nobody records the failure.
DeskRetries(r) ==
    /\ desk[r] \in {"retry_design", "retry_settle"}
    /\ \/ /\ desk[r] = "retry_design" /\ Designable(r)
          /\ run' = Designed(r)
          /\ \E next \in {"retry_settle", "idle"} : desk' = [desk EXCEPT ![r] = next]
       \/ /\ desk[r] = "retry_design"
          /\ run' = run /\ desk' = [desk EXCEPT ![r] = "idle"]
       \/ /\ desk[r] = "retry_settle"
          /\ run' = [run EXCEPT ![r].transition = "succeeded"]
          /\ desk' = [desk EXCEPT ![r] = "idle"]
    /\ UNCHANGED <<job, tries, route, worker, request, cancel, faults>>

--------------------------------------------------------------------------------
(***************************************************************************)
(* claimReviewJob: recover every expired job and its run, then take one.    *)
(***************************************************************************)
Expired(r) == job[r].status = "running" /\ ~job[r].live

RecoveredStatusOneLate(r) ==
    IF job[r].cancelAsked THEN "cancelled"
    ELSE IF job[r].attempts > MaxAttempts THEN "failed" ELSE "queued"

RecoveredStatus(r) ==
    IF job[r].cancelAsked THEN "cancelled"
    ELSE IF job[r].attempts >= MaxAttempts THEN "failed" ELSE "queued"

RecoveredJobs ==
    [r \in Runs |-> IF Expired(r) THEN [job[r] EXCEPT !.status = RecoveredStatus(r)]
                    ELSE job[r]]

RecoveredRuns ==
    [r \in Runs |->
        IF Expired(r) /\ run[r].status = "running" /\ RecoveredStatus(r) # "queued"
        THEN [run[r] EXCEPT !.status = RecoveredStatus(r)] ELSE run[r]]

Claimable(r) ==
    /\ RecoveredJobs[r].status = "queued"
    /\ RecoveredJobs[r].attempts < MaxAttempts

ClaimReviewJob(w, r) ==
    /\ worker[w].pc = "idle"
    /\ Claimable(r)
    /\ run' = RecoveredRuns
    /\ job' = [RecoveredJobs EXCEPT ![r].status = "running", ![r].live = TRUE,
                                    ![r].attempts = @ + 1]
    /\ worker' = [worker EXCEPT ![w] = [pc |-> "begin", run |-> r, error |-> "none",
                                        attempt |-> job[r].attempts + 1, stop |-> "none"]]
    /\ UNCHANGED <<tries, route, request, cancel, desk, faults>>

\* A claim that finds no job has still committed the recovery.
ClaimNothing(w) ==
    /\ worker[w].pc = "idle"
    /\ \E r \in Runs : Expired(r)
    /\ \A r \in Runs : ~Claimable(r)
    /\ run' = RecoveredRuns /\ job' = RecoveredJobs
    /\ UNCHANGED <<tries, route, worker, request, cancel, desk, faults>>

--------------------------------------------------------------------------------
(***************************************************************************)
(* processReviewOne.  transactionWithReviewLease commits only while the     *)
(* worker holds the job, its lease is alive and no cancellation was asked.  *)
(***************************************************************************)
Owns(w) ==
    LET j == job[worker[w].run] IN
        j.status = "running" /\ j.attempts = worker[w].attempt /\ j.live

FencedByLeaseOnly(w) == Owns(w)

FencedByAnyClaim(w) ==
    LET j == job[worker[w].run] IN j.status = "running" /\ j.live /\ ~j.cancelAsked

Fenced(w) == Owns(w) /\ ~job[worker[w].run].cancelAsked

At(w, pc) == worker[w].pc = pc /\ worker[w].stop = "none"
Goto(w, pc) == worker' = [worker EXCEPT ![w].pc = pc]
Throw(w, pc, error) == worker' = [worker EXCEPT ![w].pc = pc, ![w].error = error]
Rest(w) ==
    worker' = [worker EXCEPT ![w] = [pc |-> "idle", run |-> worker[w].run, attempt |-> 0,
                                     stop |-> "none", error |-> "none"]]

\* Where a step that is not in executeAnalysis's try goes when its transaction
\* is refused, and where one inside it goes.
Refused(w, pc) == ~Fenced(w) /\ Throw(w, pc, "other") /\ UNCHANGED <<run, tries, route>>

\* latestRunningExecutionAttempt, marked with an outcome.
LatestRunning(r) == {n \in Attempts : /\ tries[r][n] = "running"
                                      /\ \A m \in Attempts : tries[r][m] = "running" => m <= n}
Concluded(r, outcome) ==
    [tries EXCEPT ![r] = [n \in Attempts |-> IF n \in LatestRunning(r) THEN outcome ELSE @[n]]]

\* Both beginExecutionAttempt and processPreparedRun refuse a run that has ended.
AlwaysExecutable(r) == TRUE
Executable(r) == run[r].status = "running"

\* beginExecutionAttempt: supersede the older attempts and open this one.
Superseded(r, attempt) ==
    [n \in Attempts |-> IF n = attempt THEN "running"
                        ELSE IF tries[r][n] = "running" /\ n < attempt THEN "failed"
                        ELSE tries[r][n]]

BeginExecutionAttempt(w) ==
    LET r == worker[w].run IN
    /\ At(w, "begin")
    /\ \/ Refused(w, "fail_prepared")
       \/ /\ Fenced(w) /\ Executable(r)
          /\ tries' = [tries EXCEPT ![r] = Superseded(r, worker[w].attempt)]
          /\ Goto(w, "read") /\ UNCHANGED <<run, route>>
       \/ /\ Fenced(w) /\ ~Executable(r)
          /\ Throw(w, "fail_prepared", "other") /\ UNCHANGED <<run, tries, route>>
    /\ UNCHANGED <<job, request, cancel, desk, faults>>

\* The snapshot, the checks on it (model, fixed input, hash) and the step update.
ReadPreparedRun(w) ==
    /\ worker[w].pc = "read"
    /\ \/ Executable(worker[w].run) /\ Goto(w, "start")
       \/ Throw(w, "fail_prepared", "other")
    /\ UNCHANGED <<run, job, tries, route, request, cancel, desk, faults>>

StartAnalyzing(w) ==
    /\ worker[w].pc = "start"
    /\ \/ Refused(w, "fail_prepared")
       \/ Fenced(w) /\ Goto(w, "route") /\ UNCHANGED <<run, tries, route>>
    /\ UNCHANGED <<job, request, cancel, desk, faults>>

\* executeOnce: record the model call, make it, record how it ended.
OpenModelAttempt(w) ==
    /\ At(w, "route")
    /\ \/ Refused(w, "fail_run")
       \/ /\ Fenced(w)
          /\ route' = [route EXCEPT ![worker[w].run][worker[w].attempt] = "running"]
          /\ Goto(w, "execute") /\ UNCHANGED <<run, tries>>
    /\ UNCHANGED <<job, request, cancel, desk, faults>>

ExecuteRuntime(w) ==
    /\ At(w, "execute")
    /\ \/ Goto(w, "routed")
       \/ \E error \in {"model", "other"} : Throw(w, "route_failed", error)
    /\ UNCHANGED <<run, job, tries, route, request, cancel, desk, faults>>

FinishModelAttempt(w) ==
    LET r == worker[w].run IN
    /\ \/ /\ At(w, "routed")
          /\ \/ Refused(w, "route_failed")
             \/ /\ Fenced(w) /\ Goto(w, "commit") /\ UNCHANGED <<run, tries>>
                /\ route' = [route EXCEPT ![r][worker[w].attempt] = "succeeded"]
       \/ /\ At(w, "route_failed")
          /\ \/ Refused(w, "fail_run")
             \/ /\ Fenced(w) /\ Goto(w, "fail_run") /\ UNCHANGED <<run, tries>>
                /\ route' = [route EXCEPT ![r][worker[w].attempt] = "failed"]
    /\ UNCHANGED <<job, request, cancel, desk, faults>>

\* executeAnalysis's result transaction: it does not look at the run's status.
CommitResult(w) ==
    LET r == worker[w].run IN
    /\ At(w, "commit") /\ Fenced(w)
    /\ \E blocking \in BOOLEAN :
          /\ run' = [run EXCEPT
                ![r].status = IF blocking THEN "waiting_clarification" ELSE "succeeded",
                ![r].result = worker[w].attempt, ![r].blocking = blocking,
                ![r].transition = IF blocking THEN @ ELSE "pending"]
          /\ Goto(w, IF blocking THEN "respond" ELSE "finalize")
    /\ tries' = Concluded(r, "succeeded")
    /\ UNCHANGED <<job, route, request, cancel, desk, faults>>

\* The validator rejects the candidate, or the lease refuses the commit.
RejectResult(w) ==
    /\ At(w, "commit")
    /\ Throw(w, "fail_run", "other")
    /\ UNCHANGED <<run, job, tries, route, request, cancel, desk, faults>>

WorkerNotifies(w) ==
    /\ \E next \in {"design", "settle_transition", "transition_failed", "done"} :
          /\ Notify(worker[w].run, worker[w].pc, next)
          /\ Goto(w, IF next = "done" THEN "respond" ELSE next)
    /\ UNCHANGED <<job, tries, route, request, cancel, desk, faults>>

\* executeAnalysis ends by reading the run back, still inside its try.
Respond(w) ==
    /\ worker[w].pc = "respond"
    /\ Goto(w, "finish")
    /\ UNCHANGED <<run, job, tries, route, request, cancel, desk, faults>>

\* failRun: rewrites the run whatever its status is.
FailRun(w) ==
    LET r == worker[w].run IN
    /\ At(w, "fail_run")
    /\ \/ Refused(w, "fail_prepared")
       \/ /\ Fenced(w)
          /\ run' = [run EXCEPT ![r].status =
                        IF worker[w].attempt < MaxAttempts THEN "running" ELSE "failed"]
          /\ tries' = Concluded(r, "failed")
          /\ Goto(w, "fail_prepared") /\ UNCHANGED route
    /\ UNCHANGED <<job, request, cancel, desk, faults>>

\* retryFailedReviewJob: only a MODEL_... error is retried.
Retryable(w) == worker[w].attempt < MaxAttempts /\ worker[w].error = "model"
AfterFailure(w) == IF Retryable(w) THEN "requeue" ELSE "give_up"

\* failPreparedRun: fenced, its rejection swallowed, and only for a running run.
FailPreparedRun(w) ==
    LET r == worker[w].run IN
    /\ At(w, "fail_prepared")
    /\ Goto(w, AfterFailure(w))
    /\ IF Fenced(w) /\ run[r].status = "running"
       THEN /\ run' = IF Retryable(w) THEN run ELSE [run EXCEPT ![r].status = "failed"]
            /\ tries' = Concluded(r, "failed")
       ELSE UNCHANGED <<run, tries>>
    /\ UNCHANGED <<job, route, request, cancel, desk, faults>>

\* releaseReviewJob and finishReviewJob, as the queue row they leave.
ReleasedJob(w) ==
    IF Fenced(w) /\ job[worker[w].run].attempts < MaxAttempts
    THEN [job EXCEPT ![worker[w].run].status = "queued", ![worker[w].run].live = FALSE]
    ELSE job
FinishedJob(w, status) ==
    IF Owns(w) /\ (status = "cancelled" => job[worker[w].run].cancelAsked)
    THEN [job EXCEPT ![worker[w].run].status = status, ![worker[w].run].live = FALSE]
    ELSE job

Requeue(w) ==
    /\ worker[w].pc = "requeue"
    /\ job' = ReleasedJob(w) /\ Rest(w)
    /\ UNCHANGED <<run, tries, route, request, cancel, desk, faults>>

GiveUp(w) ==
    /\ worker[w].pc = "give_up"
    /\ job' = FinishedJob(w, "failed") /\ Rest(w)
    /\ UNCHANGED <<run, tries, route, request, cancel, desk, faults>>

Finish(w) ==
    /\ At(w, "finish")
    /\ job' = FinishedJob(w, "succeeded") /\ Rest(w)
    /\ UNCHANGED <<run, tries, route, request, cancel, desk, faults>>

\* throwIfWorkerStopped and settleStoppedWork: at the next check the worker
\* leaves its work, and settles the job by the reason of the stop.
Checked == {"begin", "route", "execute", "routed", "route_failed", "commit",
            "fail_run", "fail_prepared", "finish"}

SettleStoppedWork(w) ==
    /\ worker[w].pc \in Checked /\ worker[w].stop # "none"
    /\ job' = CASE worker[w].stop = "lease_lost" -> job
                [] worker[w].stop = "user_cancelled" -> FinishedJob(w, "cancelled")
                [] OTHER -> ReleasedJob(w)
    /\ Rest(w)
    /\ UNCHANGED <<run, tries, route, request, cancel, desk, faults>>

--------------------------------------------------------------------------------
(***************************************************************************)
(* The heartbeat, the clock and the faults.                                 *)
(***************************************************************************)
Abort(w, reason) ==
    /\ worker[w].pc # "idle" /\ worker[w].stop = "none"
    /\ worker' = [worker EXCEPT ![w].stop = reason]
    /\ UNCHANGED <<run, job, tries, route, request, cancel, desk, faults>>

\* renewReviewJobLease: a renewal that succeeds changes nothing here.
HeartbeatReviewJob(w) ==
    /\ ~Fenced(w)
    /\ Abort(w, IF Owns(w) THEN "user_cancelled" ELSE "lease_lost")

\* The shutdown signal, or a heartbeat query that throws.
StopWorker(w) ==
    \E reason \in {"heartbeat_unavailable", "worker_shutdown"} : Abort(w, reason)

\* A lease may run out under a paused worker as well as under a dead one.
LeaseExpires(r) ==
    /\ job[r].status = "running" /\ job[r].live
    /\ job' = [job EXCEPT ![r].live = FALSE]
    /\ UNCHANGED <<run, tries, route, worker, request, cancel, desk, faults>>

Fault(kind) == kind \in Faults /\ faults < MaxFaults /\ faults' = faults + 1

CrashWorker(w) ==
    /\ Fault("worker_crash")
    /\ worker[w].pc # "idle" /\ Rest(w)
    /\ UNCHANGED <<run, job, tries, route, request, cancel, desk>>

CrashApi ==
    /\ Fault("api_crash")
    /\ request' = [r \in Runs |-> IF request[r] = "created" THEN "lost" ELSE request[r]]
    /\ cancel' = [r \in Runs |-> "idle"]
    /\ desk' = [r \in Runs |-> "idle"]
    /\ UNCHANGED <<run, job, tries, route, worker>>

\* The read at the end of executeAnalysis throws after the result was committed.
FailToRespond(w) ==
    /\ Fault("read_failure")
    /\ worker[w].pc = "respond"
    /\ Throw(w, "fail_run", "other")
    /\ UNCHANGED <<run, job, tries, route, request, cancel, desk>>

\* failPreparedRun's transaction throws; .catch(() => undefined) hides it.
LosePreparedFailure(w) ==
    /\ Fault("write_failure")
    /\ At(w, "fail_prepared")
    /\ Goto(w, AfterFailure(w))
    /\ UNCHANGED <<run, job, tries, route, request, cancel, desk>>

--------------------------------------------------------------------------------
WorkerStep(w) ==
    \/ BeginExecutionAttempt(w) \/ ReadPreparedRun(w) \/ StartAnalyzing(w)
    \/ OpenModelAttempt(w) \/ ExecuteRuntime(w) \/ FinishModelAttempt(w)
    \/ CommitResult(w) \/ RejectResult(w) \/ WorkerNotifies(w) \/ Respond(w)
    \/ FailRun(w) \/ FailPreparedRun(w) \/ Requeue(w) \/ GiveUp(w) \/ Finish(w)
    \/ SettleStoppedWork(w)

DeskStep(r) == Tell(r) \/ DeskNotifies(r) \/ DeskRetries(r)

Next ==
    \/ \E r \in Runs :
          \/ CreateRun(r) \/ EnqueueReviewJob(r)
          \/ AskCancel(r) \/ CancelReviewJob(r) \/ CancelRun(r)
          \/ Answer(r) \/ RetryTransition(r) \/ DeskStep(r)
          \/ LeaseExpires(r)
    \/ \E w \in Workers :
          \/ \E r \in Runs : ClaimReviewJob(w, r)
          \/ ClaimNothing(w) \/ WorkerStep(w)
          \/ HeartbeatReviewJob(w) \/ StopWorker(w)
          \/ CrashWorker(w) \/ FailToRespond(w) \/ LosePreparedFailure(w)
    \/ CrashApi

Spec == Init /\ [][Next]_vars

\* A lease that no worker renews any more runs out.
Abandoned(r) ==
    \A w \in Workers : worker[w].run = r /\ worker[w].pc # "idle" => ~Owns(w)

Fairness ==
    /\ \A r \in Runs :
          /\ WF_vars(EnqueueReviewJob(r)) /\ WF_vars(CancelReviewJob(r))
          /\ WF_vars(CancelRun(r)) /\ WF_vars(DeskStep(r))
          /\ WF_vars(Abandoned(r) /\ LeaseExpires(r))
          /\ WF_vars(\E w \in Workers : ClaimReviewJob(w, r))
    /\ WF_vars(\E w \in Workers : ClaimNothing(w))
    /\ \A w \in Workers : WF_vars(WorkerStep(w))

FairSpec == Spec /\ Fairness

--------------------------------------------------------------------------------
(***************************************************************************)
(* Properties.                                                              *)
(***************************************************************************)

\* Every variable stays in its range; in particular a run never takes the
\* 'queued' of its job (claimReviewJob maps it back to 'running').
TypeOK ==
    /\ run \in [Runs -> RunRows]
    /\ job \in [Runs -> JobRows]
    /\ tries \in [Runs -> [Attempts -> Outcomes]]
    /\ route \in [Runs -> [Attempts -> Outcomes]]
    /\ worker \in [Workers -> WorkerStates]
    /\ request \in [Runs -> {"none", "created", "enqueued", "lost"}]
    /\ cancel \in [Runs -> {"idle", "asked", "flagged"}]
    /\ desk \in [Runs -> DeskStages]
    /\ faults \in 0 .. MaxFaults

\* The history of a run shows at most one execution attempt running, and it is
\* the newest: an attempt whose worker vanished is closed before the next opens.
OnlyNewestAttemptRuns ==
    \A r \in Runs : \A n, m \in Attempts :
        tries[r][n] = "running" /\ n < m => tries[r][m] = "none"

\* A running run always has somebody who will end it: its creator about to
\* enqueue, a job that is queued or leased, or a cancellation in progress.
\* (It needs an HTTP process that does not crash between two transactions, and
\* a failPreparedRun that does not throw.)
RunHasAKeeper ==
    \A r \in Runs :
        run[r].status = "running" =>
            \/ request[r] = "created"
            \/ job[r].status \in {"queued", "running"}
            \/ cancel[r] # "idle"

\* A published release is built from the result the run shows, and nothing in
\* it is still to be clarified.  (It needs the read after the commit to work.)
ReleaseIsOfTheResult ==
    \A r \in Runs : run[r].release # 0 => run[r].release = run[r].result /\ ~run[r].blocking

\* What a run shows belongs together: its attempts, its result and its release.
ResultsAgree == TypeOK /\ OnlyNewestAttemptRuns /\ ReleaseIsOfTheResult

\* Once published a release is never replaced, whoever finalizes the run again
\* and whatever attempt commits after it.
ReleaseIsImmutable ==
    [][\A r \in Runs : run[r].release # 0 => run'[r].release = run[r].release]_vars

\* A run cancelled while its job carries the cancellation stays cancelled: no
\* worker still executing it overwrites the status with its result or its error.
CancelledStaysCancelled ==
    [][\A r \in Runs : run[r].status = "cancelled" /\ job[r].cancelAsked
          => run'[r].status = "cancelled"]_vars

\* A worker stopped by its infrastructure (lease lost, heartbeat unavailable,
\* shutdown) ends neither the run nor its model attempt: both stay for recovery.
StoppedWorkSettlesNothing ==
    [][\A w \in Workers :
          worker[w].stop \in Infrastructure /\ worker'[w] # worker[w] =>
              /\ run'[worker[w].run].status = run[worker[w].run].status
              /\ route'[worker[w].run] = route[worker[w].run]]_vars

\* Neither the stop of the user nor a stop of the infrastructure is overrun by the
\* worker that was stopped.
StopsAreRespected == CancelledStaysCancelled /\ StoppedWorkSettlesNothing

\* notifyRequirementReleaseReady takes neither the lease nor the signal of the
\* commit before it, so that a worker may publish after its lease was lost, after
\* it was told, and after its job was claimed again.  Still what a worker publishes
\* is the result it committed itself under its lease: no other attempt's result
\* and no new question has come in between (beginExecutionAttempt, reviewTransaction).
LateWorkersPublishTheirOwn ==
    [][\A w \in Workers :
          LET r == worker[w].run IN
          worker'[w] # worker[w] /\ run'[r].release # run[r].release =>
              run'[r].release = worker[w].attempt /\ ~run'[r].blocking]_vars

\* Every run that starts running ends, although workers crash, leases expire
\* and attempts fail.
EveryRunFinishes ==
    \A r \in Runs : run[r].status = "running" ~> run[r].status \in Ended

================================================================================
