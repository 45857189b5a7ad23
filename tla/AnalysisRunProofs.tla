--------------------------- MODULE AnalysisRunProofs ---------------------------
(***************************************************************************)
(* What AnalysisRun keeps for every set of runs and workers and every       *)
(* number of attempts.                                                      *)
(***************************************************************************)
EXTENDS AnalysisRun, TLAPS

(***************************************************************************)
(* Types.                                                                   *)
(***************************************************************************)
LEMMA MovesAreTyped ==
    ASSUME TypeOK, NEW w \in Workers, NEW pc \in Stages
    PROVE  /\ Goto(w, pc) => worker' \in [Workers -> WorkerStates]
           /\ \A error \in Errors : Throw(w, pc, error) => worker' \in [Workers -> WorkerStates]
           /\ Rest(w) => worker' \in [Workers -> WorkerStates]
  <1>1. /\ worker \in [Workers -> WorkerStates]
        /\ 0 \in 0 .. MaxAttempts /\ "idle" \in Stages /\ "none" \in Stops /\ "none" \in Errors
    BY AttemptsAssumption DEF TypeOK, Stages, Stops, Errors
  <1>2. Goto(w, pc) => worker' \in [Workers -> WorkerStates]
    BY <1>1 DEF Goto, WorkerStates
  <1>3. ASSUME NEW error \in Errors, Throw(w, pc, error)
        PROVE  worker' \in [Workers -> WorkerStates]
    <2> DEFINE state == [worker[w] EXCEPT !.pc = pc, !.error = error]
    <2>1. state \in WorkerStates BY <1>1 DEF WorkerStates
    <2>2. worker' = [worker EXCEPT ![w] = state] BY <1>1, <1>3 DEF Throw, WorkerStates
    <2> HIDE DEF state
    <2> QED BY <1>1, <2>1, <2>2
  <1>4. Rest(w) => worker' \in [Workers -> WorkerStates]
    BY <1>1 DEF Rest, WorkerStates
  <1> QED BY <1>2, <1>3, <1>4

LEMMA ReleasedJobsAreTyped ==
    ASSUME TypeOK, NEW w \in Workers, NEW status \in JobStatuses
    PROVE  /\ ReleasedJob(w) \in [Runs -> JobRows]
           /\ FinishedJob(w, status) \in [Runs -> JobRows]
  <1> DEFINE r == worker[w].run
             row(s) == [job[r] EXCEPT !.status = s, !.live = FALSE]
  <1>1. /\ job \in [Runs -> JobRows] /\ r \in Runs
        /\ "queued" \in JobStatuses
    BY DEF TypeOK, WorkerStates, JobStatuses
  <1>2. \A s \in JobStatuses : row(s) \in JobRows
    BY <1>1 DEF JobRows
  <1>3. /\ ReleasedJob(w) \in {job, [job EXCEPT ![r] = row("queued")]}
        /\ FinishedJob(w, status) \in {job, [job EXCEPT ![r] = row(status)]}
    BY <1>1 DEF ReleasedJob, FinishedJob, JobRows
  <1> HIDE DEF row, r
  <1> QED BY <1>1, <1>2, <1>3

LEMMA RecoveriesAreTyped ==
    ASSUME TypeOK
    PROVE  /\ RecoveredJobs \in [Runs -> JobRows]
           /\ RecoveredRuns \in [Runs -> RunRows]
           /\ \A r \in Runs : RecoveredJobs[r].attempts = job[r].attempts
  <1>1. \A r \in Runs : RecoveredStatus(r) \in {"cancelled", "failed", "queued"}
    BY DEF RecoveredStatus
  <1>2. RecoveredJobs \in [Runs -> JobRows]
    BY <1>1 DEF TypeOK, RecoveredJobs, JobRows, JobStatuses
  <1>3. RecoveredRuns \in [Runs -> RunRows]
    BY <1>1 DEF TypeOK, RecoveredRuns, RunRows, RunStatuses, Ended
  <1>4. \A r \in Runs : RecoveredJobs[r].attempts = job[r].attempts
    BY DEF TypeOK, RecoveredJobs, JobRows
  <1> QED BY <1>2, <1>3, <1>4

LEMMA AttemptsAreTyped ==
    ASSUME TypeOK, NEW r \in Runs, NEW outcome \in Outcomes, NEW attempt
    PROVE  /\ Concluded(r, outcome) \in [Runs -> [Attempts -> Outcomes]]
           /\ Superseded(r, attempt) \in [Attempts -> Outcomes]
  <1>1. tries \in [Runs -> [Attempts -> Outcomes]] BY DEF TypeOK
  <1>2. Concluded(r, outcome) \in [Runs -> [Attempts -> Outcomes]]
    BY <1>1 DEF Concluded
  <1>3. Superseded(r, attempt) \in [Attempts -> Outcomes]
    BY <1>1 DEF Superseded, Outcomes
  <1> QED BY <1>2, <1>3

LEMMA NotificationsAreTyped ==
    ASSUME TypeOK, NEW r \in Runs, NEW stage, NEW next, Notify(r, stage, next)
    PROVE  run' \in [Runs -> RunRows]
  <1>1. run \in [Runs -> RunRows] BY DEF TypeOK
  <1>2. Finalized(r) \in [Runs -> RunRows]
    BY <1>1 DEF Finalized, RunRows, Transitions
  <1>3. Designed(r) \in [Runs -> RunRows]
    BY <1>1 DEF Designed, RunRows
  <1>4. \A t \in Transitions : [run EXCEPT ![r].transition = t] \in [Runs -> RunRows]
    BY <1>1 DEF RunRows
  <1> QED BY <1>1, <1>2, <1>3, <1>4 DEF Notify, Transitions

LEMMA RunUpdatesAreTyped ==
    ASSUME TypeOK, NEW r \in Runs, NEW status \in RunStatuses,
           NEW result \in 0 .. MaxAttempts, NEW blocking \in BOOLEAN,
           NEW transition \in Transitions
    PROVE  /\ [run EXCEPT ![r].status = status] \in [Runs -> RunRows]
           /\ [run EXCEPT ![r].status = status, ![r].result = result,
                          ![r].blocking = blocking, ![r].transition = transition]
                 \in [Runs -> RunRows]
  <1>1. run \in [Runs -> RunRows] BY DEF TypeOK
  <1>2. [run EXCEPT ![r].status = status] \in [Runs -> RunRows]
    BY <1>1 DEF RunRows
  <1>3. [run[r] EXCEPT !.status = status, !.result = result, !.blocking = blocking,
                       !.transition = transition] \in RunRows
    BY <1>1 DEF RunRows
  <1>4. [run EXCEPT ![r].status = status, ![r].result = result,
                    ![r].blocking = blocking, ![r].transition = transition]
           = [run EXCEPT ![r] = [run[r] EXCEPT !.status = status, !.result = result,
                                               !.blocking = blocking,
                                               !.transition = transition]]
    BY <1>1 DEF RunRows
  <1>5. [run EXCEPT ![r].status = status, ![r].result = result,
                    ![r].blocking = blocking, ![r].transition = transition]
           \in [Runs -> RunRows]
    BY <1>1, <1>3, <1>4
  <1> QED BY <1>2, <1>5

LEMMA InitIsTyped == Init => TypeOK
  <1> SUFFICES ASSUME Init PROVE TypeOK OBVIOUS
  <1>1. run \in [Runs -> RunRows]
    BY AttemptsAssumption DEF Init, RunRows, RunStatuses, Transitions
  <1>2. job \in [Runs -> JobRows]
    BY AttemptsAssumption DEF Init, JobRows, JobStatuses
  <1>3. tries \in [Runs -> [Attempts -> Outcomes]] /\ route \in [Runs -> [Attempts -> Outcomes]]
    BY DEF Init, Outcomes
  <1>4. worker \in [Workers -> WorkerStates]
    BY AttemptsAssumption DEF Init, WorkerStates, Stages, Stops, Errors
  <1>5. /\ request \in [Runs -> {"none", "created", "enqueued", "lost"}]
        /\ cancel \in [Runs -> {"idle", "asked", "flagged"}]
        /\ desk \in [Runs -> DeskStages] /\ faults \in 0 .. MaxFaults
    BY FaultsAssumption DEF Init, DeskStages
  <1> QED BY <1>1, <1>2, <1>3, <1>4, <1>5 DEF TypeOK

LEMMA ApiStepsAreTyped ==
    ASSUME TypeOK, NEW r \in Runs,
           \/ CreateRun(r) \/ EnqueueReviewJob(r)
           \/ AskCancel(r) \/ CancelReviewJob(r) \/ CancelRun(r)
           \/ Answer(r) \/ RetryTransition(r) \/ DeskStep(r) \/ LeaseExpires(r)
    PROVE  TypeOK'
  <1>1. CASE CreateRun(r)
    BY <1>1 DEF TypeOK, CreateRun, RunRows, RunStatuses
  <1>2. CASE EnqueueReviewJob(r)
    BY <1>2 DEF TypeOK, EnqueueReviewJob, JobRows, JobStatuses
  <1>3. CASE AskCancel(r)
    BY <1>3 DEF TypeOK, AskCancel
  <1>4. CASE CancelReviewJob(r)
    <2> DEFINE status == IF job[r].status = "queued" THEN "cancelled" ELSE job[r].status
               row == [job[r] EXCEPT !.cancelAsked = TRUE, !.status = status]
    <2>1. job \in [Runs -> JobRows] /\ job[r] \in JobRows BY DEF TypeOK
    <2>2. row \in JobRows BY <2>1 DEF JobRows, JobStatuses
    <2>3. job' = job \/ job' = [job EXCEPT ![r] = row]
      BY <1>4, <2>1 DEF CancelReviewJob, JobRows
    <2> HIDE DEF row
    <2>4. job' \in [Runs -> JobRows] BY <2>1, <2>2, <2>3
    <2> QED BY <1>4, <2>4 DEF TypeOK, CancelReviewJob
  <1>5. CASE CancelRun(r)
    <2> DEFINE row == [run[r] EXCEPT !.status = "cancelled"]
    <2>1. run \in [Runs -> RunRows] /\ row \in RunRows
      BY DEF TypeOK, RunRows, RunStatuses, Ended
    <2>2. run' = run \/ run' = [run EXCEPT ![r] = row]
      BY <1>5, <2>1 DEF CancelRun, RunRows
    <2> HIDE DEF row
    <2>3. run' \in [Runs -> RunRows] BY <2>1, <2>2
    <2> QED BY <1>5, <2>3 DEF TypeOK, CancelRun
  <1>6. CASE Answer(r)
    <2> DEFINE row == [run[r] EXCEPT !.status = "succeeded", !.blocking = FALSE,
                                     !.transition = "pending"]
    <2>1. run \in [Runs -> RunRows] /\ row \in RunRows
      <3>1. run \in [Runs -> RunRows] /\ run[r] \in RunRows BY DEF TypeOK
      <3>2. "succeeded" \in RunStatuses /\ "pending" \in Transitions
        BY DEF RunStatuses, Ended, Transitions
      <3> QED BY <3>1, <3>2 DEF RunRows
    <2>2. run' = [run EXCEPT ![r] = row]
      <3>1. run' = [run EXCEPT ![r].status = "succeeded", ![r].blocking = FALSE,
                               ![r].transition = "pending"]
        BY <1>6 DEF Answer
      <3>2. [run EXCEPT ![r].status = "succeeded", ![r].blocking = FALSE,
                        ![r].transition = "pending"] = [run EXCEPT ![r] = row]
        BY <2>1 DEF RunRows
      <3> QED BY <3>1, <3>2
    <2> HIDE DEF row
    <2>3. run' \in [Runs -> RunRows] BY <2>1, <2>2
    <2> QED BY <1>6, <2>3 DEF TypeOK, Answer, DeskStages
  <1>7. CASE RetryTransition(r)
    BY <1>7 DEF TypeOK, RetryTransition, DeskStages
  <1>8. CASE Tell(r)
    BY <1>8 DEF TypeOK, Tell, DeskStages
  <1>9. CASE DeskNotifies(r)
    <2>1. run' \in [Runs -> RunRows]
      BY <1>9, NotificationsAreTyped DEF DeskNotifies
    <2>2. desk' \in [Runs -> DeskStages]
      BY <1>9 DEF TypeOK, DeskNotifies, DeskStages
    <2> QED BY <1>9, <2>1, <2>2 DEF TypeOK, DeskNotifies
  <1>10. CASE DeskRetries(r)
    <2>1. run' \in [Runs -> RunRows]
      <3>1. run \in [Runs -> RunRows] BY DEF TypeOK
      <3>2. /\ Designed(r) \in [Runs -> RunRows]
            /\ [run EXCEPT ![r].transition = "succeeded"] \in [Runs -> RunRows]
        BY <3>1 DEF Designed, RunRows, Transitions
      <3> QED BY <1>10, <3>1, <3>2 DEF DeskRetries
    <2>2. desk' \in [Runs -> DeskStages]
      BY <1>10 DEF TypeOK, DeskRetries, DeskStages
    <2> QED BY <1>10, <2>1, <2>2 DEF TypeOK, DeskRetries
  <1>11. CASE LeaseExpires(r)
    BY <1>11 DEF TypeOK, LeaseExpires, JobRows
  <1> QED
    BY <1>1, <1>2, <1>3, <1>4, <1>5, <1>6, <1>7, <1>8, <1>9, <1>10, <1>11 DEF DeskStep

LEMMA ClaimsAreTyped ==
    ASSUME TypeOK, NEW w \in Workers,
           ClaimNothing(w) \/ \E r \in Runs : ClaimReviewJob(w, r)
    PROVE  TypeOK'
  <1>1. CASE ClaimNothing(w)
    BY <1>1, RecoveriesAreTyped DEF TypeOK, ClaimNothing
  <1>2. ASSUME NEW r \in Runs, ClaimReviewJob(w, r) PROVE TypeOK'
    <2>1. job[r].attempts \in 0 .. MaxAttempts /\ job[r].attempts < MaxAttempts
      BY <1>2, RecoveriesAreTyped DEF ClaimReviewJob, Claimable, TypeOK, JobRows
    <2>2. job[r].attempts + 1 \in 0 .. MaxAttempts
      BY <2>1, AttemptsAssumption
    <2>3. job' \in [Runs -> JobRows]
      <3> DEFINE recovered == RecoveredJobs
      <3>1. recovered \in [Runs -> JobRows] /\ recovered[r].attempts + 1 \in 0 .. MaxAttempts
        BY <2>2, RecoveriesAreTyped
      <3>2. job' = [recovered EXCEPT ![r].status = "running", ![r].live = TRUE,
                                     ![r].attempts = @ + 1]
        BY <1>2 DEF ClaimReviewJob
      <3> HIDE DEF recovered
      <3> QED BY <3>1, <3>2 DEF JobRows, JobStatuses
    <2>4. worker' \in [Workers -> WorkerStates]
      BY <1>2, <2>2 DEF ClaimReviewJob, TypeOK, WorkerStates, Stages, Stops, Errors
    <2>5. run' \in [Runs -> RunRows]
      BY <1>2, RecoveriesAreTyped DEF ClaimReviewJob
    <2> QED BY <1>2, <2>3, <2>4, <2>5 DEF TypeOK, ClaimReviewJob
  <1> QED BY <1>1, <1>2

LEMMA WorkerStepsAreTyped ==
    ASSUME TypeOK, NEW w \in Workers,
           WorkerStep(w) \/ HeartbeatReviewJob(w) \/ StopWorker(w)
    PROVE  TypeOK'
  <1> DEFINE r == worker[w].run
  <1>1. r \in Runs /\ worker[w].attempt \in 0 .. MaxAttempts
    BY DEF TypeOK, WorkerStates
  <1>2. \A error \in Errors, pc \in Stages :
            Throw(w, pc, error) => worker' \in [Workers -> WorkerStates]
    BY MovesAreTyped
  <1>3. \A pc \in Stages : Goto(w, pc) => worker' \in [Workers -> WorkerStates]
    BY MovesAreTyped
  <1>4. Rest(w) => worker' \in [Workers -> WorkerStates]
    BY MovesAreTyped DEF Stages
  <1>5. \A outcome \in Outcomes : Concluded(r, outcome) \in [Runs -> [Attempts -> Outcomes]]
    BY <1>1, AttemptsAreTyped
  <1>6. \A pc \in Stages : Refused(w, pc) => /\ worker' \in [Workers -> WorkerStates]
                                             /\ UNCHANGED <<run, tries, route>>
    BY <1>2 DEF Refused, Errors
  <1>7. \A outcome \in Outcomes :
            [route EXCEPT ![r][worker[w].attempt] = outcome] \in [Runs -> [Attempts -> Outcomes]]
    BY <1>1 DEF TypeOK
  <1>27. \A status \in RunStatuses : [run EXCEPT ![r].status = status] \in [Runs -> RunRows]
    BY <1>1 DEF TypeOK, RunRows
  <1>28. /\ run \in [Runs -> RunRows]
         /\ [run EXCEPT ![r].status = "running"] \in [Runs -> RunRows]
         /\ [run EXCEPT ![r].status = "failed"] \in [Runs -> RunRows]
    BY <1>27 DEF TypeOK, RunStatuses, Ended
  <1> HIDE DEF r
  <1>8. CASE BeginExecutionAttempt(w)
    <2>1. [tries EXCEPT ![r] = Superseded(r, worker[w].attempt)]
              \in [Runs -> [Attempts -> Outcomes]]
      BY <1>1, AttemptsAreTyped DEF TypeOK, Outcomes
    <2>2. tries' \in [Runs -> [Attempts -> Outcomes]]
      BY <1>8, <2>1 DEF BeginExecutionAttempt, Refused, TypeOK, r
    <2>3. worker' \in [Workers -> WorkerStates]
      BY <1>8, <1>2, <1>3, <1>6 DEF BeginExecutionAttempt, Stages, Errors
    <2> QED BY <1>8, <2>2, <2>3 DEF TypeOK, BeginExecutionAttempt, Refused
  <1>9. CASE ReadPreparedRun(w)
    <2>1. worker' \in [Workers -> WorkerStates]
      BY <1>9, <1>2, <1>3 DEF ReadPreparedRun, Stages, Errors
    <2> QED BY <1>9, <2>1 DEF TypeOK, ReadPreparedRun
  <1>10. CASE StartAnalyzing(w)
    <2>1. worker' \in [Workers -> WorkerStates]
      BY <1>10, <1>3, <1>6 DEF StartAnalyzing, Stages
    <2> QED BY <1>10, <2>1 DEF TypeOK, StartAnalyzing, Refused
  <1>11. CASE OpenModelAttempt(w)
    <2>1. worker' \in [Workers -> WorkerStates]
      BY <1>11, <1>3, <1>6 DEF OpenModelAttempt, Stages
    <2>2. route' \in [Runs -> [Attempts -> Outcomes]]
      BY <1>11, <1>7 DEF OpenModelAttempt, Refused, TypeOK, Outcomes, r
    <2> QED BY <1>11, <2>1, <2>2 DEF TypeOK, OpenModelAttempt, Refused
  <1>12. CASE ExecuteRuntime(w)
    <2>1. worker' \in [Workers -> WorkerStates]
      BY <1>12, <1>2, <1>3 DEF ExecuteRuntime, Stages, Errors
    <2> QED BY <1>12, <2>1 DEF TypeOK, ExecuteRuntime
  <1>13. CASE FinishModelAttempt(w)
    <2>1. worker' \in [Workers -> WorkerStates]
      BY <1>13, <1>3, <1>6 DEF FinishModelAttempt, Stages
    <2>2. route' \in [Runs -> [Attempts -> Outcomes]]
      BY <1>13, <1>7 DEF FinishModelAttempt, Refused, TypeOK, Outcomes, r
    <2> QED BY <1>13, <2>1, <2>2 DEF TypeOK, FinishModelAttempt, Refused
  <1>14. CASE CommitResult(w)
    <2>1. PICK blocking \in BOOLEAN :
             /\ run' = [run EXCEPT
                   ![r].status = IF blocking THEN "waiting_clarification" ELSE "succeeded",
                   ![r].result = worker[w].attempt, ![r].blocking = blocking,
                   ![r].transition = IF blocking THEN @ ELSE "pending"]
             /\ Goto(w, IF blocking THEN "respond" ELSE "finalize")
      BY <1>14 DEF CommitResult, r
    <2>2. run' \in [Runs -> RunRows]
      <3> DEFINE attempt == worker[w].attempt
                 status == IF blocking THEN "waiting_clarification" ELSE "succeeded"
                 transition == IF blocking THEN run[r].transition ELSE "pending"
      <3>1. /\ attempt \in 0 .. MaxAttempts /\ status \in RunStatuses
            /\ transition \in Transitions
        BY <1>1 DEF RunStatuses, Ended, Transitions, TypeOK, RunRows
      <3>2. run' = [run EXCEPT ![r].status = status, ![r].result = attempt,
                               ![r].blocking = blocking, ![r].transition = transition]
        BY <1>1, <2>1 DEF TypeOK, RunRows
      <3> HIDE DEF attempt, status, transition
      <3> QED BY <1>1, <3>1, <3>2, RunUpdatesAreTyped
    <2>3. worker' \in [Workers -> WorkerStates]
      BY <2>1, <1>3 DEF Stages
    <2>4. tries' \in [Runs -> [Attempts -> Outcomes]]
      BY <1>14, <1>5 DEF CommitResult, Outcomes, r
    <2> QED BY <1>14, <2>2, <2>3, <2>4 DEF TypeOK, CommitResult
  <1>15. CASE RejectResult(w)
    <2>1. worker' \in [Workers -> WorkerStates]
      BY <1>15, <1>2 DEF RejectResult, Stages, Errors
    <2> QED BY <1>15, <2>1 DEF TypeOK, RejectResult
  <1>16. CASE WorkerNotifies(w)
    <2>1. PICK next \in {"design", "settle_transition", "transition_failed", "done"} :
             /\ Notify(r, worker[w].pc, next)
             /\ Goto(w, IF next = "done" THEN "respond" ELSE next)
      BY <1>16 DEF WorkerNotifies, r
    <2>2. run' \in [Runs -> RunRows]
      BY <1>1, <2>1, NotificationsAreTyped
    <2>3. worker' \in [Workers -> WorkerStates]
      BY <2>1, <1>3 DEF Stages
    <2> QED BY <1>16, <2>2, <2>3 DEF TypeOK, WorkerNotifies
  <1>17. CASE Respond(w)
    <2>1. worker' \in [Workers -> WorkerStates]
      BY <1>17, <1>3 DEF Respond, Stages
    <2> QED BY <1>17, <2>1 DEF TypeOK, Respond
  <1>18. CASE FailRun(w)
    <2>1. worker' \in [Workers -> WorkerStates]
      BY <1>18, <1>3, <1>6 DEF FailRun, Stages
    <2>2. run' \in [Runs -> RunRows]
      <3>1. \/ run' = run
            \/ run' = [run EXCEPT ![r].status = "running"]
            \/ run' = [run EXCEPT ![r].status = "failed"]
        BY <1>18 DEF FailRun, Refused, r
      <3> QED BY <3>1, <1>28
    <2>3. tries' \in [Runs -> [Attempts -> Outcomes]]
      BY <1>18, <1>5 DEF FailRun, Refused, TypeOK, Outcomes, r
    <2> QED BY <1>18, <2>1, <2>2, <2>3 DEF TypeOK, FailRun, Refused
  <1>19. CASE FailPreparedRun(w)
    <2>1. worker' \in [Workers -> WorkerStates]
      BY <1>19, <1>3 DEF FailPreparedRun, AfterFailure, Stages
    <2>2. run' \in [Runs -> RunRows]
      <3>1. run' = run \/ run' = [run EXCEPT ![r].status = "failed"]
        BY <1>19 DEF FailPreparedRun, r
      <3> QED BY <3>1, <1>28
    <2>3. tries' \in [Runs -> [Attempts -> Outcomes]]
      BY <1>19, <1>5 DEF FailPreparedRun, TypeOK, Outcomes, r
    <2> QED BY <1>19, <2>1, <2>2, <2>3 DEF TypeOK, FailPreparedRun
  <1>20. CASE Requeue(w)
    BY <1>20, <1>4, ReleasedJobsAreTyped DEF Requeue, TypeOK, JobStatuses
  <1>21. CASE GiveUp(w)
    BY <1>21, <1>4, ReleasedJobsAreTyped DEF GiveUp, TypeOK, JobStatuses
  <1>22. CASE Finish(w)
    BY <1>22, <1>4, ReleasedJobsAreTyped DEF Finish, TypeOK, JobStatuses
  <1>23. CASE SettleStoppedWork(w)
    <2>1. job' \in [Runs -> JobRows]
      BY <1>23, ReleasedJobsAreTyped DEF SettleStoppedWork, TypeOK, JobStatuses
    <2> QED BY <1>23, <1>4, <2>1 DEF SettleStoppedWork, TypeOK
  <1>24. \A reason \in Stops : Abort(w, reason) => TypeOK'
    <2> SUFFICES ASSUME NEW reason \in Stops, Abort(w, reason) PROVE TypeOK'
      OBVIOUS
    <2>1. worker \in [Workers -> WorkerStates] BY DEF TypeOK
    <2>2. worker' \in [Workers -> WorkerStates]
      BY <2>1 DEF Abort, WorkerStates
    <2> QED BY <2>2 DEF Abort, TypeOK
  <1>25. CASE HeartbeatReviewJob(w)
    BY <1>25, <1>24 DEF HeartbeatReviewJob, Stops, Infrastructure
  <1>26. CASE StopWorker(w)
    BY <1>26, <1>24 DEF StopWorker, Stops, Infrastructure
  <1> QED
    BY <1>8, <1>9, <1>10, <1>11, <1>12, <1>13, <1>14, <1>15, <1>16, <1>17, <1>18, <1>19,
       <1>20, <1>21, <1>22, <1>23, <1>25, <1>26 DEF WorkerStep

LEMMA FaultsAreTyped ==
    ASSUME TypeOK,
           \/ CrashApi
           \/ \E w \in Workers : CrashWorker(w) \/ FailToRespond(w) \/ LosePreparedFailure(w)
    PROVE  TypeOK'
  <1>1. \A kind : Fault(kind) => faults' \in 0 .. MaxFaults
    BY FaultsAssumption DEF TypeOK, Fault
  <1>2. CASE CrashApi
    BY <1>1, <1>2 DEF TypeOK, CrashApi, DeskStages
  <1>3. ASSUME NEW w \in Workers, CrashWorker(w) \/ FailToRespond(w) \/ LosePreparedFailure(w)
        PROVE  TypeOK'
    <2>1. worker' \in [Workers -> WorkerStates]
      BY <1>3, MovesAreTyped
      DEF CrashWorker, FailToRespond, LosePreparedFailure, AfterFailure, Stages, Errors
    <2> QED BY <1>1, <1>3, <2>1 DEF TypeOK, CrashWorker, FailToRespond, LosePreparedFailure
  <1> QED BY <1>2, <1>3

\* Every variable stays in its range (TypeOK), for every number of runs, workers
\* and attempts: the range of the attempt counter is what makes run tokens work.
THEOREM AnalysisRunTypes == Spec => []TypeOK
  <1>1. TypeOK /\ [Next]_vars => TypeOK'
    <2> SUFFICES ASSUME TypeOK, [Next]_vars PROVE TypeOK' OBVIOUS
    <2>1. CASE Next
      BY <2>1, ApiStepsAreTyped, ClaimsAreTyped, WorkerStepsAreTyped, FaultsAreTyped DEF Next
    <2>2. CASE UNCHANGED vars
      BY <2>2 DEF TypeOK, vars
    <2> QED BY <2>1, <2>2
  <1> QED BY <1>1, InitIsTyped, PTL DEF Spec

--------------------------------------------------------------------------------
(***************************************************************************)
(* The history of execution attempts.                                       *)
(***************************************************************************)

\* An attempt has an entry only if a claim has drawn its number.
EntriesWereDrawn ==
    \A r \in Runs : \A n \in Attempts : tries[r][n] # "none" => n <= job[r].attempts

HistoryInv == TypeOK /\ EntriesWereDrawn /\ OnlyNewestAttemptRuns

\* What a step can do to the history: leave it while attempt counters grow,
\* conclude the newest running attempt, or open the attempt last drawn.
Keeps == tries' = tries /\ \A r \in Runs : job'[r].attempts >= job[r].attempts
Concludes ==
    job' = job /\ \E r \in Runs, outcome \in {"succeeded", "failed"} :
                     tries' = Concluded(r, outcome)
Opens ==
    job' = job /\ \E r \in Runs : tries' = [tries EXCEPT ![r] = Superseded(r, job[r].attempts)]

LEMMA QueueKeepsCounters ==
    ASSUME TypeOK, NEW w \in Workers, NEW status
    PROVE  /\ \A r \in Runs : ReleasedJob(w)[r].attempts >= job[r].attempts
           /\ \A r \in Runs : FinishedJob(w, status)[r].attempts >= job[r].attempts
  <1>1. job \in [Runs -> JobRows] /\ \A r \in Runs : job[r].attempts \in Nat
    BY AttemptsAssumption DEF TypeOK, JobRows
  <1> QED BY <1>1 DEF ReleasedJob, FinishedJob, JobRows

LEMMA OtherStepsKeep ==
    ASSUME TypeOK,
           \/ \E r \in Runs :
                 \/ CreateRun(r) \/ EnqueueReviewJob(r)
                 \/ AskCancel(r) \/ CancelReviewJob(r) \/ CancelRun(r)
                 \/ Answer(r) \/ RetryTransition(r) \/ DeskStep(r) \/ LeaseExpires(r)
           \/ CrashApi \/ UNCHANGED vars
    PROVE  Keeps
  <1>1. job \in [Runs -> JobRows] /\ \A r \in Runs : job[r].attempts \in Nat
    BY AttemptsAssumption DEF TypeOK, JobRows
  <1>2. job' = job => \A r \in Runs : job'[r].attempts >= job[r].attempts
    BY <1>1
  <1>3. ASSUME NEW r \in Runs, EnqueueReviewJob(r) \/ LeaseExpires(r) PROVE Keeps
    BY <1>1, <1>3 DEF Keeps, EnqueueReviewJob, LeaseExpires, JobRows
  <1>4. ASSUME NEW r \in Runs, CancelReviewJob(r) PROVE Keeps
    BY <1>1, <1>4 DEF Keeps, CancelReviewJob, JobRows
  <1>5. ASSUME NEW r \in Runs,
               \/ CreateRun(r) \/ AskCancel(r) \/ CancelRun(r) \/ Answer(r)
               \/ RetryTransition(r) \/ DeskStep(r)
        PROVE  Keeps
    BY <1>2, <1>5 DEF Keeps, CreateRun, AskCancel, CancelRun, Answer, RetryTransition,
                      DeskStep, Tell, DeskNotifies, DeskRetries
  <1>6. CASE CrashApi \/ UNCHANGED vars
    BY <1>2, <1>6 DEF Keeps, CrashApi, vars
  <1> QED BY <1>3, <1>4, <1>5, <1>6

LEMMA ClaimsKeep ==
    ASSUME TypeOK, NEW w \in Workers,
           ClaimNothing(w) \/ \E r \in Runs : ClaimReviewJob(w, r)
    PROVE  Keeps
  <1>1. \A r \in Runs : job[r].attempts \in Nat
    BY AttemptsAssumption DEF TypeOK, JobRows
  <1>2. CASE ClaimNothing(w)
    BY <1>1, <1>2, RecoveriesAreTyped DEF Keeps, ClaimNothing
  <1>3. ASSUME NEW r \in Runs, ClaimReviewJob(w, r) PROVE Keeps
    <2> DEFINE recovered == RecoveredJobs
    <2>1. /\ recovered \in [Runs -> JobRows]
          /\ \A s \in Runs : recovered[s].attempts = job[s].attempts
      BY RecoveriesAreTyped
    <2>2. job' = [recovered EXCEPT ![r].status = "running", ![r].live = TRUE,
                                   ![r].attempts = @ + 1]
      BY <1>3 DEF ClaimReviewJob
    <2>3. tries' = tries BY <1>3 DEF ClaimReviewJob
    <2> HIDE DEF recovered
    <2>4. \A s \in Runs : job'[s].attempts >= job[s].attempts
      BY <1>1, <2>1, <2>2 DEF JobRows
    <2> QED BY <2>3, <2>4 DEF Keeps
  <1> QED BY <1>2, <1>3

LEMMA WorkerStepsMoveTheHistory ==
    ASSUME TypeOK, NEW w \in Workers,
           \/ WorkerStep(w) \/ HeartbeatReviewJob(w) \/ StopWorker(w)
           \/ CrashWorker(w) \/ FailToRespond(w) \/ LosePreparedFailure(w)
    PROVE  Keeps \/ Concludes \/ Opens
  <1>1. worker[w].run \in Runs
    BY DEF TypeOK, WorkerStates
  <1>2. job' = job => \A r \in Runs : job'[r].attempts >= job[r].attempts
    BY AttemptsAssumption DEF TypeOK, JobRows
  <1>3. CASE BeginExecutionAttempt(w)
    <2>1. job' = job BY <1>3 DEF BeginExecutionAttempt
    <2>2. \/ tries' = tries
          \/ /\ Fenced(w)
             /\ tries' = [tries EXCEPT ![worker[w].run] =
                             Superseded(worker[w].run, worker[w].attempt)]
      BY <1>3 DEF BeginExecutionAttempt, Refused
    <2> QED BY <1>1, <1>2, <2>1, <2>2 DEF Fenced, Owns, Keeps, Opens
  <1>4. CASE CommitResult(w)
    BY <1>1, <1>4 DEF CommitResult, Concludes
  <1>5. CASE FailRun(w)
    <2>1. job' = job /\ (tries' = tries \/ tries' = Concluded(worker[w].run, "failed"))
      BY <1>5 DEF FailRun, Refused
    <2> QED BY <1>1, <1>2, <2>1 DEF Keeps, Concludes
  <1>6. CASE FailPreparedRun(w)
    <2>1. job' = job /\ (tries' = tries \/ tries' = Concluded(worker[w].run, "failed"))
      BY <1>6 DEF FailPreparedRun
    <2> QED BY <1>1, <1>2, <2>1 DEF Keeps, Concludes
  <1>7. CASE Requeue(w) \/ GiveUp(w) \/ Finish(w) \/ SettleStoppedWork(w)
    <2>1. tries' = tries
      BY <1>7 DEF Requeue, GiveUp, Finish, SettleStoppedWork
    <2>2. job' = job \/ job' = ReleasedJob(w) \/ \E status : job' = FinishedJob(w, status)
      BY <1>7 DEF Requeue, GiveUp, Finish, SettleStoppedWork
    <2> QED BY <1>2, <2>1, <2>2, QueueKeepsCounters DEF Keeps
  <1>8. CASE \/ ReadPreparedRun(w) \/ StartAnalyzing(w) \/ OpenModelAttempt(w)
             \/ ExecuteRuntime(w) \/ FinishModelAttempt(w) \/ RejectResult(w)
             \/ WorkerNotifies(w) \/ Respond(w)
    <2>1. tries' = tries /\ job' = job
      BY <1>8 DEF ReadPreparedRun, StartAnalyzing, OpenModelAttempt, ExecuteRuntime,
                  FinishModelAttempt, RejectResult, WorkerNotifies, Respond, Refused
    <2> QED BY <1>2, <2>1 DEF Keeps
  <1>9. CASE \/ HeartbeatReviewJob(w) \/ StopWorker(w)
             \/ CrashWorker(w) \/ FailToRespond(w) \/ LosePreparedFailure(w)
    <2>1. tries' = tries /\ job' = job
      BY <1>9 DEF HeartbeatReviewJob, StopWorker, Abort, CrashWorker, FailToRespond,
                  LosePreparedFailure
    <2> QED BY <1>2, <2>1 DEF Keeps
  <1> QED BY <1>3, <1>4, <1>5, <1>6, <1>7, <1>8, <1>9 DEF WorkerStep

LEMMA MovesPreserveTheHistory ==
    ASSUME HistoryInv, TypeOK', Keeps \/ Concludes \/ Opens
    PROVE  EntriesWereDrawn' /\ OnlyNewestAttemptRuns'
  <1>1. /\ tries \in [Runs -> [Attempts -> Outcomes]]
        /\ \A r \in Runs : job[r].attempts \in Nat /\ job'[r].attempts \in Nat
    BY AttemptsAssumption DEF HistoryInv, TypeOK, JobRows
  <1>2. CASE Keeps
    <2>1. EntriesWereDrawn'
      BY <1>1, <1>2 DEF Keeps, HistoryInv, EntriesWereDrawn, Attempts
    <2> QED BY <1>2, <2>1 DEF Keeps, HistoryInv, OnlyNewestAttemptRuns
  <1>3. ASSUME NEW r \in Runs, NEW outcome \in {"succeeded", "failed"},
               job' = job, tries' = Concluded(r, outcome)
        PROVE  EntriesWereDrawn' /\ OnlyNewestAttemptRuns'
    <2>1. \A s \in Runs, n \in Attempts :
             /\ tries'[s][n] = "none" <=> tries[s][n] = "none"
             /\ tries'[s][n] = "running" => tries[s][n] = "running"
      BY <1>1, <1>3 DEF Concluded, LatestRunning
    <2> QED BY <1>3, <2>1 DEF HistoryInv, EntriesWereDrawn, OnlyNewestAttemptRuns
  <1>4. ASSUME NEW r \in Runs, job' = job,
               tries' = [tries EXCEPT ![r] = Superseded(r, job[r].attempts)]
        PROVE  EntriesWereDrawn' /\ OnlyNewestAttemptRuns'
    <2>1. \A s \in Runs \ {r} : tries'[s] = tries[s]
      BY <1>1, <1>4
    <2>2. \A n \in Attempts :
             tries'[r][n] = IF n = job[r].attempts THEN "running"
                            ELSE IF tries[r][n] = "running" /\ n < job[r].attempts
                                 THEN "failed" ELSE tries[r][n]
      BY <1>1, <1>4 DEF Superseded
    <2>3. \A n \in Attempts : tries'[r][n] # "none" => n <= job[r].attempts
      BY <1>1, <2>2 DEF HistoryInv, EntriesWereDrawn, Attempts
    <2>4. \A n \in Attempts : tries'[r][n] = "running" => n = job[r].attempts
      BY <1>1, <2>2 DEF HistoryInv, EntriesWereDrawn, Attempts
    <2>5. EntriesWereDrawn'
      BY <1>4, <2>1, <2>3 DEF HistoryInv, EntriesWereDrawn
    <2>6. \A n, m \in Attempts :
             tries'[r][n] = "running" /\ n < m => tries'[r][m] = "none"
      BY <1>1, <2>3, <2>4 DEF Attempts
    <2> QED BY <2>1, <2>5, <2>6 DEF HistoryInv, OnlyNewestAttemptRuns
  <1> QED BY <1>2, <1>3, <1>4 DEF Concludes, Opens

\* For every number of runs, workers and attempts, and whatever crashes, the
\* history of a run never shows two execution attempts running, and an older one
\* is closed before the next is opened (beginExecutionAttempt).
THEOREM OnlyTheNewestAttemptRuns == Spec => []OnlyNewestAttemptRuns
  <1>1. Init => EntriesWereDrawn /\ OnlyNewestAttemptRuns
    BY DEF Init, EntriesWereDrawn, OnlyNewestAttemptRuns
  <1>2. HistoryInv /\ TypeOK' /\ [Next]_vars => HistoryInv'
    <2> SUFFICES ASSUME HistoryInv, TypeOK', [Next]_vars PROVE HistoryInv' OBVIOUS
    <2>1. TypeOK BY DEF HistoryInv
    <2>2. Keeps \/ Concludes \/ Opens
      <3>1. CASE Next
        BY <2>1, <3>1, OtherStepsKeep, ClaimsKeep, WorkerStepsMoveTheHistory DEF Next
      <3>2. CASE UNCHANGED vars
        BY <2>1, <3>2, OtherStepsKeep
      <3> QED BY <3>1, <3>2
    <2> QED BY <2>2, MovesPreserveTheHistory DEF HistoryInv
  <1> QED BY <1>1, <1>2, AnalysisRunTypes, PTL DEF Spec, HistoryInv

--------------------------------------------------------------------------------
(***************************************************************************)
(* Stopped workers.                                                         *)
(***************************************************************************)

\* An idle worker carries no stop signal: the next claim starts afresh.
IdleIsNotStopped == \A w \in Workers : worker[w].pc = "idle" => worker[w].stop = "none"

StopInv == TypeOK /\ IdleIsNotStopped

\* What one step of a stopped worker leaves alone.
Settled(w) ==
    worker[w].stop \in Infrastructure /\ worker'[w] # worker[w] =>
        /\ run'[worker[w].run].status = run[worker[w].run].status
        /\ route'[worker[w].run] = route[worker[w].run]

LEMMA StepsKeepIdleUnstopped ==
    ASSUME StopInv, [Next]_vars
    PROVE  IdleIsNotStopped'
  <1>1. worker \in [Workers -> WorkerStates] BY DEF StopInv, TypeOK
  <1>2. worker' = worker => IdleIsNotStopped'
    BY DEF StopInv, IdleIsNotStopped
  <1>3. ASSUME NEW w \in Workers, NEW pc, pc # "idle", Goto(w, pc)
        PROVE  IdleIsNotStopped'
    BY <1>1, <1>3 DEF StopInv, IdleIsNotStopped, Goto, WorkerStates
  <1>4. ASSUME NEW w \in Workers, NEW pc, NEW error, pc # "idle", Throw(w, pc, error)
        PROVE  IdleIsNotStopped'
    BY <1>1, <1>4 DEF StopInv, IdleIsNotStopped, Throw, WorkerStates
  <1>5. ASSUME NEW w \in Workers, Rest(w) PROVE IdleIsNotStopped'
    BY <1>1, <1>5 DEF StopInv, IdleIsNotStopped, Rest
  <1>6. ASSUME NEW w \in Workers, NEW reason, Abort(w, reason) PROVE IdleIsNotStopped'
    BY <1>1, <1>6 DEF StopInv, IdleIsNotStopped, Abort, WorkerStates
  <1>7. ASSUME NEW w \in Workers, NEW r \in Runs, ClaimReviewJob(w, r)
        PROVE  IdleIsNotStopped'
    BY <1>1, <1>7 DEF StopInv, IdleIsNotStopped, ClaimReviewJob
  <1>8. ASSUME NEW w \in Workers, WorkerStep(w) PROVE IdleIsNotStopped'
    <2>1. CASE BeginExecutionAttempt(w)
      BY <2>1, <1>3, <1>4 DEF BeginExecutionAttempt, Refused
    <2>2. CASE ReadPreparedRun(w)
      BY <2>2, <1>3, <1>4 DEF ReadPreparedRun
    <2>3. CASE StartAnalyzing(w)
      BY <2>3, <1>3, <1>4 DEF StartAnalyzing, Refused
    <2>4. CASE OpenModelAttempt(w)
      BY <2>4, <1>3, <1>4 DEF OpenModelAttempt, Refused
    <2>5. CASE ExecuteRuntime(w)
      BY <2>5, <1>3, <1>4 DEF ExecuteRuntime
    <2>6. CASE FinishModelAttempt(w)
      BY <2>6, <1>3, <1>4 DEF FinishModelAttempt, Refused
    <2>7. CASE CommitResult(w)
      BY <2>7, <1>3 DEF CommitResult
    <2>8. CASE RejectResult(w)
      BY <2>8, <1>4 DEF RejectResult
    <2>9. CASE WorkerNotifies(w)
      BY <2>9, <1>3 DEF WorkerNotifies
    <2>10. CASE Respond(w)
      BY <2>10, <1>3 DEF Respond
    <2>11. CASE FailRun(w)
      BY <2>11, <1>3, <1>4 DEF FailRun, Refused
    <2>12. CASE FailPreparedRun(w)
      BY <2>12, <1>3 DEF FailPreparedRun, AfterFailure
    <2>13. CASE Requeue(w) \/ GiveUp(w) \/ Finish(w) \/ SettleStoppedWork(w)
      BY <2>13, <1>5 DEF Requeue, GiveUp, Finish, SettleStoppedWork
    <2> QED
      BY <1>8, <2>1, <2>2, <2>3, <2>4, <2>5, <2>6, <2>7, <2>8, <2>9, <2>10, <2>11, <2>12,
         <2>13 DEF WorkerStep
  <1>9. ASSUME NEW w \in Workers,
               \/ ClaimNothing(w) \/ HeartbeatReviewJob(w) \/ StopWorker(w)
               \/ CrashWorker(w) \/ FailToRespond(w) \/ LosePreparedFailure(w)
        PROVE  IdleIsNotStopped'
    BY <1>9, <1>2, <1>3, <1>4, <1>5, <1>6
    DEF ClaimNothing, HeartbeatReviewJob, StopWorker, CrashWorker, FailToRespond,
        LosePreparedFailure, AfterFailure
  <1>10. ASSUME NEW r \in Runs,
                \/ CreateRun(r) \/ EnqueueReviewJob(r)
                \/ AskCancel(r) \/ CancelReviewJob(r) \/ CancelRun(r)
                \/ Answer(r) \/ RetryTransition(r) \/ DeskStep(r) \/ LeaseExpires(r)
         PROVE  IdleIsNotStopped'
    BY <1>2, <1>10 DEF CreateRun, EnqueueReviewJob, AskCancel, CancelReviewJob, CancelRun,
        Answer, RetryTransition, DeskStep, Tell, DeskNotifies, DeskRetries, LeaseExpires
  <1>11. CASE CrashApi \/ UNCHANGED vars
    BY <1>2, <1>11 DEF CrashApi, vars
  <1> QED BY <1>7, <1>8, <1>9, <1>10, <1>11 DEF Next

LEMMA NotificationsKeepTheStatus ==
    ASSUME TypeOK, NEW r \in Runs, NEW stage, NEW next, Notify(r, stage, next)
    PROVE  run'[r].status = run[r].status
  <1>1. run \in [Runs -> RunRows] BY DEF TypeOK
  <1> QED BY <1>1 DEF Notify, Finalized, Designed, RunRows

LEMMA OthersLeaveAWorkerAlone ==
    ASSUME TypeOK, NEW w \in Workers, NEW v \in Workers, v # w,
           \/ WorkerStep(v) \/ ClaimNothing(v) \/ \E r \in Runs : ClaimReviewJob(v, r)
           \/ HeartbeatReviewJob(v) \/ StopWorker(v)
           \/ CrashWorker(v) \/ FailToRespond(v) \/ LosePreparedFailure(v)
    PROVE  worker'[w] = worker[w]
  <1>1. worker \in [Workers -> WorkerStates] BY DEF TypeOK
  <1>2. ASSUME NEW value, worker' = [worker EXCEPT ![v] = value]
        PROVE  worker'[w] = worker[w]
    BY <1>1, <1>2
  <1>3. /\ \A pc : Goto(v, pc) => worker'[w] = worker[w]
        /\ \A pc, error : Throw(v, pc, error) => worker'[w] = worker[w]
        /\ Rest(v) => worker'[w] = worker[w]
        /\ \A reason : Abort(v, reason) => worker'[w] = worker[w]
    BY <1>1 DEF Goto, Throw, Rest, Abort
  <1>4. CASE \/ BeginExecutionAttempt(v) \/ ReadPreparedRun(v) \/ StartAnalyzing(v)
             \/ OpenModelAttempt(v) \/ ExecuteRuntime(v) \/ FinishModelAttempt(v)
    BY <1>3, <1>4 DEF BeginExecutionAttempt, ReadPreparedRun, StartAnalyzing,
                      OpenModelAttempt, ExecuteRuntime, FinishModelAttempt, Refused
  <1>5. CASE \/ CommitResult(v) \/ RejectResult(v) \/ WorkerNotifies(v) \/ Respond(v)
             \/ FailRun(v) \/ FailPreparedRun(v)
    BY <1>3, <1>5 DEF CommitResult, RejectResult, WorkerNotifies, Respond, FailRun,
                      FailPreparedRun, Refused
  <1>6. CASE Requeue(v) \/ GiveUp(v) \/ Finish(v) \/ SettleStoppedWork(v)
    BY <1>3, <1>6 DEF Requeue, GiveUp, Finish, SettleStoppedWork
  <1>7. CASE \/ HeartbeatReviewJob(v) \/ StopWorker(v)
             \/ CrashWorker(v) \/ FailToRespond(v) \/ LosePreparedFailure(v)
    BY <1>3, <1>7 DEF HeartbeatReviewJob, StopWorker, CrashWorker, FailToRespond,
                      LosePreparedFailure
  <1>8. CASE ClaimNothing(v) \/ \E r \in Runs : ClaimReviewJob(v, r)
    BY <1>1, <1>8 DEF ClaimNothing, ClaimReviewJob
  <1> QED BY <1>4, <1>5, <1>6, <1>7, <1>8 DEF WorkerStep

LEMMA AStoppedWorkerSettlesNothing ==
    ASSUME StopInv, NEW w \in Workers, worker[w].stop \in Infrastructure,
           \/ WorkerStep(w) \/ ClaimNothing(w) \/ \E r \in Runs : ClaimReviewJob(w, r)
           \/ HeartbeatReviewJob(w) \/ StopWorker(w)
           \/ CrashWorker(w) \/ FailToRespond(w) \/ LosePreparedFailure(w)
    PROVE  Settled(w)
  <1>1. worker[w].stop # "none" BY DEF Infrastructure
  <1>2. worker[w].pc # "idle" BY <1>1 DEF StopInv, IdleIsNotStopped
  <1>3. \A pc : ~At(w, pc) BY <1>1 DEF At
  <1>4. worker[w].run \in Runs BY DEF StopInv, TypeOK, WorkerStates
  <1>5. CASE WorkerNotifies(w)
    <2>1. PICK next : Notify(worker[w].run, worker[w].pc, next)
      BY <1>5 DEF WorkerNotifies
    <2>2. run'[worker[w].run].status = run[worker[w].run].status
      BY <1>4, <2>1, NotificationsKeepTheStatus DEF StopInv
    <2> QED BY <1>5, <2>2 DEF WorkerNotifies, Settled
  <1>6. CASE \/ ReadPreparedRun(w) \/ StartAnalyzing(w) \/ Respond(w) \/ Requeue(w)
             \/ GiveUp(w) \/ SettleStoppedWork(w) \/ CrashWorker(w) \/ FailToRespond(w)
    BY <1>6 DEF ReadPreparedRun, StartAnalyzing, Refused, Respond, Requeue, GiveUp,
                SettleStoppedWork, CrashWorker, FailToRespond, Settled
  <1>7. CASE \/ BeginExecutionAttempt(w) \/ OpenModelAttempt(w) \/ ExecuteRuntime(w)
             \/ FinishModelAttempt(w) \/ CommitResult(w) \/ RejectResult(w) \/ FailRun(w)
             \/ FailPreparedRun(w) \/ Finish(w) \/ LosePreparedFailure(w)
    BY <1>3, <1>7 DEF BeginExecutionAttempt, OpenModelAttempt, ExecuteRuntime,
        FinishModelAttempt, CommitResult, RejectResult, FailRun, FailPreparedRun, Finish,
        LosePreparedFailure
  <1>8. CASE ClaimNothing(w) \/ \E r \in Runs : ClaimReviewJob(w, r)
    BY <1>2, <1>8 DEF ClaimNothing, ClaimReviewJob
  <1>9. CASE HeartbeatReviewJob(w) \/ StopWorker(w)
    BY <1>1, <1>9 DEF HeartbeatReviewJob, StopWorker, Abort
  <1> QED BY <1>5, <1>6, <1>7, <1>8, <1>9 DEF WorkerStep

LEMMA ApiLeavesWorkersAlone ==
    ASSUME \/ \E r \in Runs :
                 \/ CreateRun(r) \/ EnqueueReviewJob(r)
                 \/ AskCancel(r) \/ CancelReviewJob(r) \/ CancelRun(r)
                 \/ Answer(r) \/ RetryTransition(r) \/ DeskStep(r) \/ LeaseExpires(r)
           \/ CrashApi \/ UNCHANGED vars
    PROVE  worker' = worker
  BY DEF CreateRun, EnqueueReviewJob, AskCancel, CancelReviewJob, CancelRun, Answer,
         RetryTransition, DeskStep, Tell, DeskNotifies, DeskRetries, LeaseExpires, CrashApi, vars

\* For every number of runs and workers: a worker stopped by its infrastructure
\* ends neither its run nor its model attempt (throwIfWorkerStopped stands before
\* every transaction that would, and settleStoppedWork writes the queue only).
THEOREM StoppedWorkIsLeftForRecovery == Spec => StoppedWorkSettlesNothing
  <1>1. Init => IdleIsNotStopped
    BY DEF Init, IdleIsNotStopped
  <1>2. StopInv /\ TypeOK' /\ [Next]_vars => StopInv'
    BY StepsKeepIdleUnstopped DEF StopInv
  <1>3. StopInv /\ [Next]_vars => \A w \in Workers : Settled(w)
    <2> SUFFICES ASSUME StopInv, [Next]_vars, NEW w \in Workers,
                        worker[w].stop \in Infrastructure, worker'[w] # worker[w]
                 PROVE  Settled(w)
      BY DEF Settled
    <2>1. TypeOK BY DEF StopInv
    <2> QED
      BY <2>1, ApiLeavesWorkersAlone, OthersLeaveAWorkerAlone, AStoppedWorkerSettlesNothing
      DEF Next
  <1>4. StopInv /\ [Next]_vars =>
           [\A w \in Workers : worker[w].stop \in Infrastructure /\ worker'[w] # worker[w] =>
                /\ run'[worker[w].run].status = run[worker[w].run].status
                /\ route'[worker[w].run] = route[worker[w].run]]_vars
    BY <1>3 DEF Settled
  <1> QED
    BY <1>1, <1>2, <1>4, AnalysisRunTypes, PTL DEF Spec, StopInv, StoppedWorkSettlesNothing

--------------------------------------------------------------------------------
(***************************************************************************)
(* The keeper of a running run.                                             *)
(***************************************************************************)

\* The two faults that really leave a run running with nobody to end it.
NoLostWrites == "api_crash" \notin Faults /\ "write_failure" \notin Faults

Busy(w) == worker[w].pc # "idle"
Publishing == {"finalize", "design", "settle_transition", "transition_failed",
               "respond", "finish"}

\* A busy worker holds a number that its job has drawn, and nobody else's.
AttemptsWereDrawn ==
    \A w \in Workers : Busy(w) => worker[w].attempt <= job[worker[w].run].attempts
AttemptsDiffer ==
    \A v, w \in Workers :
        v # w /\ Busy(v) /\ Busy(w) /\ worker[v].run = worker[w].run
            => worker[v].attempt # worker[w].attempt

\* Before start() has enqueued it, a run has no job and no cancellation.
UnbornHaveNoJob ==
    \A r \in Runs : request[r] \in {"none", "created"} =>
        job[r].status = "absent" /\ ~job[r].cancelAsked

\* A running run whose job was asked to stop is about to be cancelled.
CancellationIsPending ==
    \A r \in Runs : job[r].cancelAsked /\ run[r].status = "running" => cancel[r] = "flagged"

\* The owner of a job finishes it only when the run needs it no more.
GivenUpRunsEnd ==
    \A w \in Workers : worker[w].pc = "give_up" /\ Owns(w) =>
        run[worker[w].run].status # "running" \/ cancel[worker[w].run] # "idle"
PublishingRunsEnded ==
    \A w \in Workers : worker[w].pc \in Publishing /\ Owns(w) =>
        run[worker[w].run].status # "running"

KeeperInv ==
    /\ TypeOK
    /\ AttemptsWereDrawn /\ AttemptsDiffer
    /\ UnbornHaveNoJob /\ CancellationIsPending
    /\ GivenUpRunsEnd /\ PublishingRunsEnded
    /\ RunHasAKeeper

\* A worker that neither claims nor ends anything: it stays where it is, rests,
\* or moves on with its run and attempt, at most within the publishing stages.
Strolls(w) ==
    \/ worker'[w] = worker[w]
    \/ worker'[w].pc = "idle"
    \/ /\ Busy(w)
       /\ worker'[w].run = worker[w].run /\ worker'[w].attempt = worker[w].attempt
       /\ worker'[w].pc = "give_up" => worker[w].pc = "give_up"
       /\ worker'[w].pc \in Publishing => worker[w].pc \in Publishing

NoRunStarts == \A r \in Runs : run'[r].status = "running" => run[r].status = "running"

Quiet ==
    /\ UNCHANGED <<job, request, cancel>>
    /\ NoRunStarts
    /\ \A w \in Workers : Strolls(w)

LEMMA QuietStepsPreserve ==
    ASSUME KeeperInv, TypeOK', Quiet
    PROVE  KeeperInv'
  <1>1. AttemptsWereDrawn' /\ AttemptsDiffer'
    BY DEF KeeperInv, Quiet, Strolls, AttemptsWereDrawn, AttemptsDiffer, Busy
  <1>2. UnbornHaveNoJob' /\ CancellationIsPending' /\ RunHasAKeeper'
    BY DEF KeeperInv, Quiet, NoRunStarts, UnbornHaveNoJob, CancellationIsPending, RunHasAKeeper
  <1>3. \A w \in Workers : worker'[w].pc # "idle" /\ Owns(w)' =>
           Owns(w) /\ worker'[w].run = worker[w].run
    BY DEF Quiet, Strolls, Owns
  <1>4. \A w \in Workers : worker[w].run \in Runs
    BY DEF KeeperInv, TypeOK, WorkerStates
  <1>5. GivenUpRunsEnd'
    BY <1>3, <1>4 DEF KeeperInv, Quiet, Strolls, NoRunStarts, GivenUpRunsEnd
  <1>6. PublishingRunsEnded'
    BY <1>3, <1>4 DEF KeeperInv, Quiet, Strolls, NoRunStarts, PublishingRunsEnded, Publishing
  <1> QED BY <1>1, <1>2, <1>5, <1>6 DEF KeeperInv

\* How a worker's own moves look from outside.
LEMMA MovesStroll ==
    ASSUME TypeOK, NEW w \in Workers, NEW pc, Busy(w), pc \notin {"give_up"} \union Publishing
    PROVE  /\ Goto(w, pc) => \A v \in Workers : Strolls(v)
           /\ \A error : Throw(w, pc, error) => \A v \in Workers : Strolls(v)
  <1>1. worker \in [Workers -> WorkerStates] BY DEF TypeOK
  <1>2. Goto(w, pc) => \A v \in Workers : Strolls(v)
    BY <1>1 DEF Goto, Strolls, WorkerStates
  <1>3. \A error : Throw(w, pc, error) => \A v \in Workers : Strolls(v)
    BY <1>1 DEF Throw, Strolls, WorkerStates
  <1> QED BY <1>2, <1>3

LEMMA OtherMovesStroll ==
    ASSUME TypeOK, NEW w \in Workers
    PROVE  /\ Rest(w) => \A v \in Workers : Strolls(v)
           /\ \A reason : Abort(w, reason) => \A v \in Workers : Strolls(v)
           /\ \A pc : worker[w].pc \in Publishing /\ pc # "give_up" /\ Goto(w, pc)
                 => \A v \in Workers : Strolls(v)
           /\ worker' = worker => \A v \in Workers : Strolls(v)
  <1>1. worker \in [Workers -> WorkerStates] BY DEF TypeOK
  <1>2. Rest(w) => \A v \in Workers : Strolls(v)
    BY <1>1 DEF Rest, Strolls
  <1>3. \A reason : Abort(w, reason) => \A v \in Workers : Strolls(v)
    BY <1>1 DEF Abort, Strolls, WorkerStates, Busy
  <1>4. \A pc : worker[w].pc \in Publishing /\ pc # "give_up" /\ Goto(w, pc)
           => \A v \in Workers : Strolls(v)
    BY <1>1 DEF Goto, Strolls, WorkerStates, Busy, Publishing
  <1>5. worker' = worker => \A v \in Workers : Strolls(v)
    BY DEF Strolls
  <1> QED BY <1>2, <1>3, <1>4, <1>5

LEMMA NotificationsStartNothing ==
    ASSUME TypeOK, NEW r \in Runs, NEW stage, NEW next, Notify(r, stage, next)
    PROVE  NoRunStarts
  <1>1. run \in [Runs -> RunRows] BY DEF TypeOK
  <1> QED BY <1>1 DEF Notify, Finalized, Designed, RunRows, NoRunStarts

LEMMA DeskIsQuiet ==
    ASSUME TypeOK, NEW r \in Runs, Answer(r) \/ RetryTransition(r) \/ DeskStep(r)
    PROVE  Quiet
  <1>1. run \in [Runs -> RunRows] BY DEF TypeOK
  <1>2. CASE Answer(r)
    BY <1>1, <1>2 DEF Answer, Quiet, NoRunStarts, Strolls, RunRows
  <1>3. CASE RetryTransition(r) \/ Tell(r)
    BY <1>3 DEF RetryTransition, Tell, Quiet, NoRunStarts, Strolls
  <1>4. CASE DeskNotifies(r)
    BY <1>4, NotificationsStartNothing DEF DeskNotifies, Quiet, Strolls
  <1>5. CASE DeskRetries(r)
    <2>1. NoRunStarts
      BY <1>1, <1>5 DEF DeskRetries, Designed, RunRows, NoRunStarts
    <2> QED BY <1>5, <2>1 DEF DeskRetries, Quiet, Strolls
  <1> QED BY <1>2, <1>3, <1>4, <1>5 DEF DeskStep

LEMMA WorkerIsQuiet ==
    ASSUME TypeOK, NEW w \in Workers,
           \/ BeginExecutionAttempt(w) \/ ReadPreparedRun(w) \/ StartAnalyzing(w)
           \/ OpenModelAttempt(w) \/ ExecuteRuntime(w) \/ FinishModelAttempt(w)
           \/ RejectResult(w) \/ WorkerNotifies(w) \/ Respond(w)
           \/ HeartbeatReviewJob(w) \/ StopWorker(w)
           \/ CrashWorker(w) \/ FailToRespond(w)
    PROVE  Quiet
  <1>1. run' = run => NoRunStarts BY DEF NoRunStarts
  <1>2. CASE BeginExecutionAttempt(w)
    BY <1>1, <1>2, MovesStroll
    DEF BeginExecutionAttempt, Refused, At, Busy, Publishing, Quiet
  <1>3. CASE ReadPreparedRun(w)
    BY <1>1, <1>3, MovesStroll DEF ReadPreparedRun, Busy, Publishing, Quiet
  <1>4. CASE StartAnalyzing(w)
    BY <1>1, <1>4, MovesStroll DEF StartAnalyzing, Refused, Busy, Publishing, Quiet
  <1>5. CASE OpenModelAttempt(w)
    BY <1>1, <1>5, MovesStroll DEF OpenModelAttempt, Refused, At, Busy, Publishing, Quiet
  <1>6. CASE ExecuteRuntime(w)
    BY <1>1, <1>6, MovesStroll DEF ExecuteRuntime, At, Busy, Publishing, Quiet
  <1>7. CASE FinishModelAttempt(w)
    BY <1>1, <1>7, MovesStroll DEF FinishModelAttempt, Refused, At, Busy, Publishing, Quiet
  <1>8. CASE RejectResult(w)
    BY <1>1, <1>8, MovesStroll DEF RejectResult, At, Busy, Publishing, Quiet
  <1>9. CASE WorkerNotifies(w)
    <2>1. PICK next \in {"design", "settle_transition", "transition_failed", "done"} :
             /\ Notify(worker[w].run, worker[w].pc, next)
             /\ Goto(w, IF next = "done" THEN "respond" ELSE next)
      BY <1>9 DEF WorkerNotifies
    <2>2. worker[w].run \in Runs BY DEF TypeOK, WorkerStates
    <2>3. NoRunStarts BY <2>1, <2>2, NotificationsStartNothing
    <2>4. worker[w].pc \in Publishing BY <2>1 DEF Notify, Publishing
    <2>5. \A v \in Workers : Strolls(v) BY <2>1, <2>4, OtherMovesStroll
    <2> QED BY <1>9, <2>3, <2>5 DEF WorkerNotifies, Quiet
  <1>10. CASE Respond(w)
    BY <1>1, <1>10, OtherMovesStroll DEF Respond, Publishing, Quiet
  <1>11. CASE HeartbeatReviewJob(w) \/ StopWorker(w)
    <2>1. PICK reason : Abort(w, reason) BY <1>11 DEF HeartbeatReviewJob, StopWorker
    <2> QED BY <1>1, <2>1, OtherMovesStroll DEF Abort, Quiet
  <1>12. CASE CrashWorker(w)
    BY <1>1, <1>12, OtherMovesStroll DEF CrashWorker, Quiet
  <1>13. CASE FailToRespond(w)
    BY <1>1, <1>13, MovesStroll DEF FailToRespond, Busy, Publishing, Quiet
  <1> QED
    BY <1>2, <1>3, <1>4, <1>5, <1>6, <1>7, <1>8, <1>9, <1>10, <1>11, <1>12, <1>13

\* A job may lose its holder in a step, but gains none and draws no number.
Persists(w) ==
    \/ worker'[w] = worker[w]
    \/ worker'[w].pc = "idle"
    \/ Busy(w) /\ worker'[w].run = worker[w].run /\ worker'[w].attempt = worker[w].attempt

NoNewHolds ==
    \A r \in Runs :
        /\ job'[r].attempts = job[r].attempts
        /\ job'[r].status = "running" /\ job'[r].live =>
              job[r].status = "running" /\ job[r].live

LEMMA HoldsOnlyShrink ==
    ASSUME TypeOK, AttemptsWereDrawn, AttemptsDiffer,
           NoNewHolds, \A w \in Workers : Persists(w)
    PROVE  /\ AttemptsWereDrawn' /\ AttemptsDiffer'
           /\ \A w \in Workers : worker'[w].pc # "idle" /\ Owns(w)' =>
                 /\ Owns(w) /\ Busy(w)
                 /\ worker'[w].run = worker[w].run /\ worker'[w].attempt = worker[w].attempt
  <1>1. \A w \in Workers : worker[w].run \in Runs
    BY DEF TypeOK, WorkerStates
  <1>2. AttemptsWereDrawn'
    BY <1>1 DEF NoNewHolds, Persists, AttemptsWereDrawn, Busy
  <1>3. AttemptsDiffer'
    BY DEF Persists, AttemptsDiffer, Busy
  <1>4. \A w \in Workers : worker'[w].pc # "idle" /\ Owns(w)' =>
           /\ Owns(w) /\ Busy(w)
           /\ worker'[w].run = worker[w].run /\ worker'[w].attempt = worker[w].attempt
    BY <1>1 DEF NoNewHolds, Persists, Owns, Busy
  <1> QED BY <1>2, <1>3, <1>4

LEMMA ApiPreserves ==
    ASSUME KeeperInv, TypeOK', NEW r \in Runs,
           \/ CreateRun(r) \/ EnqueueReviewJob(r) \/ AskCancel(r)
           \/ CancelReviewJob(r) \/ CancelRun(r) \/ LeaseExpires(r)
    PROVE  KeeperInv'
  <1>1. /\ run \in [Runs -> RunRows] /\ job \in [Runs -> JobRows]
        /\ cancel \in [Runs -> {"idle", "asked", "flagged"}]
        /\ request \in [Runs -> {"none", "created", "enqueued", "lost"}]
        /\ \A w \in Workers : worker[w].run \in Runs
    BY DEF KeeperInv, TypeOK, WorkerStates
  <1>2. \A w \in Workers : Persists(w) /\ worker'[w] = worker[w]
    BY DEF CreateRun, EnqueueReviewJob, AskCancel, CancelReviewJob, CancelRun, LeaseExpires,
           Persists
  <1>3. NoNewHolds
    <2>1. CASE CreateRun(r) \/ AskCancel(r) \/ CancelRun(r)
      BY <2>1 DEF CreateRun, AskCancel, CancelRun, NoNewHolds
    <2>2. CASE EnqueueReviewJob(r)
      BY <1>1, <2>2 DEF EnqueueReviewJob, NoNewHolds, JobRows
    <2>3. CASE CancelReviewJob(r)
      BY <1>1, <2>3 DEF CancelReviewJob, NoNewHolds, JobRows
    <2>4. CASE LeaseExpires(r)
      BY <1>1, <2>4 DEF LeaseExpires, NoNewHolds, JobRows
    <2> QED BY <2>1, <2>2, <2>3, <2>4
  <1>4. /\ AttemptsWereDrawn' /\ AttemptsDiffer'
        /\ \A w \in Workers : worker'[w].pc # "idle" /\ Owns(w)' => Owns(w)
    BY <1>2, <1>3, HoldsOnlyShrink DEF KeeperInv
  <1>5. CASE CreateRun(r)
    <2>1. UnbornHaveNoJob' /\ CancellationIsPending' /\ RunHasAKeeper'
      BY <1>1, <1>5 DEF KeeperInv, CreateRun, UnbornHaveNoJob, CancellationIsPending,
                        RunHasAKeeper
    <2>2. \A w \in Workers : Owns(w) => worker[w].run # r
      BY <1>5 DEF KeeperInv, CreateRun, UnbornHaveNoJob, Owns
    <2>3. \A s \in Runs : s # r => run'[s] = run[s]
      BY <1>1, <1>5 DEF CreateRun
    <2>4. GivenUpRunsEnd' /\ PublishingRunsEnded'
      BY <1>1, <1>2, <1>4, <1>5, <2>2, <2>3
      DEF KeeperInv, CreateRun, GivenUpRunsEnd, PublishingRunsEnded, Publishing
    <2> QED BY <1>4, <2>1, <2>4 DEF KeeperInv
  <1>6. CASE EnqueueReviewJob(r)
    <2>1. UnbornHaveNoJob' /\ CancellationIsPending' /\ RunHasAKeeper'
      BY <1>1, <1>6 DEF KeeperInv, EnqueueReviewJob, UnbornHaveNoJob, CancellationIsPending,
                        RunHasAKeeper, JobRows
    <2>2. GivenUpRunsEnd' /\ PublishingRunsEnded'
      BY <1>2, <1>4, <1>6
      DEF KeeperInv, EnqueueReviewJob, GivenUpRunsEnd, PublishingRunsEnded, Publishing
    <2> QED BY <1>4, <2>1, <2>2 DEF KeeperInv
  <1>7. CASE AskCancel(r)
    <2>1. UnbornHaveNoJob' /\ CancellationIsPending' /\ RunHasAKeeper'
      BY <1>1, <1>7 DEF KeeperInv, AskCancel, UnbornHaveNoJob, CancellationIsPending,
                        RunHasAKeeper
    <2>2. GivenUpRunsEnd' /\ PublishingRunsEnded'
      BY <1>1, <1>2, <1>4, <1>7
      DEF KeeperInv, AskCancel, GivenUpRunsEnd, PublishingRunsEnded, Publishing
    <2> QED BY <1>4, <2>1, <2>2 DEF KeeperInv
  <1>8. CASE CancelReviewJob(r)
    <2>1. UnbornHaveNoJob' /\ CancellationIsPending' /\ RunHasAKeeper'
      BY <1>1, <1>8 DEF KeeperInv, CancelReviewJob, UnbornHaveNoJob, CancellationIsPending,
                        RunHasAKeeper, JobRows
    <2>2. GivenUpRunsEnd' /\ PublishingRunsEnded'
      BY <1>1, <1>2, <1>4, <1>8
      DEF KeeperInv, CancelReviewJob, GivenUpRunsEnd, PublishingRunsEnded, Publishing
    <2> QED BY <1>4, <2>1, <2>2 DEF KeeperInv
  <1>9. CASE CancelRun(r)
    <2>1. run'[r].status # "running" /\ \A s \in Runs : s # r => run'[s] = run[s]
      BY <1>1, <1>9 DEF CancelRun, RunRows
    <2>2. \A s \in Runs : s # r => cancel'[s] = cancel[s]
      BY <1>1, <1>9 DEF CancelRun
    <2>3. UnbornHaveNoJob' /\ CancellationIsPending' /\ RunHasAKeeper'
      BY <1>9, <2>1, <2>2 DEF KeeperInv, CancelRun, UnbornHaveNoJob, CancellationIsPending,
                        RunHasAKeeper
    <2>4. GivenUpRunsEnd' /\ PublishingRunsEnded'
      BY <1>1, <1>2, <1>4, <1>9, <2>1, <2>2
      DEF KeeperInv, GivenUpRunsEnd, PublishingRunsEnded, Publishing
    <2> QED BY <1>4, <2>3, <2>4 DEF KeeperInv
  <1>10. CASE LeaseExpires(r)
    <2>1. UnbornHaveNoJob' /\ CancellationIsPending' /\ RunHasAKeeper'
      BY <1>1, <1>10 DEF KeeperInv, LeaseExpires, UnbornHaveNoJob, CancellationIsPending,
                        RunHasAKeeper, JobRows
    <2>2. GivenUpRunsEnd' /\ PublishingRunsEnded'
      BY <1>2, <1>4, <1>10
      DEF KeeperInv, LeaseExpires, GivenUpRunsEnd, PublishingRunsEnded, Publishing
    <2> QED BY <1>4, <2>1, <2>2 DEF KeeperInv
  <1> QED BY <1>5, <1>6, <1>7, <1>8, <1>9, <1>10

LEMMA OwnersAreUnique ==
    ASSUME AttemptsDiffer, NEW v \in Workers, NEW w \in Workers, Busy(v), Busy(w),
           Owns(v), Owns(w), worker[v].run = worker[w].run
    PROVE  v = w
  BY DEF AttemptsDiffer, Owns

\* A move changes where a worker is, never what it works on.
LEMMA MovesKeepTheWork ==
    ASSUME TypeOK, NEW w \in Workers, NEW pc
    PROVE  /\ Goto(w, pc) => /\ worker'[w].run = worker[w].run
                             /\ worker'[w].attempt = worker[w].attempt
                             /\ worker'[w].pc = pc
           /\ \A error : Throw(w, pc, error) =>
                             /\ worker'[w].run = worker[w].run
                             /\ worker'[w].attempt = worker[w].attempt
                             /\ worker'[w].pc = pc
  <1>1. worker \in [Workers -> WorkerStates] BY DEF TypeOK
  <1>2. Goto(w, pc) => /\ worker'[w].run = worker[w].run
                       /\ worker'[w].attempt = worker[w].attempt
                       /\ worker'[w].pc = pc
    BY <1>1 DEF Goto, WorkerStates
  <1>3. \A error : Throw(w, pc, error) => /\ worker'[w].run = worker[w].run
                                          /\ worker'[w].attempt = worker[w].attempt
                                          /\ worker'[w].pc = pc
    BY <1>1 DEF Throw, WorkerStates
  <1> QED BY <1>2, <1>3

LEMMA CommitsEndTheRun ==
    ASSUME TypeOK, NEW w \in Workers, CommitResult(w)
    PROVE  run'[worker[w].run].status # "running"
  <1> DEFINE r == worker[w].run
             attempt == worker[w].attempt
  <1>1. run \in [Runs -> RunRows] /\ r \in Runs BY DEF TypeOK, WorkerStates
  <1>2. PICK blocking \in BOOLEAN :
           run' = [run EXCEPT
                ![r].status = IF blocking THEN "waiting_clarification" ELSE "succeeded",
                ![r].result = attempt, ![r].blocking = blocking,
                ![r].transition = IF blocking THEN @ ELSE "pending"]
    BY DEF CommitResult
  <1> HIDE DEF r, attempt
  <1>3. run'[r].status \in {"waiting_clarification", "succeeded"}
    BY <1>1, <1>2 DEF RunRows
  <1> QED BY <1>3 DEF r

\* A worker's own step that may enter give_up or the publishing stages, or start the run.
LEMMA OutcomesPreserve ==
    ASSUME KeeperInv, TypeOK', NEW w \in Workers,
           CommitResult(w) \/ FailRun(w) \/ FailPreparedRun(w)
    PROVE  KeeperInv'
  <1> DEFINE r == worker[w].run
  <1>1. /\ run \in [Runs -> RunRows] /\ worker \in [Workers -> WorkerStates]
        /\ r \in Runs /\ \A v \in Workers : worker[v].run \in Runs
    BY DEF KeeperInv, TypeOK, WorkerStates
  <1>2. UNCHANGED <<job, request, cancel>>
    BY DEF CommitResult, FailRun, FailPreparedRun
  <1>3. Busy(w) /\ worker[w].stop = "none"
    BY DEF CommitResult, FailRun, FailPreparedRun, At, Busy
  <1>4. \A s \in Runs : s # r => run'[s] = run[s]
    BY <1>1 DEF CommitResult, FailRun, FailPreparedRun, Refused
  <1>5. \A v \in Workers : v # w => worker'[v] = worker[v]
    BY <1>1 DEF CommitResult, FailRun, FailPreparedRun, Refused, Goto, Throw
  <1>0. TypeOK BY DEF KeeperInv
  <1>6. worker'[w].run = r /\ worker'[w].attempt = worker[w].attempt
    BY <1>0, MovesKeepTheWork DEF CommitResult, FailRun, FailPreparedRun, Refused
  <1>7. /\ AttemptsWereDrawn' /\ AttemptsDiffer'
        /\ \A v \in Workers : worker'[v].pc # "idle" /\ Owns(v)' => Owns(v) /\ Busy(v)
    BY <1>2, <1>3, <1>5, <1>6, HoldsOnlyShrink
    DEF KeeperInv, NoNewHolds, Persists
  <1>8. run'[r].status = "running" /\ run[r].status # "running" =>
           Fenced(w) /\ worker[w].pc = "fail_run"
    <2>1. CASE CommitResult(w)
      BY <1>0, <2>1, CommitsEndTheRun
    <2>2. CASE FailRun(w)
      BY <2>2 DEF FailRun, Refused, At
    <2>3. CASE FailPreparedRun(w)
      BY <1>1, <2>3 DEF FailPreparedRun, RunRows
    <2> QED BY <2>1, <2>2, <2>3
  <1>9. worker'[w].pc = "give_up" /\ Owns(w) =>
           run'[r].status # "running" \/ cancel[r] # "idle"
    <2>1. CASE CommitResult(w)
      BY <1>0, <2>1, CommitsEndTheRun
    <2>2. CASE FailRun(w)
      <3>1. worker'[w].pc = "fail_prepared"
        BY <1>0, <2>2, MovesKeepTheWork DEF FailRun, Refused
      <3> QED BY <3>1
    <2>3. CASE FailPreparedRun(w) /\ Fenced(w)
      <3>1. worker'[w].pc = "give_up" => ~Retryable(w)
        BY <1>0, <2>3, MovesKeepTheWork DEF FailPreparedRun, AfterFailure
      <3>2. run[r].status # "running" => run' = run
        BY <2>3 DEF FailPreparedRun
      <3>3. run[r].status = "running" /\ ~Retryable(w) => run'[r].status = "failed"
        BY <1>1, <2>3 DEF FailPreparedRun, RunRows
      <3> QED BY <3>1, <3>2, <3>3
    <2>4. CASE FailPreparedRun(w) /\ ~Fenced(w)
      <3>1. run' = run BY <2>4 DEF FailPreparedRun
      <3>2. Owns(w) => job[r].cancelAsked BY <2>4 DEF Fenced
      <3> QED BY <1>1, <3>1, <3>2 DEF KeeperInv, CancellationIsPending
    <2> QED BY <2>1, <2>2, <2>3, <2>4
  <1>10. worker'[w].pc \in Publishing => run'[r].status # "running"
    <2>1. CASE CommitResult(w)
      BY <1>0, <2>1, CommitsEndTheRun
    <2>2. CASE FailRun(w)
      BY <1>0, <2>2, MovesKeepTheWork DEF FailRun, Refused, Publishing
    <2>3. CASE FailPreparedRun(w)
      BY <1>0, <2>3, MovesKeepTheWork DEF FailPreparedRun, AfterFailure, Publishing
    <2> QED BY <2>1, <2>2, <2>3
  <1>11. \A v \in Workers : v # w /\ Busy(v) /\ Owns(v) /\ worker[v].run = r =>
            (run'[r].status = "running" => run[r].status = "running")
    BY <1>3, <1>8, OwnersAreUnique DEF KeeperInv, Fenced
  <1>12. worker'[w].pc # "idle" /\ Owns(w)' => Owns(w)
    BY <1>7
  <1> HIDE DEF r
  <1>13. UnbornHaveNoJob' BY <1>2 DEF KeeperInv, UnbornHaveNoJob
  <1>14. CancellationIsPending'
    BY <1>2, <1>4, <1>8 DEF KeeperInv, CancellationIsPending, Fenced, r
  <1>15. RunHasAKeeper'
    BY <1>2, <1>4, <1>8 DEF KeeperInv, RunHasAKeeper, Fenced, Owns, r
  <1>16. GivenUpRunsEnd'
    <2> SUFFICES ASSUME NEW v \in Workers, worker'[v].pc = "give_up", Owns(v)'
                 PROVE  run'[worker'[v].run].status # "running" \/ cancel'[worker'[v].run] # "idle"
      BY DEF GivenUpRunsEnd
    <2>1. CASE v = w
      BY <1>2, <1>6, <1>9, <1>12, <2>1
    <2>2. CASE v # w
      BY <1>1, <1>2, <1>4, <1>5, <1>7, <1>11, <2>2 DEF KeeperInv, GivenUpRunsEnd
    <2> QED BY <2>1, <2>2
  <1>17. PublishingRunsEnded'
    <2> SUFFICES ASSUME NEW v \in Workers, worker'[v].pc \in Publishing, Owns(v)'
                 PROVE  run'[worker'[v].run].status # "running"
      BY DEF PublishingRunsEnded
    <2>1. CASE v = w
      BY <1>6, <1>10, <2>1
    <2>2. CASE v # w
      BY <1>1, <1>4, <1>5, <1>7, <1>11, <2>2 DEF KeeperInv, PublishingRunsEnded, Publishing
    <2> QED BY <2>1, <2>2
  <1> QED BY <1>7, <1>13, <1>14, <1>15, <1>16, <1>17 DEF KeeperInv

\* One job that leaves "running" disturbs no other and renews nobody's claim.
LEMMA SettledJob ==
    ASSUME TypeOK, NEW r \in Runs, NEW status, status # "running",
           job' = [job EXCEPT ![r].status = status, ![r].live = FALSE]
    PROVE  /\ NoNewHolds
           /\ \A s \in Runs : job'[s].cancelAsked = job[s].cancelAsked
           /\ \A s \in Runs : s # r => job'[s] = job[s]
           /\ job'[r].status = status
  <1>1. job \in [Runs -> JobRows] /\ job[r] \in JobRows BY DEF TypeOK
  <1>2. \A s \in Runs : s # r => job'[s] = job[s] BY <1>1
  <1>3. job'[r] = [job[r] EXCEPT !.status = status, !.live = FALSE]
    BY <1>1 DEF JobRows
  <1>4. /\ job'[r].attempts = job[r].attempts /\ job'[r].cancelAsked = job[r].cancelAsked
        /\ job'[r].status = status
    BY <1>1, <1>3 DEF JobRows
  <1>5. NoNewHolds BY <1>2, <1>4 DEF NoNewHolds
  <1> QED BY <1>2, <1>4, <1>5

LEMMA QueueSettlements ==
    ASSUME TypeOK, NEW w \in Workers, NEW status, status # "running",
           job' \in {job, ReleasedJob(w), FinishedJob(w, status)}
    PROVE  /\ NoNewHolds
           /\ \A s \in Runs : job'[s].cancelAsked = job[s].cancelAsked
           /\ \A s \in Runs : job'[s].status # job[s].status => s = worker[w].run /\ Owns(w)
           /\ job' \in {job, ReleasedJob(w)} => \A s \in Runs :
                 job[s].status \in {"queued", "running"} => job'[s].status \in {"queued", "running"}
  <1>1. worker[w].run \in Runs
    BY DEF TypeOK, WorkerStates
  <1>2. CASE job' = job
    BY <1>2 DEF NoNewHolds
  <1>3. CASE job' = ReleasedJob(w) /\ job' # job
    <2>1. /\ Owns(w)
          /\ job' = [job EXCEPT ![worker[w].run].status = "queued", ![worker[w].run].live = FALSE]
      BY <1>3 DEF ReleasedJob, Fenced
    <2>2. /\ NoNewHolds /\ job'[worker[w].run].status = "queued"
          /\ \A s \in Runs : job'[s].cancelAsked = job[s].cancelAsked
          /\ \A s \in Runs : s # worker[w].run => job'[s] = job[s]
      BY <1>1, <2>1, SettledJob
    <2> QED BY <2>1, <2>2
  <1>4. CASE job' = FinishedJob(w, status) /\ job' \notin {job, ReleasedJob(w)}
    <2>1. /\ Owns(w)
          /\ job' = [job EXCEPT ![worker[w].run].status = status, ![worker[w].run].live = FALSE]
      BY <1>4 DEF FinishedJob
    <2>2. /\ NoNewHolds
          /\ \A s \in Runs : job'[s].cancelAsked = job[s].cancelAsked
          /\ \A s \in Runs : s # worker[w].run => job'[s] = job[s]
      BY <1>1, <2>1, SettledJob
    <2> QED BY <1>4, <2>1, <2>2
  <1> QED BY <1>2, <1>3, <1>4

LEMMA QueuePreserves ==
    ASSUME KeeperInv, TypeOK', NEW w \in Workers,
           Requeue(w) \/ GiveUp(w) \/ Finish(w) \/ SettleStoppedWork(w)
    PROVE  KeeperInv'
  <1>1. /\ TypeOK /\ worker \in [Workers -> WorkerStates]
        /\ \A v \in Workers : worker[v].run \in Runs
    BY DEF KeeperInv, TypeOK, WorkerStates
  <1>2. UNCHANGED <<run, request, cancel>> /\ Rest(w)
    BY DEF Requeue, GiveUp, Finish, SettleStoppedWork
  <1>3. PICK status \in {"failed", "succeeded", "cancelled"} :
           /\ job' \in {job, ReleasedJob(w), FinishedJob(w, status)}
           /\ \/ job' \in {job, ReleasedJob(w)}
              \/ GiveUp(w)
              \/ Finish(w)
              \/ status = "cancelled"
    BY DEF Requeue, GiveUp, Finish, SettleStoppedWork
  <1>4. /\ NoNewHolds
        /\ \A s \in Runs : job'[s].cancelAsked = job[s].cancelAsked
        /\ \A s \in Runs : job'[s].status # job[s].status => s = worker[w].run /\ Owns(w)
        /\ job' \in {job, ReleasedJob(w)} => \A s \in Runs :
              job[s].status \in {"queued", "running"} => job'[s].status \in {"queued", "running"}
    BY <1>1, <1>3, QueueSettlements
  <1>5. \A v \in Workers : worker'[v].pc # "idle" => worker'[v] = worker[v]
    BY <1>1, <1>2 DEF Rest
  <1>6. \A v \in Workers : Persists(v)
    BY <1>5 DEF Persists
  <1>7. /\ AttemptsWereDrawn' /\ AttemptsDiffer'
        /\ \A v \in Workers : worker'[v].pc # "idle" /\ Owns(v)' => Owns(v) /\ Busy(v)
    BY <1>4, <1>6, HoldsOnlyShrink DEF KeeperInv
  <1>8. UnbornHaveNoJob' /\ CancellationIsPending'
    BY <1>2, <1>4 DEF KeeperInv, UnbornHaveNoJob, CancellationIsPending, Owns
  <1>9. GivenUpRunsEnd' /\ PublishingRunsEnded'
    BY <1>2, <1>5, <1>7 DEF KeeperInv, GivenUpRunsEnd, PublishingRunsEnded, Publishing
  <1>10. RunHasAKeeper'
    <2> SUFFICES ASSUME NEW s \in Runs, run[s].status = "running",
                        job'[s].status \notin {"queued", "running"},
                        request[s] # "created", cancel[s] = "idle"
                 PROVE  FALSE
      BY <1>2 DEF RunHasAKeeper
    <2>1. job[s].status \in {"queued", "running"}
      BY DEF KeeperInv, RunHasAKeeper
    <2>2. s = worker[w].run /\ Owns(w)
      BY <1>4, <2>1
    <2>3. job' \notin {job, ReleasedJob(w)}
      BY <1>4, <2>1
    <2>4. CASE GiveUp(w)
      BY <2>2, <2>4 DEF GiveUp, KeeperInv, GivenUpRunsEnd
    <2>5. CASE Finish(w)
      BY <2>2, <2>5 DEF Finish, At, KeeperInv, PublishingRunsEnded, Publishing
    <2>6. CASE status = "cancelled"
      <3>1. job[s].cancelAsked
        BY <1>3, <2>2, <2>3, <2>6 DEF FinishedJob
      <3> QED BY <3>1 DEF KeeperInv, CancellationIsPending
    <2> QED BY <1>3, <2>3, <2>4, <2>5, <2>6
  <1> QED BY <1>7, <1>8, <1>9, <1>10 DEF KeeperInv

\* What the recovery at the head of every claim does to a job and to its run.
LEMMA RecoveryEndsOrRequeues ==
    ASSUME TypeOK
    PROVE  \A s \in Runs :
             /\ RecoveredJobs[s].attempts = job[s].attempts
             /\ RecoveredJobs[s].cancelAsked = job[s].cancelAsked
             /\ RecoveredJobs[s].live = job[s].live
             /\ RecoveredJobs[s].status = "running" => job[s].status = "running" /\ job[s].live
             /\ RecoveredJobs[s].status = "absent" <=> job[s].status = "absent"
             /\ RecoveredRuns[s].status = "running" => run[s].status = "running"
             /\ /\ RecoveredRuns[s].status = "running"
                /\ job[s].status \in {"queued", "running"}
                => RecoveredJobs[s].status \in {"queued", "running"}
  <1> SUFFICES ASSUME NEW s \in Runs
               PROVE  /\ RecoveredJobs[s].attempts = job[s].attempts
                      /\ RecoveredJobs[s].cancelAsked = job[s].cancelAsked
                      /\ RecoveredJobs[s].live = job[s].live
                      /\ RecoveredJobs[s].status = "running" =>
                            job[s].status = "running" /\ job[s].live
                      /\ RecoveredJobs[s].status = "absent" <=> job[s].status = "absent"
                      /\ RecoveredRuns[s].status = "running" => run[s].status = "running"
                      /\ /\ RecoveredRuns[s].status = "running"
                         /\ job[s].status \in {"queued", "running"}
                         => RecoveredJobs[s].status \in {"queued", "running"}
    OBVIOUS
  <1>1. job[s] \in JobRows /\ run[s] \in RunRows BY DEF TypeOK
  <1>2. RecoveredStatus(s) \in {"cancelled", "failed", "queued"} BY DEF RecoveredStatus
  <1>3. CASE ~Expired(s)
    <2>1. RecoveredJobs[s] = job[s] /\ RecoveredRuns[s] = run[s]
      BY <1>3 DEF RecoveredJobs, RecoveredRuns
    <2> QED BY <1>1, <1>3, <2>1 DEF Expired, JobRows
  <1>4. CASE Expired(s)
    <2>1. /\ RecoveredJobs[s] = [job[s] EXCEPT !.status = RecoveredStatus(s)]
          /\ RecoveredRuns[s] = IF run[s].status = "running" /\ RecoveredStatus(s) # "queued"
                                THEN [run[s] EXCEPT !.status = RecoveredStatus(s)] ELSE run[s]
      BY <1>4 DEF RecoveredJobs, RecoveredRuns
    <2> DEFINE status == RecoveredStatus(s)
    <2>2. status \in {"cancelled", "failed", "queued"} BY <1>2
    <2> HIDE DEF status
    <2> QED BY <1>1, <1>4, <2>1, <2>2 DEF Expired, JobRows, RunRows, status
  <1> QED BY <1>3, <1>4

LEMMA ClaimNothingPreserves ==
    ASSUME KeeperInv, TypeOK', NEW w \in Workers, ClaimNothing(w)
    PROVE  KeeperInv'
  <1>1. TypeOK /\ \A v \in Workers : worker[v].run \in Runs
    BY DEF KeeperInv, TypeOK, WorkerStates
  <1>2. /\ job' = RecoveredJobs /\ run' = RecoveredRuns
        /\ UNCHANGED <<worker, request, cancel>>
    BY DEF ClaimNothing
  <1>3. \A s \in Runs :
             /\ job'[s].attempts = job[s].attempts
             /\ job'[s].cancelAsked = job[s].cancelAsked
             /\ job'[s].status = "running" => job[s].status = "running" /\ job[s].live
             /\ job'[s].status = "absent" <=> job[s].status = "absent"
             /\ run'[s].status = "running" => run[s].status = "running"
             /\ run'[s].status = "running" /\ job[s].status \in {"queued", "running"}
                => job'[s].status \in {"queued", "running"}
    BY <1>1, <1>2, RecoveryEndsOrRequeues
  <1>4. NoNewHolds BY <1>3 DEF NoNewHolds
  <1>5. \A v \in Workers : Persists(v) BY <1>2 DEF Persists
  <1>6. /\ AttemptsWereDrawn' /\ AttemptsDiffer'
        /\ \A v \in Workers : worker'[v].pc # "idle" /\ Owns(v)' => Owns(v)
    BY <1>4, <1>5, HoldsOnlyShrink DEF KeeperInv
  <1>7. UnbornHaveNoJob' /\ CancellationIsPending' /\ RunHasAKeeper'
    BY <1>2, <1>3 DEF KeeperInv, UnbornHaveNoJob, CancellationIsPending, RunHasAKeeper
  <1>8. GivenUpRunsEnd' /\ PublishingRunsEnded'
    BY <1>1, <1>2, <1>3, <1>6 DEF KeeperInv, GivenUpRunsEnd, PublishingRunsEnded, Publishing
  <1> QED BY <1>6, <1>7, <1>8 DEF KeeperInv

LEMMA ClaimPreserves ==
    ASSUME KeeperInv, TypeOK', NEW w \in Workers, NEW r \in Runs, ClaimReviewJob(w, r)
    PROVE  KeeperInv'
  <1>1. /\ TypeOK /\ worker \in [Workers -> WorkerStates]
        /\ \A v \in Workers : worker[v].run \in Runs /\ worker[v].attempt \in Nat
        /\ \A s \in Runs : job[s].attempts \in Nat
    BY AttemptsAssumption DEF KeeperInv, TypeOK, WorkerStates, JobRows
  <1>2. run' = RecoveredRuns /\ UNCHANGED <<request, cancel>>
    BY DEF ClaimReviewJob
  <1>3. /\ worker'[w].pc = "begin" /\ worker'[w].run = r
        /\ worker'[w].attempt = job[r].attempts + 1
        /\ \A v \in Workers : v # w => worker'[v] = worker[v]
    BY <1>1 DEF ClaimReviewJob
  <1>4. /\ job'[r].status = "running" /\ job'[r].attempts = job[r].attempts + 1
        /\ job'[r].cancelAsked = job[r].cancelAsked
        /\ \A s \in Runs : s # r => job'[s] = RecoveredJobs[s]
    <2> DEFINE recovered == RecoveredJobs
    <2>1. /\ recovered \in [Runs -> JobRows]
          /\ recovered[r].attempts = job[r].attempts
          /\ recovered[r].cancelAsked = job[r].cancelAsked
      BY <1>1, RecoveriesAreTyped, RecoveryEndsOrRequeues
    <2>2. job' = [recovered EXCEPT ![r].status = "running", ![r].live = TRUE,
                                   ![r].attempts = @ + 1]
      BY DEF ClaimReviewJob
    <2> HIDE DEF recovered
    <2>3. /\ job'[r].status = "running" /\ job'[r].attempts = recovered[r].attempts + 1
          /\ job'[r].cancelAsked = recovered[r].cancelAsked
          /\ \A s \in Runs : s # r => job'[s] = recovered[s]
      BY <2>1, <2>2 DEF JobRows
    <2> QED BY <2>1, <2>3 DEF recovered
  <1>5. \A s \in Runs :
             /\ s # r => job'[s].attempts = job[s].attempts
             /\ job'[s].cancelAsked = job[s].cancelAsked
             /\ s # r /\ job'[s].status = "running" => job[s].status = "running" /\ job[s].live
             /\ job'[s].status = "absent" <=> s # r /\ job[s].status = "absent"
             /\ run'[s].status = "running" => run[s].status = "running"
             /\ run'[s].status = "running" /\ job[s].status \in {"queued", "running"}
                => job'[s].status \in {"queued", "running"}
    BY <1>1, <1>2, <1>4, RecoveryEndsOrRequeues
  <1>6. job[r].status # "absent"
    BY <1>1, RecoveryEndsOrRequeues DEF ClaimReviewJob, Claimable
  <1>7. AttemptsWereDrawn'
    BY <1>1, <1>3, <1>4, <1>5 DEF KeeperInv, AttemptsWereDrawn, Busy
  <1>8. \A v \in Workers : v # w /\ Busy(v) /\ worker[v].run = r =>
           worker[v].attempt < job[r].attempts + 1
    BY <1>1 DEF KeeperInv, AttemptsWereDrawn
  <1>9. AttemptsDiffer'
    BY <1>1, <1>3, <1>8 DEF KeeperInv, AttemptsDiffer, Busy
  <1>10. \A v \in Workers : v # w /\ Busy(v) /\ Owns(v)' => Owns(v) /\ worker[v].run # r
    BY <1>1, <1>3, <1>4, <1>5, <1>8 DEF Owns
  <1>11. UnbornHaveNoJob' /\ CancellationIsPending' /\ RunHasAKeeper'
    BY <1>2, <1>5, <1>6 DEF KeeperInv, UnbornHaveNoJob, CancellationIsPending, RunHasAKeeper
  <1>12. GivenUpRunsEnd' /\ PublishingRunsEnded'
    BY <1>1, <1>2, <1>3, <1>5, <1>10
    DEF KeeperInv, GivenUpRunsEnd, PublishingRunsEnded, Publishing, Busy
  <1> QED BY <1>7, <1>9, <1>11, <1>12 DEF KeeperInv

LEMMA KeeperStarts == Init => KeeperInv
  <1> SUFFICES ASSUME Init PROVE KeeperInv OBVIOUS
  <1>1. AttemptsWereDrawn /\ AttemptsDiffer /\ GivenUpRunsEnd /\ PublishingRunsEnded
    BY DEF Init, AttemptsWereDrawn, AttemptsDiffer, Busy, GivenUpRunsEnd, PublishingRunsEnded,
           Publishing
  <1>2. UnbornHaveNoJob /\ CancellationIsPending /\ RunHasAKeeper
    BY DEF Init, UnbornHaveNoJob, CancellationIsPending, RunHasAKeeper
  <1> QED BY <1>1, <1>2, InitIsTyped DEF KeeperInv

\* For every number of runs, workers and attempts, and however often workers
\* crash and the read after a commit fails: as long as the HTTP process does not
\* crash between two transactions and failPreparedRun's write works, a running
\* run always has a creator, a queued or leased job, or a cancellation that will
\* end it.  KeeperInv is the inductive invariant: tokens are unique, only an
\* unfinished cancellation leaves the flag on a running run, and the owner of a
\* job reaches its end only after its run has ended.
THEOREM RunsHaveKeepers == ASSUME NoLostWrites PROVE Spec => []RunHasAKeeper
  <1>1. KeeperInv /\ TypeOK' /\ [Next]_vars => KeeperInv'
    <2> SUFFICES ASSUME KeeperInv, TypeOK', [Next]_vars PROVE KeeperInv' OBVIOUS
    <2>1. TypeOK BY DEF KeeperInv
    <2>2. Quiet => KeeperInv' BY QuietStepsPreserve
    <2>3. ASSUME NEW r \in Runs,
                 \/ CreateRun(r) \/ EnqueueReviewJob(r)
                 \/ AskCancel(r) \/ CancelReviewJob(r) \/ CancelRun(r)
                 \/ Answer(r) \/ RetryTransition(r) \/ DeskStep(r) \/ LeaseExpires(r)
          PROVE  KeeperInv'
      BY <2>1, <2>2, <2>3, ApiPreserves, DeskIsQuiet
    <2>4. ASSUME NEW w \in Workers,
                 \/ \E r \in Runs : ClaimReviewJob(w, r)
                 \/ ClaimNothing(w)
          PROVE  KeeperInv'
      BY <2>4, ClaimPreserves, ClaimNothingPreserves
    <2>5. ASSUME NEW w \in Workers, WorkerStep(w) PROVE KeeperInv'
      BY <2>1, <2>2, <2>5, WorkerIsQuiet, OutcomesPreserve, QueuePreserves DEF WorkerStep
    <2>6. ASSUME NEW w \in Workers,
                 \/ HeartbeatReviewJob(w) \/ StopWorker(w)
                 \/ CrashWorker(w) \/ FailToRespond(w)
          PROVE  KeeperInv'
      BY <2>1, <2>2, <2>6, WorkerIsQuiet
    <2>7. ~CrashApi /\ \A w \in Workers : ~LosePreparedFailure(w)
      BY DEF CrashApi, LosePreparedFailure, Fault, NoLostWrites
    <2>8. CASE UNCHANGED vars
      BY <2>2, <2>8 DEF vars, Quiet, NoRunStarts, Strolls
    <2> QED BY <2>3, <2>4, <2>5, <2>6, <2>7, <2>8 DEF Next
  <1>2. KeeperInv => RunHasAKeeper BY DEF KeeperInv
  <1> QED BY <1>1, <1>2, KeeperStarts, AnalysisRunTypes, PTL DEF Spec

--------------------------------------------------------------------------------
(***************************************************************************)
(* The result of a run and the release made of it.                          *)
(***************************************************************************)

\* Without this fault the read at the end of executeAnalysis works, and nobody
\* fails a run whose result has been committed.
NoReadFailure == "read_failure" \notin Faults

\* Where a worker executes an attempt: from its accepted start to its verdict.
Work == {"read", "start", "route", "execute", "routed", "route_failed", "commit", "fail_run"}

\* Before it is created a run has neither a result nor a job.
UnbornAreEmpty ==
    \A r \in Runs : request[r] = "none" =>
        run[r].status = "absent" /\ run[r].result = 0 /\ job[r].status = "absent"

\* A run that shows a result has ended, and the owner of its job executes nothing.
ShownRunsEnded ==
    \A r \in Runs : run[r].result # 0 => run[r].status \in {"waiting_clarification", "succeeded"}
ShownRunsRest ==
    \A w \in Workers : worker[w].pc \in Work /\ Owns(w) => run[worker[w].run].result = 0

ResultInv ==
    /\ TypeOK /\ AttemptsWereDrawn /\ AttemptsDiffer
    /\ UnbornAreEmpty /\ ShownRunsEnded /\ ShownRunsRest
    /\ ReleaseIsOfTheResult

\* What a step other than a commit does to the row of a run ...
Publishes(r) ==
    \/ run'[r].release = run[r].release /\ (run'[r].blocking => run[r].blocking)
    \/ run[r].release = 0 /\ run'[r].release = run[r].result /\ ~run'[r].blocking

Changes(r) ==
    /\ run'[r].result = run[r].result
    /\ \/ run'[r].status = run[r].status
       \/ run[r].result # 0 /\ run'[r].status = "succeeded"
       \/ /\ run[r].result = 0 /\ request'[r] # "none"
          /\ ~(run[r].status = "cancelled" /\ job[r].cancelAsked)

\* ... to what has not been created yet, and to a worker.
Unborn(r) ==
    /\ request'[r] = "none" => request[r] = "none"
    /\ job[r].status = "absent" => job'[r].status = "absent" \/ request'[r] # "none"

Withdraws(w) ==
    /\ Persists(w)
    /\ worker'[w].pc \in Work => worker[w].pc \in Work \/ run[worker[w].run].status = "running"

Tame ==
    /\ \A r \in Runs : Changes(r) /\ Unborn(r)
    /\ NoNewHolds
    /\ \A w \in Workers : Withdraws(w)

LEMMA TameStepsPreserve ==
    ASSUME ResultInv, TypeOK', Tame, \A r \in Runs : Publishes(r)
    PROVE  ResultInv'
  <1>1. \A w \in Workers : worker[w].run \in Runs
    BY DEF ResultInv, TypeOK, WorkerStates
  <1>2. /\ AttemptsWereDrawn' /\ AttemptsDiffer'
        /\ \A w \in Workers : worker'[w].pc # "idle" /\ Owns(w)' =>
              Owns(w) /\ Busy(w) /\ worker'[w].run = worker[w].run
    BY HoldsOnlyShrink DEF ResultInv, Tame, Withdraws
  <1>3. UnbornAreEmpty'
    BY DEF ResultInv, Tame, Changes, Unborn, UnbornAreEmpty
  <1>4. ShownRunsEnded'
    BY DEF ResultInv, Tame, Changes, ShownRunsEnded
  <1>5. ShownRunsRest'
    <2> SUFFICES ASSUME NEW w \in Workers, worker'[w].pc \in Work, Owns(w)'
                 PROVE  run'[worker'[w].run].result = 0
      BY DEF ShownRunsRest
    <2>1. Owns(w) /\ worker'[w].run = worker[w].run
      BY <1>2 DEF Work
    <2>2. run[worker[w].run].result = 0
      BY <1>1, <2>1 DEF ResultInv, Tame, Withdraws, ShownRunsRest, ShownRunsEnded
    <2> QED BY <1>1, <2>1, <2>2 DEF Tame, Changes
  <1>6. ReleaseIsOfTheResult'
    BY DEF ResultInv, Tame, Changes, Publishes, ReleaseIsOfTheResult
  <1> QED BY <1>2, <1>3, <1>4, <1>5, <1>6 DEF ResultInv

\* Notifications and answers, as the row of the run shows them.
LEMMA RowsOfNotifications ==
    ASSUME TypeOK, NEW r \in Runs, NEW stage, NEW next, Notify(r, stage, next)
    PROVE  \A s \in Runs : /\ Publishes(s)
                           /\ run'[s].result = run[s].result /\ run'[s].status = run[s].status
  <1>1. run \in [Runs -> RunRows] BY DEF TypeOK
  <1>2. CASE run' = run
    BY <1>2 DEF Publishes
  <1>3. CASE run' = Finalized(r) /\ Finalizable(r)
    BY <1>1, <1>3 DEF Finalized, Finalizable, Publishes, RunRows
  <1>4. CASE run' = Designed(r)
    BY <1>1, <1>4 DEF Designed, Publishes, RunRows
  <1>5. CASE \E transition : run' = [run EXCEPT ![r].transition = transition]
    BY <1>1, <1>5 DEF Publishes, RunRows
  <1> QED BY <1>2, <1>3, <1>4, <1>5 DEF Notify

LEMMA RowsOfTheDesk ==
    ASSUME TypeOK, NEW r \in Runs, Answer(r) \/ RetryTransition(r) \/ DeskStep(r)
    PROVE  \A s \in Runs : Publishes(s) /\ Changes(s)
  <1>1. run \in [Runs -> RunRows] BY DEF TypeOK
  <1>2. CASE Answer(r)
    BY <1>1, <1>2 DEF Answer, Publishes, Changes, RunRows
  <1>3. CASE RetryTransition(r) \/ Tell(r)
    BY <1>3 DEF RetryTransition, Tell, Publishes, Changes
  <1>4. CASE DeskNotifies(r)
    BY <1>4, RowsOfNotifications DEF DeskNotifies, Changes
  <1>5. CASE DeskRetries(r)
    <2>1. CASE run' = run
      BY <2>1 DEF Publishes, Changes
    <2>2. CASE run' = Designed(r)
      BY <1>1, <2>2 DEF Designed, Publishes, Changes, RunRows
    <2>3. CASE run' = [run EXCEPT ![r].transition = "succeeded"]
      BY <1>1, <2>3 DEF Publishes, Changes, RunRows
    <2> QED BY <1>5, <2>1, <2>2, <2>3 DEF DeskRetries
  <1> QED BY <1>2, <1>3, <1>4, <1>5 DEF DeskStep

\* What a step that leaves every row, or the whole queue, alone does not disturb.
LEMMA UntouchedRows ==
    /\ run' = run => \A r \in Runs : Publishes(r) /\ Changes(r)
    /\ UNCHANGED <<job, request>> => NoNewHolds /\ \A r \in Runs : Unborn(r)
  BY DEF Publishes, Changes, NoNewHolds, Unborn

LEMMA MovesWithdraw ==
    ASSUME TypeOK, NEW w \in Workers, NEW pc, Busy(w),
           pc \in Work => worker[w].pc \in Work \/ run[worker[w].run].status = "running"
    PROVE  /\ Goto(w, pc) => \A v \in Workers : Withdraws(v)
           /\ \A error : Throw(w, pc, error) => \A v \in Workers : Withdraws(v)
  <1>1. worker \in [Workers -> WorkerStates] BY DEF TypeOK
  <1>2. Goto(w, pc) => \A v \in Workers : Withdraws(v)
    BY <1>1 DEF Goto, Withdraws, Persists, WorkerStates
  <1>3. \A error : Throw(w, pc, error) => \A v \in Workers : Withdraws(v)
    BY <1>1 DEF Throw, Withdraws, Persists, WorkerStates
  <1> QED BY <1>2, <1>3

LEMMA RestsWithdraw ==
    ASSUME TypeOK, NEW w \in Workers
    PROVE  /\ Rest(w) => \A v \in Workers : Withdraws(v)
           /\ \A reason : Abort(w, reason) => \A v \in Workers : Withdraws(v)
           /\ worker' = worker => \A v \in Workers : Withdraws(v)
  <1>1. worker \in [Workers -> WorkerStates] BY DEF TypeOK
  <1>2. Rest(w) => \A v \in Workers : Withdraws(v)
    BY <1>1 DEF Rest, Withdraws, Persists, Work
  <1>3. \A reason : Abort(w, reason) => \A v \in Workers : Withdraws(v)
    BY <1>1 DEF Abort, Withdraws, Persists, WorkerStates, Busy
  <1>4. worker' = worker => \A v \in Workers : Withdraws(v)
    BY DEF Withdraws, Persists
  <1> QED BY <1>2, <1>3, <1>4

\* The steps of a worker that write no status.
LEMMA ExecutionIsTame ==
    ASSUME TypeOK, NEW w \in Workers,
           \/ BeginExecutionAttempt(w) \/ ReadPreparedRun(w) \/ StartAnalyzing(w)
           \/ OpenModelAttempt(w) \/ ExecuteRuntime(w) \/ FinishModelAttempt(w)
           \/ RejectResult(w) \/ WorkerNotifies(w) \/ Respond(w)
           \/ HeartbeatReviewJob(w) \/ StopWorker(w)
           \/ CrashWorker(w) \/ LosePreparedFailure(w)
    PROVE  Tame /\ \A r \in Runs : Publishes(r)
  <1>1. CASE BeginExecutionAttempt(w)
    <2>1. \A v \in Workers : Withdraws(v)
      BY <1>1, MovesWithdraw
      DEF BeginExecutionAttempt, Refused, Executable, At, Busy, Work
    <2> QED BY <1>1, <2>1, UntouchedRows DEF BeginExecutionAttempt, Refused, Tame
  <1>2. CASE ReadPreparedRun(w)
    <2>1. \A v \in Workers : Withdraws(v)
      BY <1>2, MovesWithdraw DEF ReadPreparedRun, Busy, Work
    <2> QED BY <1>2, <2>1, UntouchedRows DEF ReadPreparedRun, Tame
  <1>3. CASE StartAnalyzing(w)
    <2>1. \A v \in Workers : Withdraws(v)
      BY <1>3, MovesWithdraw DEF StartAnalyzing, Refused, Busy, Work
    <2> QED BY <1>3, <2>1, UntouchedRows DEF StartAnalyzing, Refused, Tame
  <1>4. CASE OpenModelAttempt(w)
    <2>1. \A v \in Workers : Withdraws(v)
      BY <1>4, MovesWithdraw DEF OpenModelAttempt, Refused, At, Busy, Work
    <2> QED BY <1>4, <2>1, UntouchedRows DEF OpenModelAttempt, Refused, Tame
  <1>5. CASE ExecuteRuntime(w) \/ RejectResult(w)
    <2>1. \A v \in Workers : Withdraws(v)
      BY <1>5, MovesWithdraw DEF ExecuteRuntime, RejectResult, At, Busy, Work
    <2> QED BY <1>5, <2>1, UntouchedRows DEF ExecuteRuntime, RejectResult, Tame
  <1>6. CASE FinishModelAttempt(w)
    <2>1. \A v \in Workers : Withdraws(v)
      BY <1>6, MovesWithdraw DEF FinishModelAttempt, Refused, At, Busy, Work
    <2> QED BY <1>6, <2>1, UntouchedRows DEF FinishModelAttempt, Refused, Tame
  <1>7. CASE WorkerNotifies(w)
    <2>1. PICK next \in {"design", "settle_transition", "transition_failed", "done"} :
             /\ Notify(worker[w].run, worker[w].pc, next)
             /\ Goto(w, IF next = "done" THEN "respond" ELSE next)
      BY <1>7 DEF WorkerNotifies
    <2>2. worker[w].run \in Runs BY DEF TypeOK, WorkerStates
    <2>3. \A r \in Runs : Publishes(r) /\ Changes(r)
      BY <2>1, <2>2, RowsOfNotifications DEF Changes
    <2>4. Busy(w) BY <2>1 DEF Notify, Busy
    <2>5. \A v \in Workers : Withdraws(v)
      BY <2>1, <2>4, MovesWithdraw DEF Work
    <2> QED BY <1>7, <2>3, <2>5, UntouchedRows DEF WorkerNotifies, Tame
  <1>8. CASE Respond(w)
    <2>1. \A v \in Workers : Withdraws(v)
      BY <1>8, MovesWithdraw DEF Respond, Busy, Work
    <2> QED BY <1>8, <2>1, UntouchedRows DEF Respond, Tame
  <1>9. CASE HeartbeatReviewJob(w) \/ StopWorker(w)
    <2>1. PICK reason : Abort(w, reason) BY <1>9 DEF HeartbeatReviewJob, StopWorker
    <2>2. \A v \in Workers : Withdraws(v) BY <2>1, RestsWithdraw
    <2> QED BY <2>1, <2>2, UntouchedRows DEF Abort, Tame
  <1>10. CASE CrashWorker(w)
    <2>1. \A v \in Workers : Withdraws(v) BY <1>10, RestsWithdraw DEF CrashWorker
    <2> QED BY <1>10, <2>1, UntouchedRows DEF CrashWorker, Tame
  <1>11. CASE LosePreparedFailure(w)
    <2>1. \A v \in Workers : Withdraws(v)
      BY <1>11, MovesWithdraw DEF LosePreparedFailure, AfterFailure, At, Busy, Work
    <2> QED BY <1>11, <2>1, UntouchedRows DEF LosePreparedFailure, Tame
  <1> QED
    BY <1>1, <1>2, <1>3, <1>4, <1>5, <1>6, <1>7, <1>8, <1>9, <1>10, <1>11

\* A failure is written only by the owner of the job, and only over a run
\* without a result.
LEMMA FailuresAreTame ==
    ASSUME ResultInv, NEW w \in Workers, FailRun(w) \/ FailPreparedRun(w)
    PROVE  Tame /\ \A r \in Runs : Publishes(r)
  <1> DEFINE r == worker[w].run
  <1>1. TypeOK /\ run \in [Runs -> RunRows] /\ r \in Runs
    BY DEF ResultInv, TypeOK, WorkerStates
  <1>2. /\ UNCHANGED <<job, request>>
        /\ \A v \in Workers : Withdraws(v)
    <2>1. CASE FailRun(w)
      BY <1>1, <2>1, MovesWithdraw DEF FailRun, Refused, At, Busy, Work
    <2>2. CASE FailPreparedRun(w)
      BY <1>1, <2>2, MovesWithdraw DEF FailPreparedRun, AfterFailure, At, Busy, Work
    <2> QED BY <2>1, <2>2
  <1>3. run' = run \/ /\ Fenced(w) /\ run[r].result = 0
                      /\ \E status : run' = [run EXCEPT ![r].status = status]
    <2>1. CASE FailRun(w)
      <3>1. worker[w].pc \in Work BY <2>1 DEF FailRun, At, Work
      <3>2. Fenced(w) => run[r].result = 0
        BY <3>1 DEF ResultInv, ShownRunsRest, Fenced
      <3> QED BY <2>1, <3>2 DEF FailRun, Refused
    <2>2. CASE FailPreparedRun(w)
      <3>1. run[r].status = "running" => run[r].result = 0
        BY <1>1 DEF ResultInv, ShownRunsEnded
      <3> QED BY <2>2, <3>1 DEF FailPreparedRun
    <2> QED BY <2>1, <2>2
  <1> HIDE DEF r
  <1>4. \A s \in Runs : Publishes(s) /\ Changes(s)
    <2>1. CASE run' = run
      BY <2>1, UntouchedRows
    <2>2. CASE run' # run
      <3>1. PICK status : run' = [run EXCEPT ![r].status = status]
        BY <1>3, <2>2
      <3>2. run[r].result = 0 /\ ~job[r].cancelAsked /\ request'[r] # "none"
        BY <1>1, <1>2, <1>3, <2>2 DEF ResultInv, UnbornAreEmpty, Fenced, Owns, r
      <3> QED BY <1>1, <3>1, <3>2 DEF Publishes, Changes, RunRows
    <2> QED BY <2>1, <2>2
  <1> QED BY <1>2, <1>4, UntouchedRows DEF Tame

\* Settling the queue row.
LEMMA SettlementsAreTame ==
    ASSUME ResultInv, NEW w \in Workers,
           Requeue(w) \/ GiveUp(w) \/ Finish(w) \/ SettleStoppedWork(w)
    PROVE  Tame /\ \A r \in Runs : Publishes(r)
  <1>1. TypeOK BY DEF ResultInv
  <1>2. UNCHANGED <<run, request>> /\ Rest(w)
    BY DEF Requeue, GiveUp, Finish, SettleStoppedWork
  <1>3. PICK status \in {"failed", "succeeded", "cancelled"} :
           job' \in {job, ReleasedJob(w), FinishedJob(w, status)}
    BY DEF Requeue, GiveUp, Finish, SettleStoppedWork
  <1>4. /\ NoNewHolds
        /\ \A s \in Runs : job'[s].status # job[s].status => s = worker[w].run /\ Owns(w)
    BY <1>1, <1>3, QueueSettlements
  <1>5. \A s \in Runs : Unborn(s)
    BY <1>2, <1>4 DEF Unborn, Owns
  <1>6. \A v \in Workers : Withdraws(v) BY <1>1, <1>2, RestsWithdraw
  <1> QED BY <1>2, <1>4, <1>5, <1>6, UntouchedRows DEF Tame

\* The HTTP process, its crash, and the clock.
LEMMA ApiIsTame ==
    ASSUME ResultInv,
           \/ \E r \in Runs :
                 \/ CreateRun(r) \/ EnqueueReviewJob(r)
                 \/ AskCancel(r) \/ CancelReviewJob(r) \/ CancelRun(r)
                 \/ Answer(r) \/ RetryTransition(r) \/ DeskStep(r) \/ LeaseExpires(r)
           \/ CrashApi \/ UNCHANGED vars
    PROVE  Tame /\ \A r \in Runs : Publishes(r)
  <1>1. /\ TypeOK /\ run \in [Runs -> RunRows] /\ job \in [Runs -> JobRows]
        /\ request \in [Runs -> {"none", "created", "enqueued", "lost"}]
    BY DEF ResultInv, TypeOK
  <1>2. \A w \in Workers : Withdraws(w)
    BY ApiLeavesWorkersAlone DEF Withdraws, Persists
  <1>3. ASSUME NEW r \in Runs, CreateRun(r)
        PROVE  Tame /\ \A s \in Runs : Publishes(s)
    <2>1. \A s \in Runs : Publishes(s) /\ Changes(s)
      BY <1>1, <1>3
      DEF CreateRun, Publishes, Changes, RunRows, ResultInv, UnbornAreEmpty
    <2>2. NoNewHolds /\ \A s \in Runs : Unborn(s)
      BY <1>1, <1>3 DEF CreateRun, NoNewHolds, Unborn
    <2> QED BY <1>2, <2>1, <2>2 DEF Tame
  <1>4. ASSUME NEW r \in Runs, EnqueueReviewJob(r)
        PROVE  Tame /\ \A s \in Runs : Publishes(s)
    <2>1. NoNewHolds
      BY <1>1, <1>4 DEF EnqueueReviewJob, NoNewHolds, JobRows
    <2>2. \A s \in Runs : Unborn(s)
      BY <1>1, <1>4 DEF EnqueueReviewJob, Unborn
    <2> QED BY <1>2, <1>4, <2>1, <2>2, UntouchedRows DEF EnqueueReviewJob, Tame
  <1>5. ASSUME NEW r \in Runs, CancelReviewJob(r)
        PROVE  Tame /\ \A s \in Runs : Publishes(s)
    <2>1. NoNewHolds
      BY <1>1, <1>5 DEF CancelReviewJob, NoNewHolds, JobRows
    <2>2. \A s \in Runs : Unborn(s)
      BY <1>1, <1>5 DEF CancelReviewJob, Unborn
    <2> QED BY <1>2, <1>5, <2>1, <2>2, UntouchedRows DEF CancelReviewJob, Tame
  <1>6. ASSUME NEW r \in Runs, CancelRun(r)
        PROVE  Tame /\ \A s \in Runs : Publishes(s)
    <2>1. \A s \in Runs : Publishes(s) /\ Changes(s)
      BY <1>1, <1>6
      DEF CancelRun, Publishes, Changes, RunRows, ResultInv, UnbornAreEmpty, ShownRunsEnded
    <2> QED BY <1>2, <1>6, <2>1, UntouchedRows DEF CancelRun, Tame
  <1>7. ASSUME NEW r \in Runs, LeaseExpires(r)
        PROVE  Tame /\ \A s \in Runs : Publishes(s)
    <2>1. NoNewHolds
      BY <1>1, <1>7 DEF LeaseExpires, NoNewHolds, JobRows
    <2>2. \A s \in Runs : Unborn(s)
      BY <1>1, <1>7 DEF LeaseExpires, Unborn, JobRows
    <2> QED BY <1>2, <1>7, <2>1, <2>2, UntouchedRows DEF LeaseExpires, Tame
  <1>8. ASSUME NEW r \in Runs, AskCancel(r)
        PROVE  Tame /\ \A s \in Runs : Publishes(s)
    BY <1>2, <1>8, UntouchedRows DEF AskCancel, Tame
  <1>9. ASSUME NEW r \in Runs, Answer(r) \/ RetryTransition(r) \/ DeskStep(r)
        PROVE  Tame /\ \A s \in Runs : Publishes(s)
    <2>1. \A s \in Runs : Publishes(s) /\ Changes(s)
      BY <1>1, <1>9, RowsOfTheDesk
    <2>2. UNCHANGED <<job, request>>
      BY <1>9 DEF Answer, RetryTransition, DeskStep, Tell, DeskNotifies, DeskRetries
    <2> QED BY <1>2, <2>1, <2>2, UntouchedRows DEF Tame
  <1>10. CASE CrashApi
    <2>1. NoNewHolds /\ \A s \in Runs : Unborn(s)
      BY <1>1, <1>10 DEF CrashApi, NoNewHolds, Unborn
    <2> QED BY <1>2, <1>10, <2>1, UntouchedRows DEF CrashApi, Tame
  <1>11. CASE UNCHANGED vars
    BY <1>2, <1>11, UntouchedRows DEF vars, Tame
  <1> QED BY <1>3, <1>4, <1>5, <1>6, <1>7, <1>8, <1>9, <1>10, <1>11

\* The recovery ends running runs only, which show no result.
LEMMA RecoveryIsTame ==
    ASSUME ResultInv, run' = RecoveredRuns, UNCHANGED request
    PROVE  \A s \in Runs : Publishes(s) /\ Changes(s)
  <1> SUFFICES ASSUME NEW s \in Runs PROVE Publishes(s) /\ Changes(s) OBVIOUS
  <1>1. run[s] \in RunRows BY DEF ResultInv, TypeOK
  <1>2. CASE run'[s] = run[s]
    BY <1>2 DEF Publishes, Changes
  <1>3. CASE run'[s] # run[s]
    <2>1. run[s].status = "running" /\ run'[s] = [run[s] EXCEPT !.status = RecoveredStatus(s)]
      BY <1>3 DEF RecoveredRuns
    <2>2. run[s].result = 0 /\ request'[s] # "none"
      BY <2>1 DEF ResultInv, ShownRunsEnded, UnbornAreEmpty
    <2>3. \A status : LET row == [run[s] EXCEPT !.status = status] IN
             row.release = run[s].release /\ row.blocking = run[s].blocking
             /\ row.result = run[s].result
      BY <1>1 DEF RunRows
    <2> QED BY <2>1, <2>2, <2>3 DEF Publishes, Changes
  <1> QED BY <1>2, <1>3

LEMMA ClaimNothingIsTame ==
    ASSUME ResultInv, NEW w \in Workers, ClaimNothing(w)
    PROVE  Tame /\ \A r \in Runs : Publishes(r)
  <1>1. /\ TypeOK /\ job' = RecoveredJobs /\ run' = RecoveredRuns
        /\ UNCHANGED <<worker, request>>
    BY DEF ResultInv, ClaimNothing
  <1>2. NoNewHolds /\ \A r \in Runs : Unborn(r)
    BY <1>1, RecoveryEndsOrRequeues DEF NoNewHolds, Unborn
  <1>3. \A v \in Workers : Withdraws(v) BY <1>1, RestsWithdraw
  <1> QED BY <1>1, <1>2, <1>3, RecoveryIsTame DEF Tame

\* A claim hands out a new number; whoever held the job before owns it no more.
LEMMA ClaimsKeepTheResult ==
    ASSUME ResultInv, TypeOK', NEW w \in Workers, NEW r \in Runs, ClaimReviewJob(w, r)
    PROVE  ResultInv' /\ \A s \in Runs : Publishes(s) /\ Changes(s)
  <1>1. /\ TypeOK /\ worker \in [Workers -> WorkerStates]
        /\ \A v \in Workers : worker[v].run \in Runs /\ worker[v].attempt \in Nat
        /\ \A s \in Runs : job[s].attempts \in Nat
    BY AttemptsAssumption DEF ResultInv, TypeOK, WorkerStates, JobRows
  <1>2. run' = RecoveredRuns /\ UNCHANGED request
    BY DEF ClaimReviewJob
  <1>3. \A s \in Runs : Publishes(s) /\ Changes(s)
    BY <1>2, RecoveryIsTame
  <1>4. /\ worker'[w].pc = "begin" /\ worker'[w].run = r
        /\ worker'[w].attempt = job[r].attempts + 1
        /\ \A v \in Workers : v # w => worker'[v] = worker[v]
    BY <1>1 DEF ClaimReviewJob
  <1>5. /\ job'[r].attempts = job[r].attempts + 1
        /\ \A s \in Runs : s # r => job'[s] = RecoveredJobs[s]
    <2> DEFINE recovered == RecoveredJobs
    <2>1. recovered \in [Runs -> JobRows] /\ recovered[r].attempts = job[r].attempts
      BY <1>1, RecoveriesAreTyped, RecoveryEndsOrRequeues
    <2>2. job' = [recovered EXCEPT ![r].status = "running", ![r].live = TRUE,
                                   ![r].attempts = @ + 1]
      BY DEF ClaimReviewJob
    <2> HIDE DEF recovered
    <2>3. /\ job'[r].attempts = recovered[r].attempts + 1
          /\ \A s \in Runs : s # r => job'[s] = recovered[s]
      BY <2>1, <2>2 DEF JobRows
    <2> QED BY <2>1, <2>3 DEF recovered
  <1>6. \A s \in Runs : s # r =>
             /\ job'[s].attempts = job[s].attempts
             /\ job'[s].status = "running" => job[s].status = "running"
             /\ job'[s].live = job[s].live
             /\ job'[s].status = "absent" <=> job[s].status = "absent"
    BY <1>1, <1>5, RecoveryEndsOrRequeues
  <1>7. job[r].status # "absent"
    BY <1>1, RecoveryEndsOrRequeues DEF ClaimReviewJob, Claimable
  <1>8. AttemptsWereDrawn'
    BY <1>1, <1>4, <1>5, <1>6 DEF ResultInv, AttemptsWereDrawn, Busy
  <1>9. \A v \in Workers : v # w /\ Busy(v) /\ worker[v].run = r =>
           worker[v].attempt < job[r].attempts + 1
    BY <1>1 DEF ResultInv, AttemptsWereDrawn
  <1>10. AttemptsDiffer'
    BY <1>1, <1>4, <1>9 DEF ResultInv, AttemptsDiffer, Busy
  <1>11. UnbornAreEmpty'
    BY <1>2, <1>3, <1>6, <1>7 DEF ResultInv, UnbornAreEmpty, Changes
  <1>12. ShownRunsEnded' /\ ReleaseIsOfTheResult'
    BY <1>3 DEF ResultInv, ShownRunsEnded, ReleaseIsOfTheResult, Publishes, Changes
  <1>13. ShownRunsRest'
    <2> SUFFICES ASSUME NEW v \in Workers, worker'[v].pc \in Work, Owns(v)'
                 PROVE  run'[worker'[v].run].result = 0
      BY DEF ShownRunsRest
    <2>1. v # w /\ worker'[v] = worker[v] /\ Busy(v) BY <1>4 DEF Work, Busy
    <2>2. worker[v].run # r BY <1>1, <1>5, <1>9, <2>1 DEF Owns
    <2>3. Owns(v) BY <1>1, <1>6, <2>1, <2>2 DEF Owns
    <2> QED BY <1>1, <1>3, <2>1, <2>3 DEF ResultInv, ShownRunsRest, Changes
  <1> QED BY <1>3, <1>8, <1>10, <1>11, <1>12, <1>13 DEF ResultInv

\* A commit is the first of its run, and leaves nobody executing it.
LEMMA CommitsKeepTheResult ==
    ASSUME ResultInv, TypeOK', NEW w \in Workers, CommitResult(w)
    PROVE  /\ ResultInv'
           /\ \A s \in Runs : run'[s].release = run[s].release
           /\ \A s \in Runs : run[s].status = "cancelled" /\ job[s].cancelAsked
                 => run'[s].status = "cancelled"
  <1> DEFINE r == worker[w].run
             attempt == worker[w].attempt
  <1>1. /\ TypeOK /\ worker \in [Workers -> WorkerStates] /\ run \in [Runs -> RunRows]
        /\ r \in Runs /\ \A v \in Workers : worker[v].run \in Runs
    BY DEF ResultInv, TypeOK, WorkerStates
  <1>2. /\ worker[w].pc = "commit" /\ Owns(w) /\ ~job[r].cancelAsked /\ Busy(w)
        /\ UNCHANGED <<job, request>>
    BY DEF CommitResult, At, Fenced, Busy
  <1>3. run[r].result = 0 /\ run[r].release = 0
    <2>1. run[r].result = 0
      BY <1>2 DEF ResultInv, ShownRunsRest, Work
    <2> QED BY <1>1, <2>1 DEF ResultInv, ReleaseIsOfTheResult
  <1>4. PICK blocking \in BOOLEAN :
           /\ run' = [run EXCEPT
                ![r].status = IF blocking THEN "waiting_clarification" ELSE "succeeded",
                ![r].result = attempt, ![r].blocking = blocking,
                ![r].transition = IF blocking THEN @ ELSE "pending"]
           /\ Goto(w, IF blocking THEN "respond" ELSE "finalize")
    BY DEF CommitResult
  <1>5. /\ worker'[w].run = r /\ worker'[w].attempt = attempt /\ worker'[w].pc \notin Work
        /\ \A v \in Workers : v # w => worker'[v] = worker[v]
    BY <1>1, <1>4, MovesKeepTheWork DEF Goto, Work
  <1>6. NoNewHolds /\ \A v \in Workers : Persists(v)
    BY <1>2, <1>5 DEF NoNewHolds, Persists
  <1>7. /\ AttemptsWereDrawn' /\ AttemptsDiffer'
        /\ \A v \in Workers : worker'[v].pc # "idle" /\ Owns(v)' => Owns(v) /\ Busy(v)
    BY <1>6, HoldsOnlyShrink DEF ResultInv
  <1>8. /\ run'[r].status \in {"waiting_clarification", "succeeded"}
        /\ run'[r].release = run[r].release
        /\ \A s \in Runs : s # r => run'[s] = run[s]
    <2> HIDE DEF r, attempt
    <2> QED BY <1>1, <1>4 DEF RunRows
  <1>9. UnbornAreEmpty'
    BY <1>2, <1>8 DEF ResultInv, UnbornAreEmpty, Owns
  <1>10. ShownRunsEnded' /\ ReleaseIsOfTheResult'
    BY <1>3, <1>8 DEF ResultInv, ShownRunsEnded, ReleaseIsOfTheResult
  <1>11. ShownRunsRest'
    <2> SUFFICES ASSUME NEW v \in Workers, worker'[v].pc \in Work, Owns(v)'
                 PROVE  run'[worker'[v].run].result = 0
      BY DEF ShownRunsRest
    <2>1. v # w /\ worker'[v] = worker[v] /\ Owns(v) /\ Busy(v)
      BY <1>5, <1>7 DEF Work
    <2>2. worker[v].run # r
      BY <1>2, <2>1, OwnersAreUnique DEF ResultInv
    <2> QED BY <1>1, <1>8, <2>1, <2>2 DEF ResultInv, ShownRunsRest
  <1>12. \A s \in Runs : run[s].status = "cancelled" /\ job[s].cancelAsked
                 => run'[s].status = "cancelled"
    BY <1>2, <1>8
  <1> QED BY <1>7, <1>8, <1>9, <1>10, <1>11, <1>12 DEF ResultInv

\* Every step is tame but a commit and a claim.
LEMMA StepsAreTame ==
    ASSUME NoReadFailure, ResultInv, [Next]_vars
    PROVE  \/ Tame /\ \A r \in Runs : Publishes(r)
           \/ \E w \in Workers : CommitResult(w)
           \/ \E w \in Workers : \E r \in Runs : ClaimReviewJob(w, r)
  <1>1. TypeOK BY DEF ResultInv
  <1>2. \A w \in Workers : ~FailToRespond(w)
    BY DEF FailToRespond, Fault, NoReadFailure
  <1>3. ASSUME NEW w \in Workers, WorkerStep(w), ~CommitResult(w)
        PROVE  Tame /\ \A r \in Runs : Publishes(r)
    BY <1>1, <1>3, ExecutionIsTame, FailuresAreTame, SettlementsAreTame DEF WorkerStep
  <1>4. ASSUME NEW w \in Workers,
               \/ HeartbeatReviewJob(w) \/ StopWorker(w)
               \/ CrashWorker(w) \/ LosePreparedFailure(w)
        PROVE  Tame /\ \A r \in Runs : Publishes(r)
    BY <1>1, <1>4, ExecutionIsTame
  <1> QED
    BY <1>2, <1>3, <1>4, ClaimNothingIsTame, ApiIsTame DEF Next

LEMMA TheResultIsKept ==
    ASSUME NoReadFailure, ResultInv, TypeOK', [Next]_vars
    PROVE  /\ ResultInv'
           /\ \A r \in Runs : run[r].status = "cancelled" /\ job[r].cancelAsked
                 => run'[r].status = "cancelled"
  <1>1. ASSUME \A r \in Runs : Changes(r)
        PROVE  \A r \in Runs : run[r].status = "cancelled" /\ job[r].cancelAsked
                  => run'[r].status = "cancelled"
    BY <1>1 DEF ResultInv, ShownRunsEnded, Changes
  <1>2. CASE Tame /\ \A r \in Runs : Publishes(r)
    BY <1>1, <1>2, TameStepsPreserve DEF Tame
  <1>3. CASE \E w \in Workers : CommitResult(w)
    BY <1>3, CommitsKeepTheResult
  <1>4. ASSUME NEW w \in Workers, NEW r \in Runs, ClaimReviewJob(w, r)
        PROVE  ResultInv' /\ \A s \in Runs : Changes(s)
    BY <1>4, ClaimsKeepTheResult
  <1>5. CASE \E w \in Workers : \E r \in Runs : ClaimReviewJob(w, r)
    BY <1>1, <1>4, <1>5
  <1> QED BY <1>2, <1>3, <1>5, StepsAreTame

LEMMA ResultStarts == Init => ResultInv
  BY InitIsTyped
  DEF Init, ResultInv, AttemptsWereDrawn, AttemptsDiffer, Busy, UnbornAreEmpty, ShownRunsEnded,
      ShownRunsRest, Work, ReleaseIsOfTheResult

\* For every number of runs, workers and attempts, while workers and the HTTP
\* process crash, writes get lost and leases expire under running workers: what a
\* run shows belongs together.  Its history has one running attempt at most, the
\* newest, and its release is made of the result it shows, with no blocking
\* question left.  ResultInv is the inductive invariant: once a run shows a
\* result it has ended, and no owner of its job executes an attempt, so a result
\* is committed once.  (It needs the read after the commit to work: when it
\* throws, executeAnalysis fails a run that has already published.)
THEOREM WhatARunShowsAgrees == ASSUME NoReadFailure PROVE Spec => []ResultsAgree
  <1>1. ResultInv /\ TypeOK' /\ [Next]_vars => ResultInv'
    BY TheResultIsKept
  <1>2. ResultInv => ReleaseIsOfTheResult BY DEF ResultInv
  <1> QED
    BY <1>1, <1>2, ResultStarts, AnalysisRunTypes, OnlyTheNewestAttemptRuns, PTL
    DEF Spec, ResultsAgree

\* For every number of runs and workers: neither the stop of the user nor a stop
\* of the infrastructure is overrun.  A run cancelled while its job carries the
\* cancellation stays cancelled (transactionWithReviewLease refuses every write
\* of a worker that still executes it, and only a run with a result is ever
\* answered), and a worker stopped by its infrastructure settles nothing.
THEOREM StopsAreFinal == ASSUME NoReadFailure PROVE Spec => StopsAreRespected
  <1>1. ResultInv /\ TypeOK' /\ [Next]_vars => ResultInv'
    BY TheResultIsKept
  <1>2. ResultInv /\ TypeOK' /\ [Next]_vars =>
           [\A r \in Runs : run[r].status = "cancelled" /\ job[r].cancelAsked
                => run'[r].status = "cancelled"]_vars
    BY TheResultIsKept
  <1> QED
    BY <1>1, <1>2, ResultStarts, AnalysisRunTypes, StoppedWorkIsLeftForRecovery, PTL
    DEF Spec, StopsAreRespected, CancelledStaysCancelled

\* Only a notification writes a release, in a worker or at the desk.
LEMMA OnlyNotifiersPublish ==
    ASSUME TypeOK, [Next]_vars, NEW r \in Runs
    PROVE  \/ run'[r].release = run[r].release
           \/ \E s \in Runs : Answer(s) \/ RetryTransition(s) \/ DeskStep(s)
           \/ \E w \in Workers : WorkerNotifies(w)
  <1>1. run \in [Runs -> RunRows] /\ \A w \in Workers : worker[w].run \in Runs
    BY DEF TypeOK, WorkerStates
  <1>2. CASE run' = run BY <1>2
  <1>3. CASE \E s \in Runs : CreateRun(s) \/ CancelRun(s)
    BY <1>1, <1>3 DEF CreateRun, CancelRun, RunRows
  <1>4. CASE run' = RecoveredRuns
    BY <1>1, <1>4 DEF RecoveredRuns, RunRows
  <1>5. ASSUME NEW w \in Workers, CommitResult(w) \/ FailRun(w) \/ FailPreparedRun(w)
        PROVE  run'[r].release = run[r].release
    <2> DEFINE s == worker[w].run
               attempt == worker[w].attempt
    <2>1. s \in Runs BY <1>1
    <2>2. CASE CommitResult(w)
      <3>1. PICK blocking \in BOOLEAN :
               run' = [run EXCEPT
                  ![s].status = IF blocking THEN "waiting_clarification" ELSE "succeeded",
                  ![s].result = attempt, ![s].blocking = blocking,
                  ![s].transition = IF blocking THEN @ ELSE "pending"]
        BY <2>2 DEF CommitResult
      <3> HIDE DEF s, attempt
      <3> QED BY <1>1, <2>1, <3>1 DEF RunRows
    <2>3. CASE FailRun(w)
      <3>1. run' = run \/ \E status : run' = [run EXCEPT ![s].status = status]
        BY <2>3 DEF FailRun, Refused
      <3> HIDE DEF s, attempt
      <3> QED BY <1>1, <2>1, <3>1 DEF RunRows
    <2>4. CASE FailPreparedRun(w)
      <3>1. run' = run \/ \E status : run' = [run EXCEPT ![s].status = status]
        BY <2>4 DEF FailPreparedRun
      <3> HIDE DEF s, attempt
      <3> QED BY <1>1, <2>1, <3>1 DEF RunRows
    <2> QED BY <1>5, <2>2, <2>3, <2>4
  <1>6. CASE \E s \in Runs : \/ EnqueueReviewJob(s) \/ AskCancel(s) \/ CancelReviewJob(s)
                             \/ LeaseExpires(s)
    BY <1>2, <1>6 DEF EnqueueReviewJob, AskCancel, CancelReviewJob, LeaseExpires
  <1>7. CASE \E w \in Workers : \/ ClaimNothing(w) \/ \E s \in Runs : ClaimReviewJob(w, s)
    BY <1>4, <1>7 DEF ClaimNothing, ClaimReviewJob
  <1>8. CASE \E w \in Workers :
               \/ BeginExecutionAttempt(w) \/ ReadPreparedRun(w) \/ StartAnalyzing(w)
               \/ OpenModelAttempt(w) \/ ExecuteRuntime(w) \/ FinishModelAttempt(w)
    BY <1>2, <1>8 DEF BeginExecutionAttempt, ReadPreparedRun, StartAnalyzing,
       OpenModelAttempt, ExecuteRuntime, FinishModelAttempt, Refused
  <1>9. CASE \E w \in Workers :
               \/ RejectResult(w) \/ Respond(w) \/ Requeue(w) \/ GiveUp(w) \/ Finish(w)
               \/ SettleStoppedWork(w) \/ HeartbeatReviewJob(w) \/ StopWorker(w)
               \/ CrashWorker(w) \/ FailToRespond(w) \/ LosePreparedFailure(w)
    BY <1>2, <1>9 DEF RejectResult, Respond, Requeue, GiveUp, Finish, SettleStoppedWork,
       HeartbeatReviewJob, StopWorker, Abort, CrashWorker, FailToRespond, LosePreparedFailure
  <1>10. CASE CrashApi \/ UNCHANGED vars
    BY <1>2, <1>10 DEF CrashApi, vars
  <1> QED
    BY <1>3, <1>5, <1>6, <1>7, <1>8, <1>9, <1>10 DEF Next, WorkerStep

LEMMA ReleasesStay ==
    ASSUME TypeOK, [Next]_vars, NEW r \in Runs, run[r].release # 0
    PROVE  run'[r].release = run[r].release
  <1>1. \A w \in Workers : worker[w].run \in Runs BY DEF TypeOK, WorkerStates
  <1>2. CASE \E s \in Runs : Answer(s) \/ RetryTransition(s) \/ DeskStep(s)
    BY <1>2, RowsOfTheDesk DEF Publishes
  <1>3. CASE \E w \in Workers : WorkerNotifies(w)
    BY <1>1, <1>3, RowsOfNotifications DEF WorkerNotifies, Publishes
  <1> QED BY <1>2, <1>3, OnlyNotifiersPublish

\* For every number of runs, workers and attempts and under every fault: a
\* published release is never replaced, neither by another notification nor by a
\* later attempt (finalizeRequirementRelease returns the release it finds).
THEOREM AReleaseIsPublishedOnce == Spec => ReleaseIsImmutable
  <1>1. TypeOK /\ [Next]_vars =>
           [\A r \in Runs : run[r].release # 0 => run'[r].release = run[r].release]_vars
    BY ReleasesStay
  <1> QED BY <1>1, AnalysisRunTypes, PTL DEF Spec, ReleaseIsImmutable

--------------------------------------------------------------------------------
(***************************************************************************)
(* What a worker publishes, however late.                                   *)
(***************************************************************************)

\* A worker about to finalize shows its own attempt, with no question left.
BusyHaveNumbers == \A w \in Workers : Busy(w) => worker[w].attempt # 0
FinalizersShowTheirOwn ==
    \A w \in Workers : worker[w].pc = "finalize" =>
        run[worker[w].run].result = worker[w].attempt /\ ~run[worker[w].run].blocking

OwnInv == ResultInv /\ BusyHaveNumbers /\ FinalizersShowTheirOwn

\* Who is about to finalize after a step was so before, or has just committed.
LEMMA FinalizersHaveCommitted ==
    ASSUME TypeOK, [Next]_vars, NEW w \in Workers, worker'[w].pc = "finalize"
    PROVE  \/ CommitResult(w)
           \/ /\ worker[w].pc = "finalize"
              /\ worker'[w].run = worker[w].run /\ worker'[w].attempt = worker[w].attempt
  <1> DEFINE Stays == /\ worker[w].pc = "finalize"
                      /\ worker'[w].run = worker[w].run
                      /\ worker'[w].attempt = worker[w].attempt
  <1>1. worker \in [Workers -> WorkerStates] BY DEF TypeOK
  <1>2. /\ \A pc : Goto(w, pc) => pc = "finalize"
        /\ \A pc, error : Throw(w, pc, error) => pc = "finalize"
    BY MovesKeepTheWork
  <1>3. /\ ~Rest(w)
        /\ \A reason : Abort(w, reason) => Stays
        /\ worker' = worker => Stays
    BY <1>1 DEF Rest, Abort, WorkerStates
  <1>4. CASE WorkerStep(w)
    <2>1. CASE \/ BeginExecutionAttempt(w) \/ ReadPreparedRun(w) \/ StartAnalyzing(w)
               \/ OpenModelAttempt(w) \/ ExecuteRuntime(w) \/ FinishModelAttempt(w)
      BY <1>2, <2>1 DEF BeginExecutionAttempt, ReadPreparedRun, StartAnalyzing,
         OpenModelAttempt, ExecuteRuntime, FinishModelAttempt, Refused
    <2>2. CASE RejectResult(w) \/ Respond(w) \/ FailRun(w) \/ FailPreparedRun(w)
      BY <1>2, <2>2 DEF RejectResult, Respond, FailRun, FailPreparedRun, Refused, AfterFailure
    <2>3. CASE WorkerNotifies(w)
      <3>1. PICK next \in {"design", "settle_transition", "transition_failed", "done"} :
               Goto(w, IF next = "done" THEN "respond" ELSE next)
        BY <2>3 DEF WorkerNotifies
      <3>2. (IF next = "done" THEN "respond" ELSE next) = "finalize" BY <1>2, <3>1
      <3> QED BY <3>2
    <2>4. CASE Requeue(w) \/ GiveUp(w) \/ Finish(w) \/ SettleStoppedWork(w)
      BY <1>3, <2>4 DEF Requeue, GiveUp, Finish, SettleStoppedWork
    <2> QED BY <1>4, <2>1, <2>2, <2>3, <2>4 DEF WorkerStep
  <1>5. CASE ClaimNothing(w) \/ \E r \in Runs : ClaimReviewJob(w, r)
    <2>1. ASSUME NEW r \in Runs, ClaimReviewJob(w, r)
          PROVE  worker'[w].pc = "begin"
      BY <1>1, <2>1 DEF ClaimReviewJob
    <2>2. ~(\E r \in Runs : ClaimReviewJob(w, r)) BY <2>1
    <2> QED BY <1>3, <1>5, <2>2 DEF ClaimNothing
  <1>6. CASE \/ HeartbeatReviewJob(w) \/ StopWorker(w)
             \/ CrashWorker(w) \/ FailToRespond(w) \/ LosePreparedFailure(w)
    BY <1>2, <1>3, <1>6 DEF HeartbeatReviewJob, StopWorker, CrashWorker, FailToRespond,
       LosePreparedFailure, AfterFailure
  <1>7. CASE worker'[w] = worker[w]
    BY <1>7
  <1> QED
    BY <1>3, <1>4, <1>5, <1>6, <1>7, OthersLeaveAWorkerAlone, ApiLeavesWorkersAlone DEF Next

LEMMA NumbersAreKept ==
    ASSUME NoReadFailure, OwnInv, TypeOK', [Next]_vars
    PROVE  BusyHaveNumbers'
  <1>1. TypeOK /\ ResultInv BY DEF OwnInv, ResultInv
  <1>2. ASSUME \A w \in Workers : Persists(w)
        PROVE  BusyHaveNumbers'
    BY <1>2 DEF OwnInv, BusyHaveNumbers, Persists, Busy
  <1>3. CASE Tame
    BY <1>2, <1>3 DEF Tame, Withdraws
  <1>4. ASSUME NEW v \in Workers, CommitResult(v)
        PROVE  \A w \in Workers : Persists(w)
    <2>1. PICK pc : Goto(v, pc) BY <1>4 DEF CommitResult
    <2>2. Persists(v)
      BY <1>1, <1>4, <2>1, MovesKeepTheWork DEF CommitResult, At, Persists, Busy
    <2>3. \A w \in Workers : w # v => Persists(w)
      BY <1>1, <1>4, OthersLeaveAWorkerAlone DEF WorkerStep, Persists
    <2> QED BY <2>2, <2>3
  <1>5. ASSUME NEW v \in Workers, NEW r \in Runs, ClaimReviewJob(v, r)
        PROVE  BusyHaveNumbers'
    <2>1. /\ worker \in [Workers -> WorkerStates] /\ job[r].attempts \in Nat
      BY <1>1, AttemptsAssumption DEF TypeOK, JobRows
    <2>2. /\ worker'[v].attempt = job[r].attempts + 1
          /\ \A w \in Workers : w # v => worker'[w] = worker[w]
      BY <1>5, <2>1 DEF ClaimReviewJob
    <2> QED BY <2>1, <2>2 DEF OwnInv, BusyHaveNumbers, Busy
  <1> QED BY <1>1, <1>2, <1>3, <1>4, <1>5, StepsAreTame

LEMMA FinalizersKeepTheirOwn ==
    ASSUME NoReadFailure, OwnInv, TypeOK', [Next]_vars
    PROVE  FinalizersShowTheirOwn'
  <1> SUFFICES ASSUME NEW w \in Workers, worker'[w].pc = "finalize"
               PROVE  /\ run'[worker'[w].run].result = worker'[w].attempt
                      /\ ~run'[worker'[w].run].blocking
    BY DEF FinalizersShowTheirOwn
  <1> DEFINE r == worker[w].run
  <1>1. /\ TypeOK /\ ResultInv /\ run \in [Runs -> RunRows]
        /\ \A v \in Workers : worker[v].run \in Runs
    BY DEF OwnInv, ResultInv, TypeOK, WorkerStates
  <1>2. ASSUME NEW v \in Workers, CommitResult(v)
        PROVE  /\ run[worker[v].run].result = 0
               /\ \A s \in Runs : s # worker[v].run => run'[s] = run[s]
    <2>1. worker[v].pc = "commit" /\ Owns(v) BY <1>2 DEF CommitResult, At, Fenced
    <2>2. run[worker[v].run].result = 0
      BY <1>1, <2>1 DEF ResultInv, ShownRunsRest, Work
    <2>3. \E row : run' = [run EXCEPT ![worker[v].run] = row]
      <3>1. PICK blocking \in BOOLEAN :
               run' = [run EXCEPT
                  ![worker[v].run].status =
                      IF blocking THEN "waiting_clarification" ELSE "succeeded",
                  ![worker[v].run].result = worker[v].attempt,
                  ![worker[v].run].blocking = blocking,
                  ![worker[v].run].transition = IF blocking THEN @ ELSE "pending"]
        BY <1>2 DEF CommitResult
      <3>2. run' = [run EXCEPT ![worker[v].run] = run'[worker[v].run]]
        BY <1>1, <3>1
      <3> QED BY <3>2
    <2> QED BY <1>1, <2>2, <2>3
  <1>3. CASE CommitResult(w)
    <2> DEFINE attempt == worker[w].attempt
    <2>1. PICK blocking \in BOOLEAN :
             /\ run' = [run EXCEPT
                  ![r].status = IF blocking THEN "waiting_clarification" ELSE "succeeded",
                  ![r].result = attempt, ![r].blocking = blocking,
                  ![r].transition = IF blocking THEN @ ELSE "pending"]
             /\ Goto(w, IF blocking THEN "respond" ELSE "finalize")
      BY <1>3 DEF CommitResult
    <2>2. /\ worker'[w].run = r /\ worker'[w].attempt = attempt
          /\ worker'[w].pc = IF blocking THEN "respond" ELSE "finalize"
      BY <1>1, <2>1, MovesKeepTheWork
    <2>3. ~blocking BY <2>2
    <2>4. r \in Runs BY <1>1
    <2> HIDE DEF r, attempt
    <2>5. run'[r].result = attempt /\ run'[r].blocking = blocking
      BY <1>1, <2>1, <2>4 DEF RunRows
    <2> QED BY <2>2, <2>3, <2>5
  <1>4. CASE ~CommitResult(w)
    <2>1. /\ worker[w].pc = "finalize"
          /\ worker'[w].run = r /\ worker'[w].attempt = worker[w].attempt
      BY <1>1, <1>4, FinalizersHaveCommitted
    <2>2. /\ run[r].result = worker[w].attempt /\ ~run[r].blocking
          /\ worker[w].attempt # 0 /\ r \in Runs
      BY <1>1, <2>1 DEF OwnInv, BusyHaveNumbers, FinalizersShowTheirOwn, Busy
    <2>3. ASSUME Changes(r), Publishes(r)
          PROVE  run'[r].result = run[r].result /\ ~run'[r].blocking
      BY <2>2, <2>3 DEF Changes, Publishes
    <2>4. ASSUME NEW v \in Workers, CommitResult(v)
          PROVE  run'[r] = run[r]
      BY <1>2, <2>2, <2>4
    <2>5. ASSUME NEW v \in Workers, NEW s \in Runs, ClaimReviewJob(v, s)
          PROVE  Changes(r) /\ Publishes(r)
      BY <1>1, <2>2, <2>5, ClaimsKeepTheResult
    <2>6. run'[r].result = run[r].result /\ ~run'[r].blocking
      BY <1>1, <2>2, <2>3, <2>4, <2>5, StepsAreTame DEF Tame
    <2> QED BY <2>1, <2>2, <2>6
  <1> QED BY <1>3, <1>4

\* A worker that publishes is at its finalization.
LEMMA WorkersPublishTheirOwn ==
    ASSUME OwnInv, [Next]_vars, NEW w \in Workers, worker'[w] # worker[w],
           run'[worker[w].run].release # run[worker[w].run].release
    PROVE  /\ run'[worker[w].run].release = worker[w].attempt
           /\ ~run'[worker[w].run].blocking
  <1> DEFINE r == worker[w].run
  <1>1. /\ TypeOK /\ run \in [Runs -> RunRows] /\ r \in Runs
        /\ worker[w].pc = "finalize" => run[r].result = worker[w].attempt /\ ~run[r].blocking
    BY DEF OwnInv, ResultInv, TypeOK, WorkerStates, FinalizersShowTheirOwn
  <1>2. WorkerNotifies(w)
    <2>1. \A v \in Workers : WorkerNotifies(v) => v = w
      BY <1>1, OthersLeaveAWorkerAlone DEF WorkerStep
    <2>2. ~(\E s \in Runs : Answer(s) \/ RetryTransition(s) \/ DeskStep(s))
      BY ApiLeavesWorkersAlone
    <2> QED BY <1>1, <2>1, <2>2, OnlyNotifiersPublish
  <1>3. PICK next : Notify(r, worker[w].pc, next) BY <1>2 DEF WorkerNotifies
  <1> HIDE DEF r
  <1>4. CASE worker[w].pc = "finalize" /\ run' = Finalized(r)
    BY <1>1, <1>4 DEF Finalized, RunRows, r
  <1>5. run' = Designed(r) => run'[r].release = run[r].release
    BY <1>1 DEF Designed, RunRows
  <1>6. \A transition : run' = [run EXCEPT ![r].transition = transition]
                            => run'[r].release = run[r].release
    BY <1>1 DEF RunRows
  <1> QED BY <1>3, <1>4, <1>5, <1>6 DEF Notify, r

\* For every number of runs, workers and attempts, while workers and the HTTP
\* process crash, writes get lost and leases expire under running workers: what a
\* worker publishes is the result it committed itself under its lease, with no
\* question left, even when notifyRequirementReleaseReady runs long after the
\* lease was lost and the job claimed again.  (OwnInv is the inductive invariant:
\* a second commit would need an owner that executes a run with a result.)
THEOREM LatePublicationsAreTheirOwn ==
    ASSUME NoReadFailure PROVE Spec => LateWorkersPublishTheirOwn
  <1>1. Init => OwnInv
    BY ResultStarts DEF Init, OwnInv, BusyHaveNumbers, FinalizersShowTheirOwn, Busy
  <1>2. OwnInv /\ TypeOK' /\ [Next]_vars => OwnInv'
    BY TheResultIsKept, NumbersAreKept, FinalizersKeepTheirOwn DEF OwnInv
  <1>3. OwnInv /\ [Next]_vars =>
           [\A w \in Workers :
               LET r == worker[w].run IN
               worker'[w] # worker[w] /\ run'[r].release # run[r].release =>
                   run'[r].release = worker[w].attempt /\ ~run'[r].blocking]_vars
    BY WorkersPublishTheirOwn
  <1> QED
    BY <1>1, <1>2, <1>3, AnalysisRunTypes, PTL DEF Spec, LateWorkersPublishTheirOwn

================================================================================
