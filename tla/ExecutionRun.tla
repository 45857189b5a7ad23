---------------------------- MODULE ExecutionRun ----------------------------
(***************************************************************************)
(* What a test run promises to the people who start it, without jobs,      *)
(* leases or workers: every task moves along the lifecycle graph, the run  *)
(* is the aggregate of its tasks, and once cancellation is requested the   *)
(* only thing that still happens to a task is that it ends cancelled.      *)
(* TestExecution, the database and its workers, implements it.             *)
(***************************************************************************)
EXTENDS ExecutionLifecycle

VARIABLES
  runStatus,        \* test_execution_runs.status
  cancelRequested,  \* test_execution_runs.cancel_requested_at is set
  taskStatus        \* test_execution_tasks.status

runVars == <<runStatus, cancelRequested, taskStatus>>

RunInit ==
  /\ runStatus = "queued"
  /\ cancelRequested = FALSE
  /\ taskStatus \in [Tasks -> {"pending", "unsupported"}]
  /\ \E t \in Tasks : taskStatus[t] = "pending"

\* An open task takes one edge of the graph; the run follows.
Advance(t, s) ==
  /\ runStatus \in {"queued", "running"}
  /\ taskStatus[t] \in Open
  /\ s \in Transitions[taskStatus[t]]
  /\ cancelRequested => s = "cancelled"
  /\ taskStatus' = [taskStatus EXCEPT ![t] = s]
  /\ runStatus' = Aggregate(taskStatus')
  /\ UNCHANGED cancelRequested

\* Cancellation ends every task but those a runner is executing.
RequestCancel ==
  /\ runStatus \in {"queued", "running"}
  /\ ~cancelRequested
  /\ cancelRequested' = TRUE
  /\ taskStatus' = [t \in Tasks |->
       IF taskStatus[t] \in Open \ {"running"} THEN "cancelled" ELSE taskStatus[t]]
  /\ runStatus' = Aggregate(taskStatus')

\* A manual retry reopens a finished run that nobody cancelled.
Reopen(t, s) ==
  /\ runStatus \in {"failed", "partial"}
  /\ ~cancelRequested
  /\ taskStatus[t] \in Retryable
  /\ s \in Transitions[taskStatus[t]]
  /\ taskStatus' = [taskStatus EXCEPT ![t] = s]
  /\ runStatus' = "running"
  /\ UNCHANGED cancelRequested

RunNext ==
  \/ \E t \in Tasks, s \in TaskStatuses : Advance(t, s) \/ Reopen(t, s)
  \/ RequestCancel

RunSpec == RunInit /\ [][RunNext]_runVars

=============================================================================
