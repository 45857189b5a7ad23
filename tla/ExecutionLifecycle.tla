------------------------- MODULE ExecutionLifecycle -------------------------
(***************************************************************************)
(* The vocabulary of test execution shared by its specifications: the      *)
(* statuses of a run and of its tasks, the lifecycle graph, and how the    *)
(* status of a run follows from the statuses of its tasks.                 *)
(***************************************************************************)

CONSTANT Tasks   \* the frozen test cases of one run

ASSUME TasksAssumption == Tasks # {}

Terminal == {"passed", "failed", "blocked", "unsupported", "waiting_manual", "cancelled"}
Open == {"pending", "script_generating", "ready", "running", "diagnosing",
         "retrying", "repairing"}
TaskStatuses == Terminal \cup Open
Retryable == {"failed", "blocked", "waiting_manual"}

Finished == {"succeeded", "failed", "partial", "cancelled"}
RunStatuses == Finished \cup {"queued", "running"}

\* EXECUTION_TASK_TRANSITIONS.
Transitions ==
  [s \in TaskStatuses |->
    CASE s = "pending" -> {"script_generating", "ready", "unsupported", "blocked", "cancelled"}
      [] s = "script_generating" -> {"ready", "blocked", "waiting_manual", "cancelled"}
      [] s = "ready" -> {"running", "blocked", "waiting_manual", "cancelled"}
      [] s = "running" -> {"ready", "passed", "retrying", "diagnosing", "blocked",
                           "waiting_manual", "cancelled"}
      [] s = "retrying" -> {"running", "blocked", "cancelled"}
      [] s = "diagnosing" -> {"repairing", "failed", "blocked", "waiting_manual", "cancelled"}
      [] s = "repairing" -> {"ready", "blocked", "waiting_manual", "cancelled"}
      [] s \in Retryable -> {"pending", "ready"}
      [] OTHER -> {}]

\* aggregateExecutionRunStatus, of the function from tasks to statuses.
Aggregate(status) ==
  CASE \E t \in Tasks : status[t] \notin Terminal -> "running"
    [] \A t \in Tasks : status[t] = "cancelled" -> "cancelled"
    [] \A t \in Tasks : status[t] = "passed" -> "succeeded"
    [] \A t \in Tasks : status[t] = "failed" -> "failed"
    [] OTHER -> "partial"

=============================================================================
