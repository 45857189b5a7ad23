------------------------- MODULE TestExecutionProofs -------------------------
(***************************************************************************)
(* The safety of a test run, for every number of tasks, slots, claims and  *)
(* repairs: its types and the accounting of its claims, the fencing of     *)
(* lost owners, the agreement of the rows, the refinement of ExecutionRun, *)
(* what attempts remember, and the silence of stopped slots.               *)
(*                                                                         *)
(* TypeOK is not inductive alone: that a refund leaves claims in           *)
(* 0..MaxClaims needs BudgetCountsLosses, and that a slot which is not     *)
(* idle has a task, SlotsServeTasks, is what makes task[slot[w].task]      *)
(* a record at all.  TypeInv joins the three; one lemma per action shows   *)
(* that the action keeps it.                                               *)
(***************************************************************************)
EXTENDS TestExecution, TLAPS, SequenceTheorems

LEMMA ClosedRecord ==
  ASSUME NEW r \in TaskRecords, NEW o \in Outcomes
  PROVE  /\ CloseAttempt(r, o) \in TaskRecords
         /\ CloseAttempt(r, o).status = r.status
         /\ ~Executing(r) => CloseAttempt(r, o) = r
<1>1. CASE ~Executing(r)
  BY <1>1 DEF CloseAttempt
<1>2. CASE Executing(r)
  <2> DEFINE s == r.attempts
             n == Len(s)
  <2>1. s \in Seq(Attempts) /\ s # <<>>
    BY <1>2 DEF Executing, LastStatus, TaskRecords
  <2>2. n \in 1..n /\ s[n] \in Attempts
    BY <2>1
  <2>3. [s[n] EXCEPT !.status = o] \in Attempts
    BY <2>2 DEF Attempts
  <2>4. [s EXCEPT ![n] = [s[n] EXCEPT !.status = o]] \in Seq(Attempts)
    BY <2>1, <2>2, <2>3, ExceptSeq
  <2>5. CloseAttempt(r, o) = [r EXCEPT !.attempts = [s EXCEPT ![n] = [s[n] EXCEPT !.status = o]]]
    BY <1>2 DEF CloseAttempt
  <2> QED BY <2>4, <2>5, <1>2 DEF TaskRecords
<1> QED BY <1>1, <1>2

LEMMA RevisedRecord ==
  ASSUME NEW r \in TaskRecords, NEW source \in Sources
  PROVE  NewRevision(r, source) \in TaskRecords
<1> DEFINE e == r.earlier \/ r.attempts # <<>>
<1>1. e \in BOOLEAN
  OBVIOUS
<1>2. "ready" \in TaskStatuses /\ <<>> \in Seq(Attempts)
  BY DEF TaskStatuses, Open
<1>3. NewRevision(r, source) = [r EXCEPT !.status = "ready", !.source = source,
                                         !.attempts = <<>>, !.earlier = e]
  BY DEF NewRevision
<1> HIDE DEF e
<1> QED BY <1>1, <1>2, <1>3 DEF TaskRecords

LEMMA RestatedRecord ==
  ASSUME NEW r \in TaskRecords, NEW s \in TaskStatuses
  PROVE  [r EXCEPT !.status = s] \in TaskRecords
BY DEF TaskRecords

-----------------------------------------------------------------------------
RunRecords == [status : RunStatuses, cancel : BOOLEAN]

LEMMA AggregateType == \A f : Aggregate(f) \in RunStatuses
BY DEF Aggregate, RunStatuses, Finished

LEMMA RecomputeType ==
  ASSUME run \in RunRecords, NEW ts
  PROVE  Recompute(ts) \in RunRecords /\ Recompute(ts).cancel = run.cancel
<1>1. Aggregate(Status(ts)) \in RunStatuses
  BY AggregateType
<1> QED BY <1>1 DEF Recompute, RunRecords

\* A slot that serves a claim knows its task.
SlotsServeTasks == \A w \in Slots : slot[w].pc # "idle" => slot[w].task \in Tasks

LEMMA OutdatedType ==
  ASSUME NEW s \in [Slots -> SlotRecords], NEW W
  PROVE  /\ Outdated(s, W) \in [Slots -> SlotRecords]
         /\ \A v \in Slots : /\ Outdated(s, W)[v].pc = s[v].pc
                             /\ Outdated(s, W)[v].task = s[v].task
BY DEF Outdated, SlotRecords

LEMMA GotoType ==
  ASSUME slot \in [Slots -> SlotRecords], NEW w \in Slots, NEW pc \in Places
  PROVE  /\ Goto(w, pc) \in SlotRecords
         /\ Goto(w, pc).pc = pc
         /\ Goto(w, pc).task = slot[w].task
BY DEF Goto, SlotRecords

LEMMA IdleSlotType == IdleSlot \in SlotRecords /\ IdleSlot.pc = "idle"
BY DEF IdleSlot, SlotRecords, Places, Stops

LEMMA LeaveType ==
  ASSUME NEW j \in JobRecords, NEW status \in JobStatuses
  PROVE  /\ Leave(j, status) \in JobRecords
         /\ Leave(j, status).status = status
         /\ Leave(j, status).claims = j.claims
         /\ Leave(j, status).cancel = j.cancel
BY DEF Leave, JobRecords

LEMMA QueuedJobType ==
  ASSUME NEW n \in 0..MaxJobs
  PROVE  /\ QueuedJob(n) \in JobRecords
         /\ QueuedJob(n).status = "queued"
         /\ QueuedJob(n).claims = 0
<1>1. "queued" \in JobStatuses \cup {"none"} /\ 0 \in 0..MaxClaims
  BY ExecutionAssumption DEF JobStatuses
<1> QED BY <1>1 DEF QueuedJob, JobRecords

LEMMA JobOutcomeType == \A s : JobOutcome(s) \in {"succeeded", "failed", "cancelled"}
BY DEF JobOutcome

\* The inductive invariant behind the two theorems of this section: claims of a running
\* job are positive, and its losses leave room for one more, because they are counted.
TypeInv == TypeOK /\ SlotsServeTasks /\ BudgetCountsLosses

LEMMA CommitTypes ==
  ASSUME TypeInv, NEW w \in Slots, slot[w].task \in Tasks, NEW r \in TaskRecords,
         NEW pc \in Places \ {"idle"}, Commit(w, r, pc)
  PROVE  TypeInv'
<1>1. run' \in RunRecords
  BY RecomputeType DEF TypeInv, TypeOK, RunRecords, Commit
<1>2. task' \in [Tasks -> TaskRecords]
  BY DEF TypeInv, TypeOK, Commit
<1>3. slot' \in [Slots -> SlotRecords] /\ SlotsServeTasks'
  BY OutdatedType, GotoType, SMTT(20) DEF TypeInv, TypeOK, Commit, SlotsServeTasks
<1>4. UNCHANGED <<job, lost>>
  BY DEF Commit
<1> QED BY <1>1, <1>2, <1>3, <1>4 DEF TypeInv, TypeOK, RunRecords, BudgetCountsLosses

LEMMA CloseJobTypes ==
  ASSUME TypeInv, NEW w \in Slots, slot[w].task \in Tasks, NEW r \in TaskRecords,
         CloseJob(w, r)
  PROVE  TypeInv'
<1> DEFINE t == slot[w].task
<1>1. run' \in RunRecords
  BY RecomputeType DEF TypeInv, TypeOK, RunRecords, CloseJob
<1>2. task' \in [Tasks -> TaskRecords]
  BY DEF TypeInv, TypeOK, CloseJob
<1>3. slot' \in [Slots -> SlotRecords] /\ SlotsServeTasks'
  <2> DEFINE out == Outdated(slot, IF r = task[t] THEN {} ELSE {t})
  <2>1. slot' = [out EXCEPT ![w] = IdleSlot]
    BY DEF CloseJob
  <2>2. out \in [Slots -> SlotRecords]
        /\ \A v \in Slots : out[v].pc = slot[v].pc /\ out[v].task = slot[v].task
    BY OutdatedType DEF TypeInv, TypeOK
  <2> HIDE DEF out
  <2> QED BY <2>1, <2>2, IdleSlotType DEF TypeInv, SlotsServeTasks
<1>4. job' = [job EXCEPT ![t] = Leave(job[t], JobOutcome(r.status))] /\ lost' = lost
  BY DEF CloseJob
<1>5. job' \in [Tasks -> JobRecords]
  BY <1>4, LeaveType, JobOutcomeType DEF TypeInv, TypeOK, JobStatuses
<1>6. BudgetCountsLosses'
  BY <1>4, LeaveType, JobOutcomeType DEF TypeInv, TypeOK, BudgetCountsLosses, JobStatuses
<1> QED BY <1>1, <1>2, <1>3, <1>4, <1>5, <1>6 DEF TypeInv, TypeOK, RunRecords


\* A step of the slots alone keeps the types.
LEMMA SlotChangeTypes ==
  ASSUME TypeInv, NEW w \in Slots, NEW r \in SlotRecords,
         r.pc # "idle" => r.task \in Tasks,
         slot' = [slot EXCEPT ![w] = r], UNCHANGED <<run, task, job, lost>>
  PROVE  TypeInv'
BY DEF TypeInv, TypeOK, SlotsServeTasks, BudgetCountsLosses

LEMMA TypeInit == Init => TypeInv
<1> SUFFICES ASSUME Init PROVE TypeInv
  OBVIOUS
<1>1. PICK unsupported \in SUBSET Tasks :
        /\ run = [status |-> "queued", cancel |-> FALSE]
        /\ task = [t \in Tasks |->
             [status |-> IF t \in unsupported THEN "unsupported" ELSE "pending",
              source |-> "none", attempts |-> <<>>, earlier |-> FALSE, repairs |-> 0]]
        /\ job = [t \in Tasks |-> IF t \in unsupported THEN NoJob ELSE QueuedJob(1)]
        /\ slot = [w \in Slots |-> IdleSlot]
        /\ lost = [t \in Tasks |-> 0]
  BY DEF Init
<1>2. run \in RunRecords
  BY <1>1 DEF RunRecords, RunStatuses
<1>3. task \in [Tasks -> TaskRecords]
  <2>1. <<>> \in Seq(Attempts) /\ 0 \in 0..MaxRepairs
    BY ExecutionAssumption
  <2> QED BY <1>1, <2>1 DEF TaskRecords, TaskStatuses, Terminal, Open, Sources
<1>4. NoJob \in JobRecords /\ QueuedJob(1) \in JobRecords
  <2>1. 0 \in 0..MaxJobs /\ 1 \in 0..MaxJobs
    BY ExecutionAssumption
  <2>2. QueuedJob(0) \in JobRecords /\ QueuedJob(1) \in JobRecords
    BY <2>1, QueuedJobType
  <2>3. NoJob \in JobRecords
    BY <2>2 DEF NoJob, JobRecords
  <2> QED BY <2>2, <2>3
<1>5. NoJob.status = "none" /\ QueuedJob(1).status = "queued" /\ QueuedJob(1).claims = 0
  BY DEF NoJob, QueuedJob
<1>6. lost \in [Tasks -> 0..MaxClaims]
  BY <1>1, ExecutionAssumption
<1> QED BY <1>1, <1>2, <1>3, <1>4, <1>5, <1>6, IdleSlotType
        DEF TypeInv, TypeOK, RunRecords, SlotsServeTasks, BudgetCountsLosses


\* The transitions of the database, one by one.
LEMMA ClaimTypes ==
  ASSUME TypeInv, NEW w \in Slots, NEW t \in Tasks, NEW lane \in Lanes, Claim(w, t, lane)
  PROVE  TypeInv'
<1>1. job[t] \in JobRecords /\ lost[t] \in 0..MaxClaims /\ MaxClaims \in Nat
  BY ExecutionAssumption DEF TypeInv, TypeOK
<1>2. /\ job[t].status \in {"queued", "running"}
      /\ job[t].claims \in Nat /\ job[t].claims < MaxClaims
  BY <1>1 DEF Claim, Claimable, JobRecords
<1>3. /\ job[t].status = "queued" => job[t].claims = lost[t]
      /\ job[t].status = "running" => job[t].claims = lost[t] + 1
  BY DEF TypeInv, BudgetCountsLosses
<1> DEFINE j == [job[t] EXCEPT !.status = "running", !.claims = @ + 1,
                               !.owner = w, !.expired = FALSE]
<1>4. j \in JobRecords /\ j.status = "running" /\ j.claims = job[t].claims + 1
  <2>1. job[t].claims + 1 \in 0..MaxClaims /\ "running" \in JobStatuses
    BY <1>1, <1>2 DEF JobStatuses
  <2> QED BY <1>1, <2>1 DEF JobRecords
<1>5. job' = [job EXCEPT ![t] = j]
  BY DEF Claim
<1>6. lost' \in [Tasks -> 0..MaxClaims] /\ lost'[t] + 1 = j.claims
      /\ \A u \in Tasks \ {t} : lost'[u] = lost[u]
  BY <1>1, <1>2, <1>3, <1>4 DEF Claim, TypeInv, TypeOK
<1>7. slot' \in [Slots -> SlotRecords] /\ SlotsServeTasks'
  BY IdleSlotType DEF Claim, IdleSlot, SlotRecords, Places, TypeInv, TypeOK, SlotsServeTasks
<1>8. UNCHANGED <<run, task>>
  BY DEF Claim
<1> HIDE DEF j
<1> QED BY <1>4, <1>5, <1>6, <1>7, <1>8 DEF TypeInv, TypeOK, BudgetCountsLosses

LEMMA ReconcileTypes ==
  ASSUME TypeInv, NEW t \in Tasks, Reconcile(t)
  PROVE  TypeInv'
<1> DEFINE status == ReconciledStatus(t)
           outcome == IF status = "cancelled" THEN "cancelled" ELSE "infrastructure_error"
           closed == CloseAttempt(task[t], outcome)
<1>1. task[t] \in TaskRecords /\ job[t] \in JobRecords
  BY DEF TypeInv, TypeOK
<1>2. status \in TaskStatuses
  BY <1>1 DEF ReconciledStatus, TaskRecords, TaskStatuses, Terminal, Open
<1>3. closed \in TaskRecords
  <2>1. outcome \in Outcomes
    BY DEF Outcomes
  <2> QED BY <1>1, <2>1, ClosedRecord
<1>4. task' = [task EXCEPT ![t] = [closed EXCEPT !.status = status]]
  BY DEF Reconcile
<1>5. task' \in [Tasks -> TaskRecords]
  BY <1>2, <1>3, <1>4, RestatedRecord DEF TypeInv, TypeOK
<1>6. run' \in RunRecords
  BY RecomputeType DEF TypeInv, TypeOK, RunRecords, Reconcile
<1>7. slot' \in [Slots -> SlotRecords] /\ SlotsServeTasks'
  BY OutdatedType DEF Reconcile, TypeInv, TypeOK, SlotsServeTasks
<1>8. job' = job \/ job' = [job EXCEPT ![t] = Leave(job[t], JobOutcome(status))]
  BY DEF Reconcile
<1>9. lost' = lost
  BY DEF Reconcile
<1> HIDE DEF status
<1>10. job' \in [Tasks -> JobRecords] /\ BudgetCountsLosses'
  BY <1>1, <1>8, <1>9, LeaveType, JobOutcomeType
     DEF TypeInv, TypeOK, BudgetCountsLosses, JobStatuses
<1> QED BY <1>5, <1>6, <1>7, <1>9, <1>10 DEF TypeInv, TypeOK, RunRecords

LEMMA ExpireTypes ==
  ASSUME TypeInv, NEW t \in Tasks, Expire(t)
  PROVE  TypeInv'
<1>1. job \in [Tasks -> JobRecords] /\ job[t] \in JobRecords
  BY DEF TypeInv, TypeOK
<1>2. [job[t] EXCEPT !.expired = TRUE] \in JobRecords
  BY <1>1 DEF JobRecords
<1>3. job' = [job EXCEPT ![t] = [job[t] EXCEPT !.expired = TRUE]]
  BY <1>1 DEF Expire, JobRecords
<1>4. /\ job' \in [Tasks -> JobRecords]
      /\ \A u \in Tasks : job'[u].status = job[u].status /\ job'[u].claims = job[u].claims
  BY <1>1, <1>2, <1>3 DEF JobRecords
<1>5. UNCHANGED <<run, task, slot, lost>>
  BY DEF Expire
<1> QED BY <1>4, <1>5 DEF TypeInv, TypeOK, SlotsServeTasks, BudgetCountsLosses

LEMMA YieldTypes ==
  ASSUME TypeInv, NEW w \in Slots, Yield(w)
  PROVE  TypeInv'
<1> DEFINE t == slot[w].task
<1>1. t \in Tasks /\ job[t].status = "running"
  BY DEF Yield, HoldsLease, Owns, TypeInv, SlotsServeTasks
<1>2. job[t] \in JobRecords /\ lost[t] \in 0..MaxClaims /\ job[t].claims = lost[t] + 1
  BY <1>1 DEF TypeInv, TypeOK, BudgetCountsLosses
<1>3. RefundedJob(job[t]) = [Leave(job[t], "queued") EXCEPT !.claims = job[t].claims - 1]
  BY <1>2, LeaveType DEF RefundedJob, JobStatuses
<1>4. /\ RefundedJob(job[t]) \in JobRecords
      /\ RefundedJob(job[t]).status = "queued"
      /\ RefundedJob(job[t]).claims = lost[t]
  <2>1. Leave(job[t], "queued") \in JobRecords /\ Leave(job[t], "queued").status = "queued"
    BY <1>2, LeaveType DEF JobStatuses
  <2> QED BY <1>2, <1>3, <2>1 DEF JobRecords
<1>5. job' = [job EXCEPT ![t] = RefundedJob(job[t])] /\ UNCHANGED <<run, task, lost>>
  BY DEF Yield
<1>6. slot' \in [Slots -> SlotRecords] /\ SlotsServeTasks'
  BY IdleSlotType DEF Yield, TypeInv, TypeOK, SlotsServeTasks
<1> QED BY <1>1, <1>4, <1>5, <1>6 DEF TypeInv, TypeOK, BudgetCountsLosses


\* The stages of a task that end in Commit: only the new record has to be looked at.
LEMMA StageTypes ==
  ASSUME TypeInv, NEW w \in Slots,
         Prepare(w) \/ Generate(w) \/ AuthenticationFails(w) \/ Diagnose(w) \/ Repair(w)
  PROVE  TypeInv'
<1> DEFINE t == slot[w].task
           r == task[t]
<1>1. slot[w].pc = "stage" /\ slot[w].pc # "idle"
  BY DEF Prepare, Generate, AuthenticationFails, Diagnose, Repair, At
<1>2. t \in Tasks /\ r \in TaskRecords
  BY <1>1 DEF TypeInv, TypeOK, SlotsServeTasks
<1>3. "loop" \in Places \ {"idle"}
  BY DEF Places
<1>4. GeneratedSource(r) \in Sources /\ "repair" \in Sources
  BY DEF GeneratedSource, Sources
<1>5. \A s \in TaskStatuses : [r EXCEPT !.status = s] \in TaskRecords
  BY <1>2, RestatedRecord
<1>6. NewRevision(r, GeneratedSource(r)) \in TaskRecords
  BY <1>2, <1>4, RevisedRecord
<1>7. CASE Prepare(w)
  <2>1. [r EXCEPT !.status = "script_generating"] \in TaskRecords
    BY <1>5 DEF TaskStatuses, Open
  <2> QED BY <1>2, <1>3, <1>6, <1>7, <2>1, CommitTypes DEF Prepare
<1>8. CASE Generate(w)
  BY <1>2, <1>3, <1>6, <1>8, CommitTypes DEF Generate
<1>9. CASE AuthenticationFails(w)
  <2> DEFINE s == IF r.status = "retrying" THEN "blocked" ELSE "waiting_manual"
  <2>1. s \in TaskStatuses
    BY DEF TaskStatuses, Terminal
  <2>2. Commit(w, [r EXCEPT !.status = s], "loop")
    BY <1>9 DEF AuthenticationFails
  <2> HIDE DEF s
  <2> QED BY <1>2, <1>3, <1>5, <2>1, <2>2, CommitTypes
<1>10. CASE Diagnose(w)
  <2>1. PICK s \in {"failed", "blocked", "waiting_manual", "repairing"} :
          Commit(w, [r EXCEPT !.status = s], "loop")
    BY <1>10 DEF Diagnose
  <2>2. s \in TaskStatuses
    BY DEF TaskStatuses, Terminal, Open
  <2> QED BY <1>2, <1>3, <1>5, <2>1, <2>2, CommitTypes
<1>11. CASE Repair(w)
  <2>1. CASE Commit(w, [r EXCEPT !.status = "waiting_manual"], "loop")
    <3>1. [r EXCEPT !.status = "waiting_manual"] \in TaskRecords
      BY <1>5 DEF TaskStatuses, Terminal
    <3> QED BY <1>2, <1>3, <2>1, <3>1, CommitTypes
  <2>2. CASE MayRepair(r)
             /\ Commit(w, [NewRevision(r, "repair") EXCEPT !.repairs = @ + 1], "loop")
    <3> DEFINE n == NewRevision(r, "repair")
    <3>1. n \in TaskRecords /\ n.repairs = r.repairs
      BY <1>2, <1>4, RevisedRecord DEF NewRevision, TaskRecords
    <3>2. n.repairs + 1 \in 0..MaxRepairs
      BY <1>2, <2>2, <3>1, ExecutionAssumption DEF MayRepair, TaskRecords
    <3> HIDE DEF n
    <3>3. [n EXCEPT !.repairs = @ + 1] \in TaskRecords
      BY <3>1, <3>2 DEF TaskRecords
    <3>4. Commit(w, [n EXCEPT !.repairs = @ + 1], "loop")
      BY <2>2 DEF n
    <3> QED BY <1>2, <1>3, <3>3, <3>4, CommitTypes
  <2> QED BY <1>11, <2>1, <2>2 DEF Repair
<1> QED BY <1>7, <1>8, <1>9, <1>10, <1>11

LEMMA StartAttemptTypes ==
  ASSUME TypeInv, NEW w \in Slots, StartAttempt(w)
  PROVE  TypeInv'
<1> DEFINE t == slot[w].task
           r == task[t]
           attempt == [kind |-> AttemptKind(r), status |-> "running"]
           started == [r EXCEPT !.attempts = Append(r.attempts, attempt), !.status = "running"]
           mine == [slot[w] EXCEPT !.pc = "running", !.seen = "running", !.current = TRUE]
<1>1. slot[w].pc = "stage" /\ slot[w].pc # "idle"
  BY DEF StartAttempt, At
<1>2. t \in Tasks /\ r \in TaskRecords /\ slot[w] \in SlotRecords
  BY <1>1 DEF TypeInv, TypeOK, SlotsServeTasks
<1>3. attempt \in Attempts
  BY DEF AttemptKind, Attempts, Kinds, Outcomes
<1>4. started \in TaskRecords
  <2>1. Append(r.attempts, attempt) \in Seq(Attempts)
    BY <1>2, <1>3 DEF TaskRecords
  <2>2. "running" \in TaskStatuses
    BY DEF TaskStatuses, Open
  <2> HIDE DEF attempt
  <2> QED BY <1>2, <2>1, <2>2 DEF TaskRecords
<1>5. mine \in SlotRecords /\ mine.pc = "running" /\ mine.task = t
  BY <1>2 DEF SlotRecords, Places, TaskStatuses, Open
<1>6. task' = [task EXCEPT ![t] = started]
  BY DEF StartAttempt, TypeInv, TypeOK
<1>7. run' \in RunRecords
  BY RecomputeType DEF TypeInv, TypeOK, RunRecords, StartAttempt
<1>8. slot' = [Outdated(slot, {t}) EXCEPT ![w] = mine] /\ UNCHANGED <<job, lost>>
  BY DEF StartAttempt
<1> HIDE DEF started, mine
<1>9. slot' \in [Slots -> SlotRecords] /\ SlotsServeTasks'
  BY <1>2, <1>5, <1>8, OutdatedType DEF TypeInv, TypeOK, SlotsServeTasks
<1>10. task' \in [Tasks -> TaskRecords]
  BY <1>4, <1>6 DEF TypeInv, TypeOK
<1> QED BY <1>7, <1>8, <1>9, <1>10 DEF TypeInv, TypeOK, RunRecords, BudgetCountsLosses

LEMMA SettleTypes ==
  ASSUME TypeInv, NEW w \in Slots,
         SettleVerdict(w) \/ SettleInfrastructureError(w) \/ SettleCancelled(w)
  PROVE  TypeInv'
<1> DEFINE t == slot[w].task
           r == task[t]
<1>1. slot[w].pc = "running" /\ slot[w].pc # "idle"
  BY DEF SettleVerdict, SettleInfrastructureError, SettleCancelled
<1>2. t \in Tasks /\ r \in TaskRecords
  BY <1>1 DEF TypeInv, TypeOK, SlotsServeTasks
<1>3. PICK o \in Outcomes, s \in TaskStatuses, pc \in {"loop", "failing"} :
        Commit(w, [CloseAttempt(r, o) EXCEPT !.status = s], pc)
  BY DEF SettleVerdict, SettleInfrastructureError, SettleCancelled, Outcomes, TaskStatuses,
         Terminal, Open, AfterFailure
<1>4. [CloseAttempt(r, o) EXCEPT !.status = s] \in TaskRecords
  BY <1>2, ClosedRecord, RestatedRecord
<1>5. pc \in Places \ {"idle"}
  BY DEF Places
<1> QED BY <1>2, <1>3, <1>4, <1>5, CommitTypes


LEMMA AbandonTypes ==
  ASSUME TypeInv, NEW w \in Slots, Abandon(w)
  PROVE  TypeInv'
BY SlotChangeTypes, IdleSlotType DEF Abandon

LEMMA WorkerTypes ==
  ASSUME TypeInv, NEW w \in Slots,
         \/ Read(w) \/ StageFails(w) \/ Conclude(w) \/ DropResult(w) \/ Crash(w)
         \/ HeartbeatCancelled(w) \/ HeartbeatLost(w) \/ Interrupt(w)
  PROVE  TypeInv'
<1> DEFINE t == slot[w].task
<1>1. UNCHANGED <<run, task, job, lost>>
  BY DEF Read, StageFails, Conclude, DropResult, Crash, HeartbeatCancelled, HeartbeatLost,
         Interrupt, Stop
<1>2. slot[w].pc # "idle" /\ slot[w] \in SlotRecords
  BY DEF Read, StageFails, Conclude, DropResult, Crash, HeartbeatCancelled, HeartbeatLost,
         Interrupt, Stop, TypeInv, TypeOK
<1>3. t \in Tasks /\ task[t] \in TaskRecords
  BY <1>2 DEF TypeInv, TypeOK, SlotsServeTasks
<1>4. \A pc \in Places : Goto(w, pc) \in SlotRecords /\ Goto(w, pc).task = t
  BY GotoType DEF TypeInv, TypeOK
<1>5. ASSUME NEW pc \in Places, slot' = [slot EXCEPT ![w] = Goto(w, pc)]
      PROVE  TypeInv'
  BY <1>1, <1>3, <1>4, <1>5, SlotChangeTypes
<1>6. CASE slot' = [slot EXCEPT ![w] = Goto(w, "failing")]
           \/ slot' = [slot EXCEPT ![w] = Goto(w, "finishing")]
  BY <1>5, <1>6 DEF Places
<1>7. CASE slot' = [slot EXCEPT ![w] = IdleSlot]
  BY <1>1, <1>7, IdleSlotType, SlotChangeTypes
<1>8. CASE Read(w) /\ slot[w].stop = "none"
  <2> DEFINE n == [slot[w] EXCEPT !.pc = "stage", !.seen = task[t].status, !.current = TRUE]
  <2>1. n \in SlotRecords /\ n.task = t
    <3>1. task[t].status \in TaskStatuses /\ "stage" \in Places
      BY <1>3 DEF TaskRecords, Places
    <3> QED BY <1>2, <3>1 DEF SlotRecords
  <2>2. slot' = [slot EXCEPT ![w] = n]
    BY <1>8 DEF Read
  <2> HIDE DEF n
  <2> QED BY <1>1, <1>3, <2>1, <2>2, SlotChangeTypes
<1>9. CASE \E reason \in Stops : slot' = [slot EXCEPT ![w].stop = reason]
  <2>1. PICK reason \in Stops : slot' = [slot EXCEPT ![w].stop = reason]
    BY <1>9
  <2> DEFINE n == [slot[w] EXCEPT !.stop = reason]
  <2>2. n \in SlotRecords /\ n.task = t
    BY <1>2 DEF SlotRecords
  <2>3. slot' = [slot EXCEPT ![w] = n]
    BY <2>1
  <2> HIDE DEF n
  <2> QED BY <1>1, <1>3, <2>2, <2>3, SlotChangeTypes
<1>10. CASE HeartbeatCancelled(w) \/ HeartbeatLost(w) \/ Interrupt(w)
  BY <1>9, <1>10 DEF HeartbeatCancelled, HeartbeatLost, Interrupt, Stop, Stops
<1>11. CASE Read(w) /\ slot[w].stop # "none"
  BY <1>6, <1>11 DEF Read
<1>12. CASE StageFails(w) \/ Conclude(w) \/ DropResult(w)
  BY <1>6, <1>12 DEF StageFails, Conclude, DropResult
<1>13. CASE Crash(w)
  BY <1>7, <1>13 DEF Crash
<1> QED BY <1>8, <1>10, <1>11, <1>12, <1>13

LEMMA EndClaimTypes ==
  ASSUME TypeInv, NEW w \in Slots, EndClaim(w)
  PROVE  TypeInv'
<1> DEFINE t == slot[w].task
<1>1. slot[w].pc # "idle" /\ slot[w] \in SlotRecords
  BY DEF EndClaim, Finish, FailCancelled, Release, GiveUp, TypeInv, TypeOK
<1>2. t \in Tasks /\ task[t] \in TaskRecords /\ job[t] \in JobRecords
  BY <1>1 DEF TypeInv, TypeOK, SlotsServeTasks
<1>3. CASE CloseJob(w, task[t])
  BY <1>2, <1>3, CloseJobTypes
<1>4. CASE CloseJob(w, [task[t] EXCEPT !.status = "blocked"])
  BY <1>2, <1>4, CloseJobTypes, RestatedRecord DEF TaskStatuses, Terminal
<1>5. CASE Abandon(w)
  BY <1>5, AbandonTypes
<1>6. CASE Finish(w) /\ ~FinishAccepted(w)
  <2> DEFINE n == [slot[w] EXCEPT !.pc = "failing"]
  <2>1. n \in SlotRecords /\ n.task = t
    BY <1>1 DEF SlotRecords, Places
  <2>2. slot' = [slot EXCEPT ![w] = n] /\ UNCHANGED <<run, task, job, lost>>
    BY <1>6 DEF Finish
  <2> HIDE DEF n
  <2> QED BY <1>2, <2>1, <2>2, SlotChangeTypes
<1>7. CASE /\ Release(w) /\ job[t].claims < MaxClaims
           /\ job' = [job EXCEPT ![t] = Leave(job[t], "queued")]
           /\ lost' = [lost EXCEPT ![t] = @ + 1]
           /\ slot' = [slot EXCEPT ![w] = IdleSlot]
           /\ UNCHANGED <<run, task>>
  <2>1. job[t].status = "running"
    BY <1>7 DEF Release, MayRelease, HoldsLease, Owns
  <2>2. job[t].claims = lost[t] + 1 /\ lost[t] \in 0..MaxClaims
    BY <1>2, <2>1 DEF TypeInv, TypeOK, BudgetCountsLosses
  <2>3. lost' \in [Tasks -> 0..MaxClaims] /\ lost'[t] = job[t].claims
    BY <1>2, <1>7, <2>2, ExecutionAssumption DEF TypeInv, TypeOK
  <2>4. job' \in [Tasks -> JobRecords] /\ BudgetCountsLosses'
    BY <1>2, <1>7, <2>3, LeaveType DEF TypeInv, TypeOK, BudgetCountsLosses, JobStatuses
  <2>5. slot' \in [Slots -> SlotRecords] /\ SlotsServeTasks'
    BY <1>7, IdleSlotType DEF TypeInv, TypeOK, SlotsServeTasks
  <2> QED BY <1>7, <2>3, <2>4, <2>5 DEF TypeInv, TypeOK
<1>8. CASE Finish(w)
  BY <1>3, <1>6, <1>8 DEF Finish
<1>9. CASE FailCancelled(w)
  BY <1>3, <1>5, <1>9 DEF FailCancelled
<1>10. CASE Release(w)
  BY <1>3, <1>4, <1>7, <1>10 DEF Release
<1>11. CASE GiveUp(w)
  BY <1>5, <1>11 DEF GiveUp
<1> QED BY <1>8, <1>9, <1>10, <1>11 DEF EndClaim

LEMMA CancelRunTypes ==
  ASSUME TypeInv, CancelRun
  PROVE  TypeInv'
<1> DEFINE hit == {t \in Tasks : task[t].status \in Open /\ ~Executing(task[t])}
<1>1. /\ task' = [t \in Tasks |->
                   IF t \in hit THEN [task[t] EXCEPT !.status = "cancelled"] ELSE task[t]]
      /\ job' = [t \in Tasks |-> IF Active(job[t]) THEN CancelledJob(t) ELSE job[t]]
      /\ run' = [Recompute(task') EXCEPT !.cancel = TRUE]
      /\ slot' = Outdated(slot, hit)
      /\ lost' = lost
  BY DEF CancelRun
<1>2. task' \in [Tasks -> TaskRecords]
  <2>1. \A t \in Tasks : [task[t] EXCEPT !.status = "cancelled"] \in TaskRecords
    BY RestatedRecord DEF TypeInv, TypeOK, TaskStatuses, Terminal
  <2> QED BY <1>1, <2>1 DEF TypeInv, TypeOK
<1>3. run' \in RunRecords
  BY <1>1, RecomputeType DEF TypeInv, TypeOK, RunRecords
<1>4. slot' \in [Slots -> SlotRecords] /\ SlotsServeTasks'
  <2> HIDE DEF hit
  <2> QED BY <1>1, OutdatedType DEF TypeInv, TypeOK, SlotsServeTasks
<1>5. ASSUME NEW t \in Tasks
      PROVE  LET c == CancelledJob(t) IN
             /\ c \in JobRecords
             /\ c.status \in {"queued", "running"} =>
                  c.status = job[t].status /\ c.claims = job[t].claims
  <2>1. job[t] \in JobRecords
    BY DEF TypeInv, TypeOK
  <2> DEFINE told == [job[t] EXCEPT !.cancel = TRUE]
  <2>2. /\ told \in JobRecords /\ told.status = job[t].status
        /\ told.claims = job[t].claims
    BY <2>1 DEF JobRecords
  <2> HIDE DEF told
  <2>3. CASE task[t].status \in Terminal
    <3>1. JobOutcome(task[t].status) \in JobStatuses \ {"queued", "running"}
      BY JobOutcomeType DEF JobStatuses
    <3> QED BY <2>1, <2>3, <3>1, LeaveType DEF CancelledJob
  <2>4. CASE task[t].status \notin Terminal /\ Executing(task[t])
    BY <2>2, <2>4 DEF CancelledJob, told
  <2>5. CASE task[t].status \notin Terminal /\ ~Executing(task[t])
    <3>1. CancelledJob(t) = Leave(told, "cancelled")
      BY <2>5 DEF CancelledJob, told
    <3> QED BY <2>2, <3>1, LeaveType DEF JobStatuses
  <2> QED BY <2>3, <2>4, <2>5
<1>6. job' \in [Tasks -> JobRecords] /\ BudgetCountsLosses'
  BY <1>1, <1>5 DEF TypeInv, TypeOK, BudgetCountsLosses
<1> QED BY <1>1, <1>2, <1>3, <1>4, <1>6 DEF TypeInv, TypeOK, RunRecords

LEMMA RetryTaskTypes ==
  ASSUME TypeInv, NEW t \in Tasks, NEW status \in {"pending", "ready"}, RetryTask(t, status)
  PROVE  TypeInv'
<1>1. task[t] \in TaskRecords /\ job[t] \in JobRecords
  BY DEF TypeInv, TypeOK
<1>2. task' \in [Tasks -> TaskRecords]
  BY <1>1, RestatedRecord DEF RetryTask, TypeInv, TypeOK, TaskStatuses, Open
<1>3. run' \in RunRecords
  BY DEF RetryTask, TypeInv, TypeOK, RunRecords, RunStatuses
<1>4. job[t].number + 1 \in 0..MaxJobs
  BY <1>1, ExecutionAssumption DEF RetryTask, JobRecords
<1>5. job' = [job EXCEPT ![t] = QueuedJob(job[t].number + 1)]
  BY DEF RetryTask
<1>6. lost' \in [Tasks -> 0..MaxClaims] /\ lost' = [lost EXCEPT ![t] = 0]
  BY ExecutionAssumption DEF RetryTask, TypeInv, TypeOK
<1>7. job' \in [Tasks -> JobRecords] /\ BudgetCountsLosses'
  BY <1>4, <1>5, <1>6, QueuedJobType DEF TypeInv, TypeOK, BudgetCountsLosses
<1>8. slot' \in [Slots -> SlotRecords] /\ SlotsServeTasks'
  <2>1. slot \in [Slots -> SlotRecords] /\ SlotsServeTasks BY DEF TypeInv, TypeOK
  <2>2. slot' = Outdated(slot, {t}) BY DEF RetryTask
  <2> QED BY <2>1, <2>2, OutdatedType DEF SlotsServeTasks
<1> QED BY <1>2, <1>3, <1>6, <1>7, <1>8 DEF TypeInv, TypeOK, RunRecords

LEMMA TypeStep == TypeInv /\ [Next]_vars => TypeInv'
<1> SUFFICES ASSUME TypeInv, [Next]_vars PROVE TypeInv'
  OBVIOUS
<1>1. ASSUME NEW w \in Slots, Stage(w) PROVE TypeInv'
  BY <1>1, StageTypes, StartAttemptTypes, YieldTypes, WorkerTypes DEF Stage
<1>2. ASSUME NEW w \in Slots, Settle(w) PROVE TypeInv'
  BY <1>2, SettleTypes, WorkerTypes DEF Settle
<1>3. ASSUME NEW w \in Slots, SlotStep(w) PROVE TypeInv'
  BY <1>1, <1>2, <1>3, WorkerTypes, EndClaimTypes DEF SlotStep
<1>4. ASSUME NEW w \in Slots,
             Crash(w) \/ HeartbeatCancelled(w) \/ HeartbeatLost(w) \/ Interrupt(w)
      PROVE  TypeInv'
  BY <1>4, WorkerTypes
<1>5. ASSUME NEW t \in Tasks, ClaimAny(t) \/ Reconcile(t) \/ Expire(t) PROVE TypeInv'
  BY <1>5, ClaimTypes, ReconcileTypes, ExpireTypes DEF ClaimAny
<1>6. CASE UNCHANGED vars
  BY <1>6 DEF vars, TypeInv, TypeOK, SlotsServeTasks, BudgetCountsLosses
<1> QED BY <1>3, <1>4, <1>5, <1>6, CancelRunTypes, RetryTaskTypes DEF Next

\* Every reachable state is one the tables' column types and the code's types admit.
THEOREM TypeCorrect == Spec => []TypeOK
<1>1. TypeInv => TypeOK
  BY DEF TypeInv
<1> QED BY <1>1, TypeInit, TypeStep, PTL DEF Spec

\* For any number of tasks, slots and claims: a claim that ended at the boundary of a lane
\* costs nothing, each abnormal end of one costs exactly one of the job's claims.
THEOREM BudgetExact == Spec => []BudgetCountsLosses
<1>1. TypeInv => BudgetCountsLosses
  BY DEF TypeInv
<1> QED BY <1>1, TypeInit, TypeStep, PTL DEF Spec

-----------------------------------------------------------------------------
(***************************************************************************)
(* Fencing, for every number of tasks and slots: the owner of a lease      *)
(* works on the state its task really has.  That is what entitles a stage  *)
(* to write what it writes, minutes after it read the task.                *)
(*                                                                         *)
(* The invariant is split into what a snapshot owes to the lease, and what *)
(* it says as long as it is current.  A step keeps it if the snapshots of  *)
(* the tasks it writes are outdated, and if no slot that does not move     *)
(* owns one of these tasks afterwards: WriteKeepsSnapshots.  Every action  *)
(* is an instance of it.                                                   *)
(***************************************************************************)

OwnersAreCurrent ==
  \A w \in Slots : Owns(w) /\ slot[w].pc \in {"stage", "running"} => slot[w].current

SnapshotsAreTrue ==
  \A w \in Slots :
    /\ slot[w].current => /\ slot[w].pc \in {"stage", "running"}
                          /\ slot[w].seen = task[slot[w].task].status
    /\ slot[w].pc = "running" => slot[w].seen = "running"

SnapshotInv == OwnersAreCurrent /\ SnapshotsAreTrue

\* A write of the tasks in W, outdating them for all slots but those in M, which move.
LEMMA WriteKeepsSnapshots ==
  ASSUME TypeInv, TypeInv', SnapshotInv, NEW W, NEW M,
         \A t \in Tasks : task'[t].status # task[t].status => t \in W,
         \A v \in Slots \ M : slot'[v] = Outdated(slot, W)[v],
         \A v \in Slots \ M : Owns(v)' => Owns(v) /\ slot[v].task \notin W,
         \A v \in Slots \cap M :
           /\ slot'[v].current => /\ slot'[v].pc \in {"stage", "running"}
                                  /\ slot'[v].seen = task'[slot'[v].task].status
           /\ slot'[v].pc = "running" => slot'[v].seen = "running"
           /\ slot'[v].pc \in {"stage", "running"} => slot'[v].current \/ ~Owns(v)'
  PROVE  SnapshotInv'
<1>1. ASSUME NEW v \in Slots \ M
      PROVE  slot'[v] = IF slot[v].task \in W THEN [slot[v] EXCEPT !.current = FALSE] ELSE slot[v]
  BY DEF Outdated
<1>2. ASSUME NEW v \in Slots \ M
      PROVE  /\ slot'[v].pc = slot[v].pc /\ slot'[v].seen = slot[v].seen
             /\ slot'[v].task = slot[v].task
             /\ slot'[v].current => slot[v].current /\ slot[v].task \notin W
             /\ slot[v].task \notin W => slot'[v].current = slot[v].current
  BY <1>1 DEF TypeInv, TypeOK, SlotRecords
<1>3. OwnersAreCurrent'
  <2> SUFFICES ASSUME NEW v \in Slots, Owns(v)', slot'[v].pc \in {"stage", "running"}
               PROVE  slot'[v].current
    BY DEF OwnersAreCurrent
  <2>1. CASE v \in M
    BY <2>1
  <2>2. CASE v \notin M
    BY <1>2, <2>2 DEF SnapshotInv, OwnersAreCurrent
  <2> QED BY <2>1, <2>2
<1>4. SnapshotsAreTrue'
  <2> SUFFICES ASSUME NEW v \in Slots
               PROVE  /\ slot'[v].current => /\ slot'[v].pc \in {"stage", "running"}
                                             /\ slot'[v].seen = task'[slot'[v].task].status
                      /\ slot'[v].pc = "running" => slot'[v].seen = "running"
    BY DEF SnapshotsAreTrue
  <2>1. CASE v \in M
    BY <2>1
  <2>2. CASE v \notin M
    <3>1. slot[v].current => slot[v].task \in Tasks
      BY DEF SnapshotInv, SnapshotsAreTrue, TypeInv, SlotsServeTasks
    <3>2. slot'[v].current => task'[slot[v].task].status = task[slot[v].task].status
      BY <1>2, <2>2, <3>1
    <3> QED BY <1>2, <2>2, <3>1, <3>2 DEF SnapshotInv, SnapshotsAreTrue
  <2> QED BY <2>1, <2>2
<1> QED BY <1>3, <1>4 DEF SnapshotInv

LEMMA OutdatedNothing ==
  ASSUME slot \in [Slots -> SlotRecords], NEW v \in Slots
  PROVE  Outdated(slot, {})[v] = slot[v]
BY DEF Outdated

LEMMA GotoSnapshot ==
  ASSUME slot \in [Slots -> SlotRecords], NEW w \in Slots, NEW pc \in Places
  PROVE  ~Goto(w, pc).current /\ Goto(w, pc).pc = pc
BY DEF Goto, SlotRecords

LEMMA IdleSlotSnapshot == ~IdleSlot.current /\ IdleSlot.pc = "idle"
BY DEF IdleSlot

\* A slot moves without a write.
LEMMA MoveKeepsSnapshots ==
  ASSUME TypeInv, TypeInv', SnapshotInv, NEW w \in Slots, NEW x,
         slot' = [slot EXCEPT ![w] = x], UNCHANGED <<run, task, job, lost>>,
         x.current => /\ x.pc \in {"stage", "running"}
                      /\ x.seen = task[x.task].status,
         x.pc = "running" => x.seen = "running",
         x.pc \in {"stage", "running"} => x.current \/ ~Owns(w)'
  PROVE  SnapshotInv'
<1> DEFINE W == {}
<1>1. slot'[w] = x /\ \A v \in Slots \ {w} : slot'[v] = slot[v]
  BY DEF TypeInv, TypeOK
<1>2. \A v \in Slots \ {w} : slot'[v] = Outdated(slot, W)[v]
  BY <1>1, OutdatedNothing DEF TypeInv, TypeOK
<1>3. \A v \in Slots \ {w} : Owns(v)' => Owns(v) /\ slot[v].task \notin W
  BY <1>1 DEF Owns
<1>4. \A t \in Tasks : task'[t].status # task[t].status => t \in W
  OBVIOUS
<1>5. \A v \in Slots \cap {w} :
        /\ slot'[v].current => /\ slot'[v].pc \in {"stage", "running"}
                               /\ slot'[v].seen = task'[slot'[v].task].status
        /\ slot'[v].pc = "running" => slot'[v].seen = "running"
        /\ slot'[v].pc \in {"stage", "running"} => slot'[v].current \/ ~Owns(v)'
  BY <1>1
<1> HIDE DEF W
<1> QED BY <1>2, <1>3, <1>4, <1>5, WriteKeepsSnapshots

LEMMA CommitKeepsSnapshots ==
  ASSUME TypeInv, TypeInv', SnapshotInv, NEW w \in Slots, Owns(w), NEW r,
         NEW pc \in Places \ {"stage", "running"}, Commit(w, r, pc)
  PROVE  SnapshotInv'
<1> DEFINE t == slot[w].task
<1>1. task' = [task EXCEPT ![t] = r] /\ UNCHANGED job
      /\ slot' = [Outdated(slot, {t}) EXCEPT ![w] = Goto(w, pc)]
  BY DEF Commit
<1>2. slot'[w] = Goto(w, pc)
      /\ \A v \in Slots \ {w} : slot'[v] = Outdated(slot, {t})[v]
  BY <1>1, OutdatedType DEF TypeInv, TypeOK
<1>3. \A v \in Slots \ {w} : slot'[v].task = slot[v].task
  BY <1>2, OutdatedType DEF TypeInv, TypeOK
<1>4. \A v \in Slots \ {w} : Owns(v)' => Owns(v) /\ slot[v].task \notin {t}
  BY <1>1, <1>3 DEF Owns
<1>5. \A u \in Tasks : task'[u].status # task[u].status => u \in {t}
  BY <1>1 DEF TypeInv, TypeOK
<1>6. ~slot'[w].current /\ slot'[w].pc \notin {"stage", "running"}
  BY <1>2, GotoSnapshot DEF TypeInv, TypeOK
<1>7. \A v \in Slots \cap {w} :
        /\ slot'[v].current => /\ slot'[v].pc \in {"stage", "running"}
                               /\ slot'[v].seen = task'[slot'[v].task].status
        /\ slot'[v].pc = "running" => slot'[v].seen = "running"
        /\ slot'[v].pc \in {"stage", "running"} => slot'[v].current \/ ~Owns(v)'
  BY <1>6
<1> HIDE DEF t
<1> QED BY <1>2, <1>4, <1>5, <1>7, WriteKeepsSnapshots

LEMMA CloseJobKeepsSnapshots ==
  ASSUME TypeInv, TypeInv', SnapshotInv, NEW w \in Slots, slot[w].task \in Tasks, NEW r,
         CloseJob(w, r)
  PROVE  SnapshotInv'
<1> DEFINE t == slot[w].task
           W == IF r = task[t] THEN {} ELSE {t}
<1>1. /\ task' = [task EXCEPT ![t] = r]
      /\ job' = [job EXCEPT ![t] = Leave(job[t], JobOutcome(r.status))]
      /\ slot' = [Outdated(slot, W) EXCEPT ![w] = IdleSlot]
  BY DEF CloseJob
<1>2. slot'[w] = IdleSlot /\ \A v \in Slots \ {w} : slot'[v] = Outdated(slot, W)[v]
  BY <1>1, OutdatedType DEF TypeInv, TypeOK
<1>3. \A v \in Slots \ {w} : slot'[v].task = slot[v].task
  BY <1>2, OutdatedType DEF TypeInv, TypeOK
<1>4. job'[t].status # "running" /\ \A u \in Tasks \ {t} : job'[u] = job[u]
  BY <1>1, LeaveType, JobOutcomeType DEF TypeInv, TypeOK, JobStatuses
<1>5. \A v \in Slots \ {w} : Owns(v)' => Owns(v) /\ slot[v].task \notin W
  <2> SUFFICES ASSUME NEW v \in Slots \ {w}, Owns(v)'
               PROVE  Owns(v) /\ slot[v].task \notin W
    OBVIOUS
  <2>1. slot[v].task # t
    BY <1>3, <1>4 DEF Owns
  <2>2. slot[v].task \in Tasks
    BY <1>3 DEF Owns, TypeInv, TypeOK, SlotRecords
  <2> QED BY <1>3, <1>4, <2>1, <2>2 DEF Owns
<1>6. \A u \in Tasks : task'[u].status # task[u].status => u \in W
  BY <1>1 DEF TypeInv, TypeOK
<1>7. \A v \in Slots \cap {w} :
        /\ slot'[v].current => /\ slot'[v].pc \in {"stage", "running"}
                               /\ slot'[v].seen = task'[slot'[v].task].status
        /\ slot'[v].pc = "running" => slot'[v].seen = "running"
        /\ slot'[v].pc \in {"stage", "running"} => slot'[v].current \/ ~Owns(v)'
  BY <1>2, IdleSlotSnapshot
<1> HIDE DEF t, W
<1> QED BY <1>2, <1>5, <1>6, <1>7, WriteKeepsSnapshots


\* The rows change behind the backs of the slots: none of them moves.
LEMMA PassiveKeepsSnapshots ==
  ASSUME TypeInv, TypeInv', SnapshotInv, NEW W,
         slot' = Outdated(slot, W),
         \A t \in Tasks : task'[t].status # task[t].status => t \in W,
         \A v \in Slots : Owns(v)' => Owns(v) /\ slot[v].task \notin W
  PROVE  SnapshotInv'
<1> DEFINE M == {}
<1>1. \A v \in Slots \ M : slot'[v] = Outdated(slot, W)[v]
  OBVIOUS
<1>2. \A v \in Slots \ M : Owns(v)' => Owns(v) /\ slot[v].task \notin W
  OBVIOUS
<1>3. \A v \in Slots \cap M :
        /\ slot'[v].current => /\ slot'[v].pc \in {"stage", "running"}
                               /\ slot'[v].seen = task'[slot'[v].task].status
        /\ slot'[v].pc = "running" => slot'[v].seen = "running"
        /\ slot'[v].pc \in {"stage", "running"} => slot'[v].current \/ ~Owns(v)'
  OBVIOUS
<1> HIDE DEF M
<1> QED BY <1>1, <1>2, <1>3, WriteKeepsSnapshots

LEMMA ReconcileKeepsSnapshots ==
  ASSUME TypeInv, TypeInv', SnapshotInv, NEW t \in Tasks, Reconcile(t)
  PROVE  SnapshotInv'
<1> DEFINE status == ReconciledStatus(t)
           outcome == IF status = "cancelled" THEN "cancelled" ELSE "infrastructure_error"
           closed == CloseAttempt(task[t], outcome)
           W == IF status # task[t].status THEN {t} ELSE {}
<1>1. /\ task' = [task EXCEPT ![t] = [closed EXCEPT !.status = status]]
      /\ slot' = IF status # task[t].status THEN Outdated(slot, {t}) ELSE slot
      /\ job' = IF status = "ready" THEN job
                ELSE [job EXCEPT ![t] = Leave(job[t], JobOutcome(status))]
      /\ job[t].status = "running" /\ job[t].expired
  BY DEF Reconcile, Reconcilable
<1>2. task[t] \in TaskRecords /\ job[t] \in JobRecords
  BY DEF TypeInv, TypeOK
<1>3. slot' = Outdated(slot, W)
  <2>1. CASE status # task[t].status
    BY <1>1, <2>1
  <2>2. CASE status = task[t].status
    <3>1. Outdated(slot, {}) = slot
      BY DEF Outdated, TypeInv, TypeOK
    <3> QED BY <1>1, <2>2, <3>1
  <2> QED BY <2>1, <2>2
<1>4. \A u \in Tasks : task'[u] # task[u] => u = t
  BY <1>1 DEF TypeInv, TypeOK
<1>5. \A v \in Slots : slot'[v].task = slot[v].task
  BY <1>3, OutdatedType DEF TypeInv, TypeOK
<1>6. \A v \in Slots : Owns(v)' => Owns(v) /\ slot[v].task # t
  <2> SUFFICES ASSUME NEW v \in Slots, Owns(v)'
               PROVE  Owns(v) /\ slot[v].task # t
    OBVIOUS
  <2>1. slot[v].task # t
    <3>1. CASE job' = job
      BY <1>1, <1>5, <3>1 DEF Owns
    <3>2. CASE job' = [job EXCEPT ![t] = Leave(job[t], JobOutcome(status))]
      <4>1. job'[t].status # "running"
        BY <1>2, <3>2, LeaveType, JobOutcomeType DEF TypeInv, TypeOK, JobStatuses
      <4> QED BY <1>5, <4>1 DEF Owns
    <3> QED BY <1>1, <3>1, <3>2
  <2>2. slot[v].task \in Tasks
    BY <1>5 DEF Owns, TypeInv, TypeOK, SlotRecords
  <2>3. job'[slot[v].task] = job[slot[v].task]
    BY <1>1, <2>1, <2>2 DEF TypeInv, TypeOK
  <2> QED BY <1>5, <2>1, <2>3 DEF Owns
<1>7. task'[t].status = status
  <2>1. closed \in TaskRecords
    BY <1>2, ClosedRecord DEF Outcomes
  <2> HIDE DEF closed, status
  <2> QED BY <1>1, <2>1 DEF TypeInv, TypeOK, TaskRecords
<1>8. \A u \in Tasks : task'[u].status # task[u].status => u \in W
  BY <1>4, <1>7
<1> HIDE DEF W
<1> QED BY <1>3, <1>6, <1>8, PassiveKeepsSnapshots DEF W

\* A job is left, queued again, and its slot becomes idle.
LEMMA RequeueKeepsSnapshots ==
  ASSUME TypeInv, TypeInv', SnapshotInv, NEW w \in Slots, NEW t \in Tasks, NEW j,
         j.status # "running", job' = [job EXCEPT ![t] = j],
         slot' = [slot EXCEPT ![w] = IdleSlot], task' = task
  PROVE  SnapshotInv'
<1> DEFINE W == {}
<1>1. slot'[w] = IdleSlot /\ \A v \in Slots \ {w} : slot'[v] = slot[v]
  BY DEF TypeInv, TypeOK
<1>2. \A v \in Slots \ {w} : slot'[v] = Outdated(slot, W)[v]
  BY <1>1, OutdatedNothing DEF TypeInv, TypeOK
<1>3. job'[t] = j /\ \A u \in Tasks \ {t} : job'[u] = job[u]
  BY DEF TypeInv, TypeOK
<1>4. \A v \in Slots \ {w} : Owns(v)' => Owns(v) /\ slot[v].task \notin W
  <2> SUFFICES ASSUME NEW v \in Slots \ {w}, Owns(v)' PROVE Owns(v)
    OBVIOUS
  <2>1. slot[v].task \in Tasks \ {t}
    BY <1>1, <1>3 DEF Owns, TypeInv, TypeOK, SlotRecords
  <2> QED BY <1>1, <1>3, <2>1 DEF Owns
<1>5. \A u \in Tasks : task'[u].status # task[u].status => u \in W
  OBVIOUS
<1>6. \A v \in Slots \cap {w} :
        /\ slot'[v].current => /\ slot'[v].pc \in {"stage", "running"}
                               /\ slot'[v].seen = task'[slot'[v].task].status
        /\ slot'[v].pc = "running" => slot'[v].seen = "running"
        /\ slot'[v].pc \in {"stage", "running"} => slot'[v].current \/ ~Owns(v)'
  BY <1>1, IdleSlotSnapshot
<1> HIDE DEF W
<1> QED BY <1>2, <1>4, <1>5, <1>6, WriteKeepsSnapshots

LEMMA ClaimKeepsSnapshots ==
  ASSUME TypeInv, TypeInv', SnapshotInv, NEW w \in Slots, NEW t \in Tasks,
         NEW lane \in Lanes, Claim(w, t, lane)
  PROVE  SnapshotInv'
<1> DEFINE W == {}
           x == [IdleSlot EXCEPT !.pc = "loop", !.task = t, !.lane = lane]
<1>1. slot'[w] = x /\ \A v \in Slots \ {w} : slot'[v] = slot[v]
  BY DEF Claim, TypeInv, TypeOK
<1>2. \A v \in Slots \ {w} : slot'[v] = Outdated(slot, W)[v]
  BY <1>1, OutdatedNothing DEF TypeInv, TypeOK
<1>3. job'[t].owner = w /\ \A u \in Tasks \ {t} : job'[u] = job[u]
  <2>1. job' = [job EXCEPT ![t] = [job[t] EXCEPT !.status = "running", !.claims = @ + 1,
                                                 !.owner = w, !.expired = FALSE]]
    BY DEF Claim
  <2>2. job[t] \in JobRecords
    BY DEF TypeInv, TypeOK
  <2>3. [job[t] EXCEPT !.status = "running", !.claims = @ + 1,
                       !.owner = w, !.expired = FALSE].owner = w
    BY <2>2 DEF JobRecords
  <2> QED BY <2>1, <2>3 DEF TypeInv, TypeOK
<1>4. \A v \in Slots \ {w} : Owns(v)' => Owns(v) /\ slot[v].task \notin W
  <2> SUFFICES ASSUME NEW v \in Slots \ {w}, Owns(v)' PROVE Owns(v)
    OBVIOUS
  <2>1. slot[v].task \in Tasks \ {t}
    BY <1>1, <1>3 DEF Owns, TypeInv, TypeOK, SlotRecords
  <2> QED BY <1>1, <1>3, <2>1 DEF Owns
<1>5. \A u \in Tasks : task'[u].status # task[u].status => u \in W
  BY DEF Claim
<1>6. ~x.current /\ x.pc = "loop"
  BY DEF IdleSlot
<1>7. \A v \in Slots \cap {w} :
        /\ slot'[v].current => /\ slot'[v].pc \in {"stage", "running"}
                               /\ slot'[v].seen = task'[slot'[v].task].status
        /\ slot'[v].pc = "running" => slot'[v].seen = "running"
        /\ slot'[v].pc \in {"stage", "running"} => slot'[v].current \/ ~Owns(v)'
  BY <1>1, <1>6
<1> HIDE DEF W, x
<1> QED BY <1>2, <1>4, <1>5, <1>7, WriteKeepsSnapshots

LEMMA ExpireKeepsSnapshots ==
  ASSUME TypeInv, TypeInv', SnapshotInv, NEW t \in Tasks, Expire(t)
  PROVE  SnapshotInv'
<1> DEFINE W == {}
<1>1. slot' = Outdated(slot, W)
  BY DEF Expire, Outdated, TypeInv, TypeOK
<1>2. \A u \in Tasks : task'[u].status # task[u].status => u \in W
  BY DEF Expire
<1>3. job'[t].expired /\ \A u \in Tasks \ {t} : job'[u] = job[u]
  BY DEF Expire, TypeInv, TypeOK, JobRecords
<1>4. \A v \in Slots : Owns(v)' => Owns(v) /\ slot[v].task \notin W
  <2> SUFFICES ASSUME NEW v \in Slots, Owns(v)' PROVE Owns(v)
    OBVIOUS
  <2>1. slot' = slot
    BY DEF Expire
  <2>2. slot[v].task \in Tasks \ {t}
    BY <1>3, <2>1 DEF Owns, TypeInv, TypeOK, SlotRecords
  <2> QED BY <1>3, <2>1, <2>2 DEF Owns
<1> HIDE DEF W
<1> QED BY <1>1, <1>2, <1>4, PassiveKeepsSnapshots

LEMMA CancelRunKeepsSnapshots ==
  ASSUME TypeInv, TypeInv', SnapshotInv, CancelRun
  PROVE  SnapshotInv'
<1> DEFINE hit == {t \in Tasks : task[t].status \in Open /\ ~Executing(task[t])}
<1>1. /\ task' = [t \in Tasks |->
                   IF t \in hit THEN [task[t] EXCEPT !.status = "cancelled"] ELSE task[t]]
      /\ job' = [t \in Tasks |-> IF Active(job[t]) THEN CancelledJob(t) ELSE job[t]]
      /\ slot' = Outdated(slot, hit)
  BY DEF CancelRun
<1>2. \A u \in Tasks : task'[u].status # task[u].status => u \in hit
  BY <1>1
<1>3. ASSUME NEW u \in Tasks, job'[u].status = "running"
      PROVE  /\ u \notin hit
             /\ job[u].status = "running"
             /\ job'[u].owner = job[u].owner /\ job'[u].expired = job[u].expired
  <2>1. job[u] \in JobRecords
    BY DEF TypeInv, TypeOK
  <2>2. CASE ~Active(job[u])
    BY <1>1, <1>3, <2>2 DEF Active
  <2>3. CASE Active(job[u])
    <3>1. job'[u] = CancelledJob(u)
      BY <1>1, <2>3
    <3> DEFINE told == [job[u] EXCEPT !.cancel = TRUE]
    <3>2. /\ told \in JobRecords /\ told.status = job[u].status
          /\ told.owner = job[u].owner /\ told.expired = job[u].expired
      BY <2>1 DEF JobRecords
    <3>3. \/ CancelledJob(u) = Leave(job[u], JobOutcome(task[u].status))
          \/ CancelledJob(u) = told /\ Executing(task[u])
          \/ CancelledJob(u) = Leave(told, "cancelled")
      BY DEF CancelledJob
    <3>4. /\ Leave(job[u], JobOutcome(task[u].status)).status # "running"
          /\ Leave(told, "cancelled").status # "running"
      <4>1. JobOutcome(task[u].status) \in JobStatuses \ {"running"}
        BY JobOutcomeType DEF JobStatuses
      <4>2. "cancelled" \in JobStatuses
        BY DEF JobStatuses
      <4> HIDE DEF told
      <4> QED BY <2>1, <3>2, <4>1, <4>2, LeaveType
    <3> HIDE DEF told
    <3> QED BY <1>3, <3>1, <3>2, <3>3, <3>4
  <2> QED BY <2>2, <2>3
<1>4. \A v \in Slots : slot'[v].task = slot[v].task
  <2> HIDE DEF hit
  <2> QED BY <1>1, OutdatedType DEF TypeInv, TypeOK
<1>5. \A v \in Slots : Owns(v)' => Owns(v) /\ slot[v].task \notin hit
  <2> SUFFICES ASSUME NEW v \in Slots, Owns(v)' PROVE Owns(v) /\ slot[v].task \notin hit
    OBVIOUS
  <2>1. slot[v].task \in Tasks
    BY <1>4 DEF Owns, TypeInv, TypeOK, SlotRecords
  <2> HIDE DEF hit
  <2> QED BY <1>3, <1>4, <2>1 DEF Owns
<1> HIDE DEF hit
<1> QED BY <1>1, <1>2, <1>5, PassiveKeepsSnapshots

LEMMA RetryTaskKeepsSnapshots ==
  ASSUME TypeInv, TypeInv', SnapshotInv, NEW t \in Tasks,
         NEW status \in {"pending", "ready"}, RetryTask(t, status)
  PROVE  SnapshotInv'
<1> DEFINE W == {t}
<1>1. slot' = Outdated(slot, W)
  BY DEF RetryTask
<1>2. \A u \in Tasks : task'[u].status # task[u].status => u \in W
  BY DEF RetryTask, TypeInv, TypeOK
<1>3. job'[t].status # "running" /\ \A u \in Tasks \ {t} : job'[u] = job[u]
  BY DEF RetryTask, QueuedJob, TypeInv, TypeOK
<1>4. \A v \in Slots : slot'[v].task = slot[v].task
  BY <1>1, OutdatedType DEF TypeInv, TypeOK
<1>5. \A v \in Slots : Owns(v)' => Owns(v) /\ slot[v].task \notin W
  <2> SUFFICES ASSUME NEW v \in Slots, Owns(v)' PROVE Owns(v) /\ slot[v].task # t
    OBVIOUS
  <2>1. slot[v].task \in Tasks \ {t}
    BY <1>3, <1>4 DEF Owns, TypeInv, TypeOK, SlotRecords
  <2> QED BY <1>3, <1>4, <2>1 DEF Owns
<1> HIDE DEF W
<1> QED BY <1>1, <1>2, <1>5, PassiveKeepsSnapshots

LEMMA StartAttemptKeepsSnapshots ==
  ASSUME TypeInv, TypeInv', SnapshotInv, NEW w \in Slots, StartAttempt(w)
  PROVE  SnapshotInv'
<1> DEFINE t == slot[w].task
           W == {t}
           x == [slot[w] EXCEPT !.pc = "running", !.seen = "running", !.current = TRUE]
<1>1. Owns(w) /\ t \in Tasks /\ task[t] \in TaskRecords /\ slot[w] \in SlotRecords
  BY DEF StartAttempt, MayCommit, HoldsLease, Owns, TypeInv, TypeOK, SlotRecords
<1>2. slot' = [Outdated(slot, W) EXCEPT ![w] = x] /\ job' = job
  BY DEF StartAttempt
<1>3. x.pc = "running" /\ x.seen = "running" /\ x.current /\ x.task = t
  BY <1>1 DEF SlotRecords
<1> HIDE DEF x
<1>4. slot'[w] = x /\ \A v \in Slots \ {w} : slot'[v] = Outdated(slot, W)[v]
  BY <1>2, OutdatedType DEF TypeInv, TypeOK
<1>5. \A v \in Slots \ {w} : slot'[v].task = slot[v].task
  BY <1>4, OutdatedType DEF TypeInv, TypeOK
<1>6. task'[t].status = "running" /\ \A u \in Tasks \ {t} : task'[u] = task[u]
  BY <1>1 DEF StartAttempt, TypeInv, TypeOK, TaskRecords
<1>7. \A v \in Slots \ {w} : Owns(v)' => Owns(v) /\ slot[v].task \notin W
  BY <1>1, <1>2, <1>5 DEF Owns
<1>8. \A u \in Tasks : task'[u].status # task[u].status => u \in W
  BY <1>6
<1>9. \A v \in Slots \cap {w} :
        /\ slot'[v].current => /\ slot'[v].pc \in {"stage", "running"}
                               /\ slot'[v].seen = task'[slot'[v].task].status
        /\ slot'[v].pc = "running" => slot'[v].seen = "running"
        /\ slot'[v].pc \in {"stage", "running"} => slot'[v].current \/ ~Owns(v)'
  BY <1>3, <1>4, <1>6
<1> HIDE DEF W, t
<1> QED BY <1>4, <1>7, <1>8, <1>9, WriteKeepsSnapshots

LEMMA StageKeepsSnapshots ==
  ASSUME TypeInv, TypeInv', SnapshotInv, NEW w \in Slots,
         \/ Prepare(w) \/ Generate(w) \/ AuthenticationFails(w) \/ Diagnose(w)
         \/ Repair(w) \/ SettleVerdict(w) \/ SettleInfrastructureError(w)
         \/ SettleCancelled(w)
  PROVE  SnapshotInv'
<1>1. Owns(w)
  BY DEF Prepare, Generate, AuthenticationFails, Diagnose, Repair, SettleVerdict,
         SettleInfrastructureError, SettleCancelled, MayCommit, HoldsLease
<1>2. ASSUME NEW r, Commit(w, r, "loop") \/ Commit(w, r, "failing") PROVE SnapshotInv'
  BY <1>1, <1>2, CommitKeepsSnapshots DEF Places
<1>3. CASE Prepare(w)
  BY <1>2, <1>3 DEF Prepare
<1>4. CASE Generate(w)
  BY <1>2, <1>4 DEF Generate
<1>5. CASE AuthenticationFails(w)
  BY <1>2, <1>5 DEF AuthenticationFails
<1>6. CASE Diagnose(w)
  BY <1>2, <1>6 DEF Diagnose
<1>7. CASE Repair(w)
  BY <1>2, <1>7 DEF Repair
<1>8. CASE SettleVerdict(w)
  BY <1>2, <1>8 DEF SettleVerdict
<1>9. CASE SettleInfrastructureError(w)
  BY <1>2, <1>9 DEF SettleInfrastructureError
<1>10. CASE SettleCancelled(w)
  BY <1>2, <1>10 DEF SettleCancelled
<1> QED BY <1>3, <1>4, <1>5, <1>6, <1>7, <1>8, <1>9, <1>10

\* The steps of a slot that write no row.
LEMMA WorkerKeepsSnapshots ==
  ASSUME TypeInv, TypeInv', SnapshotInv, NEW w \in Slots,
         \/ Read(w) \/ StageFails(w) \/ Conclude(w) \/ DropResult(w) \/ Crash(w)
         \/ HeartbeatCancelled(w) \/ HeartbeatLost(w) \/ Interrupt(w)
  PROVE  SnapshotInv'
<1> DEFINE t == slot[w].task
<1>1. UNCHANGED <<run, task, job, lost>>
  BY DEF Read, StageFails, Conclude, DropResult, Crash, HeartbeatCancelled, HeartbeatLost,
         Interrupt, Stop
<1>2. slot[w] \in SlotRecords /\ slot \in [Slots -> SlotRecords]
  BY DEF TypeInv, TypeOK
<1>3. ASSUME NEW pc \in {"failing", "finishing"}, slot' = [slot EXCEPT ![w] = Goto(w, pc)]
      PROVE  SnapshotInv'
  <2>1. ~Goto(w, pc).current /\ Goto(w, pc).pc = pc
    BY <1>2, GotoSnapshot DEF Places
  <2> QED BY <1>1, <1>3, <2>1, MoveKeepsSnapshots
<1>4. CASE slot' = [slot EXCEPT ![w] = IdleSlot]
  BY <1>1, <1>4, IdleSlotSnapshot, MoveKeepsSnapshots
<1>5. CASE Read(w) /\ slot[w].stop = "none"
  <2> DEFINE n == [slot[w] EXCEPT !.pc = "stage", !.seen = task[t].status, !.current = TRUE]
  <2>1. n.task = t /\ n.pc = "stage" /\ n.seen = task[t].status /\ n.current
    BY <1>2 DEF SlotRecords
  <2>2. slot' = [slot EXCEPT ![w] = n]
    BY <1>5 DEF Read
  <2> HIDE DEF n
  <2> QED BY <1>1, <2>1, <2>2, MoveKeepsSnapshots
<1>6. CASE \E reason \in Stops : slot' = [slot EXCEPT ![w].stop = reason]
  <2>1. PICK reason \in Stops : slot' = [slot EXCEPT ![w].stop = reason]
    BY <1>6
  <2> DEFINE n == [slot[w] EXCEPT !.stop = reason]
  <2>2. /\ n.task = t /\ n.pc = slot[w].pc /\ n.seen = slot[w].seen
        /\ n.current = slot[w].current
    BY <1>2 DEF SlotRecords
  <2>3. slot' = [slot EXCEPT ![w] = n]
    BY <2>1
  <2> HIDE DEF n
  <2>4. Owns(w)' => Owns(w)
    BY <1>1, <1>2, <2>2, <2>3 DEF Owns
  <2>5. n.pc \in {"stage", "running"} => n.current \/ ~Owns(w)'
    BY <2>2, <2>4 DEF SnapshotInv, OwnersAreCurrent
  <2>6. /\ n.current => n.pc \in {"stage", "running"} /\ n.seen = task[n.task].status
        /\ n.pc = "running" => n.seen = "running"
    BY <2>2 DEF SnapshotInv, SnapshotsAreTrue
  <2> QED BY <1>1, <2>3, <2>5, <2>6, MoveKeepsSnapshots
<1>7. CASE HeartbeatCancelled(w) \/ HeartbeatLost(w) \/ Interrupt(w)
  BY <1>6, <1>7 DEF HeartbeatCancelled, HeartbeatLost, Interrupt, Stop, Stops
<1>8. CASE Read(w) /\ slot[w].stop # "none"
  BY <1>3, <1>8 DEF Read
<1>9. CASE StageFails(w) \/ Conclude(w) \/ DropResult(w)
  BY <1>3, <1>9 DEF StageFails, Conclude, DropResult
<1>10. CASE Crash(w)
  BY <1>4, <1>10 DEF Crash
<1> QED BY <1>5, <1>7, <1>8, <1>9, <1>10

LEMMA YieldKeepsSnapshots ==
  ASSUME TypeInv, TypeInv', SnapshotInv, NEW w \in Slots, Yield(w)
  PROVE  SnapshotInv'
<1> DEFINE t == slot[w].task
           j == RefundedJob(job[t])
<1>1. t \in Tasks /\ job[t] \in JobRecords
  BY DEF Yield, HoldsLease, Owns, TypeInv, TypeOK, SlotRecords
<1>2. j.status = "queued"
  BY <1>1 DEF RefundedJob, Leave, JobRecords
<1>3. /\ job' = [job EXCEPT ![t] = j]
      /\ slot' = [slot EXCEPT ![w] = IdleSlot] /\ task' = task
  BY DEF Yield
<1> HIDE DEF j
<1> QED BY <1>1, <1>2, <1>3, RequeueKeepsSnapshots

LEMMA EndClaimKeepsSnapshots ==
  ASSUME TypeInv, TypeInv', SnapshotInv, NEW w \in Slots, EndClaim(w)
  PROVE  SnapshotInv'
<1> DEFINE t == slot[w].task
<1>1. slot[w].pc \in {"finishing", "failing"} /\ slot[w] \in SlotRecords
  BY DEF EndClaim, Finish, FailCancelled, Release, GiveUp, TypeInv, TypeOK
<1>2. t \in Tasks /\ job[t] \in JobRecords
  BY <1>1 DEF TypeInv, TypeOK, SlotsServeTasks
<1>3. ASSUME NEW r, CloseJob(w, r) PROVE SnapshotInv'
  BY <1>2, <1>3, CloseJobKeepsSnapshots
<1>4. CASE Abandon(w)
  BY <1>4, IdleSlotSnapshot, MoveKeepsSnapshots DEF Abandon
<1>5. CASE Finish(w) /\ ~FinishAccepted(w)
  <2> DEFINE n == [slot[w] EXCEPT !.pc = "failing"]
  <2>1. n.pc = "failing" /\ n.current = slot[w].current
    BY <1>1 DEF SlotRecords
  <2>2. ~slot[w].current
    BY <1>1 DEF SnapshotInv, SnapshotsAreTrue
  <2>3. slot' = [slot EXCEPT ![w] = n] /\ UNCHANGED <<run, task, job, lost>>
    BY <1>5 DEF Finish
  <2> HIDE DEF n
  <2> QED BY <2>1, <2>2, <2>3, MoveKeepsSnapshots
<1>6. CASE /\ job' = [job EXCEPT ![t] = Leave(job[t], "queued")]
           /\ slot' = [slot EXCEPT ![w] = IdleSlot]
           /\ UNCHANGED <<run, task>>
  <2>1. Leave(job[t], "queued").status # "running"
    BY <1>2, LeaveType DEF JobStatuses
  <2> QED BY <1>2, <1>6, <2>1, RequeueKeepsSnapshots
<1>7. CASE Finish(w)
  BY <1>3, <1>5, <1>7 DEF Finish
<1>8. CASE FailCancelled(w)
  BY <1>3, <1>4, <1>8 DEF FailCancelled
<1>9. CASE Release(w)
  BY <1>3, <1>6, <1>9 DEF Release
<1>10. CASE GiveUp(w)
  BY <1>4, <1>10 DEF GiveUp
<1> QED BY <1>7, <1>8, <1>9, <1>10 DEF EndClaim

LEMMA SnapshotInit == Init => SnapshotInv
<1>1. ASSUME Init PROVE slot = [w \in Slots |-> IdleSlot]
  BY <1>1 DEF Init
<1>2. ASSUME Init, NEW w \in Slots PROVE slot[w].pc = "idle" /\ ~slot[w].current
  BY <1>1, <1>2, IdleSlotSnapshot
<1> QED BY <1>2 DEF SnapshotInv, OwnersAreCurrent, SnapshotsAreTrue

LEMMA SnapshotStep == TypeInv /\ SnapshotInv /\ [Next]_vars => SnapshotInv'
<1> SUFFICES ASSUME TypeInv, SnapshotInv, [Next]_vars PROVE SnapshotInv'
  OBVIOUS
<1>1. TypeInv'
  BY TypeStep
<1>2. ASSUME NEW w \in Slots, Stage(w) PROVE SnapshotInv'
  BY <1>1, <1>2, StageKeepsSnapshots, StartAttemptKeepsSnapshots, YieldKeepsSnapshots,
     WorkerKeepsSnapshots DEF Stage
<1>3. ASSUME NEW w \in Slots, Settle(w) PROVE SnapshotInv'
  BY <1>1, <1>3, StageKeepsSnapshots, WorkerKeepsSnapshots DEF Settle
<1>4. ASSUME NEW w \in Slots, SlotStep(w) PROVE SnapshotInv'
  BY <1>1, <1>2, <1>3, <1>4, WorkerKeepsSnapshots, EndClaimKeepsSnapshots DEF SlotStep
<1>5. ASSUME NEW w \in Slots,
             Crash(w) \/ HeartbeatCancelled(w) \/ HeartbeatLost(w) \/ Interrupt(w)
      PROVE  SnapshotInv'
  BY <1>1, <1>5, WorkerKeepsSnapshots
<1>6. ASSUME NEW t \in Tasks, ClaimAny(t) \/ Reconcile(t) \/ Expire(t) PROVE SnapshotInv'
  BY <1>1, <1>6, ClaimKeepsSnapshots, ReconcileKeepsSnapshots, ExpireKeepsSnapshots
     DEF ClaimAny
<1>7. CASE UNCHANGED vars
  BY <1>7 DEF vars, SnapshotInv, OwnersAreCurrent, SnapshotsAreTrue, Owns
<1> QED BY <1>1, <1>4, <1>5, <1>6, <1>7, CancelRunKeepsSnapshots, RetryTaskKeepsSnapshots
        DEF Next

\* Fencing and the state version together keep everybody but the owner of the lease from
\* writing a task, so that what the owner read before a stage still holds when it writes.
THEOREM OwnersFresh == Spec => []OwnersSnapshotIsFresh
<1>1. TypeInv /\ SnapshotInv => OwnersSnapshotIsFresh
  BY DEF SnapshotInv, OwnersAreCurrent, SnapshotsAreTrue, OwnersSnapshotIsFresh
<1> QED BY <1>1, TypeInit, TypeStep, SnapshotInit, SnapshotStep, PTL DEF Spec

-----------------------------------------------------------------------------
(***************************************************************************)
(* Why the rows of a run always agree, for every number of tasks and       *)
(* slots: attempts with their task, and tasks with their run.  Both need   *)
(* fencing (SnapshotInv): a stage may write what it writes because the     *)
(* task still has the status the slot read.  The run needs it too, since   *)
(* recomputeRun leaves a finished run alone: a late write would change a   *)
(* task behind the back of its run.                                        *)
(*                                                                         *)
(* Four parts, each with its inductive invariant: attempts, task and run   *)
(* (StoryInv); jobs, cancellation and the refinement (JobInv); what the    *)
(* attempts remember (HistoryInv); and stopped slots (StopInv).            *)
(***************************************************************************)

\* AttemptsMatchTask, of one task.
Story(r) ==
  /\ r.status = "running" <=> Executing(r)
  /\ r.status = "passed" <=> LastStatus(r) = "passed"
  /\ \A i \in DOMAIN r.attempts :
       r.attempts[i].status \in {"running", "passed"} => i = Len(r.attempts)

LEMMA StoryOfTasks == AttemptsMatchTask <=> \A t \in Tasks : Story(task[t])
BY DEF AttemptsMatchTask, Story

LEMMA RestatedStory ==
  ASSUME NEW r \in TaskRecords, Story(r), r.status \notin {"running", "passed"},
         NEW s \in TaskStatuses \ {"running", "passed"}
  PROVE  Story([r EXCEPT !.status = s])
BY DEF Story, Executing, LastStatus, LastOf, TaskRecords

LEMMA RevisedStory ==
  ASSUME NEW r \in TaskRecords, NEW source \in Sources
  PROVE  /\ Story(NewRevision(r, source))
         /\ Story([NewRevision(r, source) EXCEPT !.repairs = @ + 1])
<1> DEFINE n == NewRevision(r, source)
<1>1. n \in TaskRecords /\ n.status = "ready" /\ n.attempts = <<>>
  BY RevisedRecord DEF NewRevision, TaskRecords
<1> HIDE DEF n
<1>2. \A m : m.status = "ready" /\ m.attempts = <<>> => Story(m)
  BY DEF Story, Executing, LastStatus
<1>3. [n EXCEPT !.repairs = @ + 1].status = "ready"
      /\ [n EXCEPT !.repairs = @ + 1].attempts = <<>>
  BY <1>1 DEF TaskRecords
<1>4. Story(n) /\ Story([n EXCEPT !.repairs = @ + 1])
  BY <1>1, <1>2, <1>3
<1> QED BY <1>4 DEF n

LEMMA ClosedStory ==
  ASSUME NEW r \in TaskRecords, Story(r), Executing(r), NEW o \in Outcomes,
         NEW s \in TaskStatuses \ {"running"}, s = "passed" <=> o = "passed"
  PROVE  Story([CloseAttempt(r, o) EXCEPT !.status = s])
<1> DEFINE q == r.attempts
           n == Len(q)
           e == [q[n] EXCEPT !.status = o]
           p == [q EXCEPT ![n] = e]
           c == [r EXCEPT !.attempts = p, !.status = s]
<1>1. q \in Seq(Attempts) /\ q # <<>> /\ n \in 1..n /\ q[n] \in Attempts
  BY DEF Executing, LastStatus, TaskRecords
<1>2. e \in Attempts /\ e.status = o
  BY <1>1 DEF Attempts
<1>3. /\ p \in Seq(Attempts) /\ Len(p) = n
      /\ p[n] = e /\ \A i \in 1..n : i # n => p[i] = q[i]
  BY <1>1, <1>2, ExceptSeq
<1>4. [CloseAttempt(r, o) EXCEPT !.status = s] = c
  BY DEF CloseAttempt, TaskRecords
<1>5. c.status = s /\ c.attempts = p
  BY DEF TaskRecords
<1>6. DOMAIN p = 1..n /\ DOMAIN q = 1..n /\ p # <<>>
  BY <1>1, <1>3
<1>7. \A i \in 1..n : q[i].status \in {"running", "passed"} => i = n
  BY <1>6 DEF Story
<1>8. o # "running"
  BY DEF Outcomes
<1> HIDE DEF c, p, e, q, n
<1>9. LastStatus(c) = o
  BY <1>2, <1>3, <1>5, <1>6 DEF LastStatus, LastOf
<1>10. \A i \in DOMAIN p : p[i].status \in {"running", "passed"} => i = Len(p)
  BY <1>3, <1>6, <1>7
<1>11. Story(c)
  BY <1>5, <1>8, <1>9, <1>10 DEF Story, Executing
<1> QED BY <1>4, <1>11

LEMMA StartedStory ==
  ASSUME NEW r \in TaskRecords, Story(r), r.status \notin {"running", "passed"},
         NEW a \in Attempts, a.status = "running"
  PROVE  Story([r EXCEPT !.attempts = Append(r.attempts, a), !.status = "running"])
<1> DEFINE q == r.attempts
           n == Len(q)
           p == Append(q, a)
           c == [r EXCEPT !.attempts = p, !.status = "running"]
<1>1. q \in Seq(Attempts) /\ n \in Nat
  BY DEF TaskRecords
<1>2. /\ p \in Seq(Attempts) /\ Len(p) = n + 1 /\ p[n + 1] = a /\ p # <<>>
      /\ DOMAIN p = 1..(n + 1) /\ DOMAIN q = 1..n
      /\ \A i \in 1..n : p[i] = q[i]
  BY <1>1
<1>3. c.status = "running" /\ c.attempts = p
  BY DEF TaskRecords
<1>4. \A i \in 1..n : q[i].status \notin {"running", "passed"}
  <2>1. LastStatus(r) \notin {"running", "passed"}
    BY DEF Story, Executing
  <2>2. n > 0 => LastStatus(r) = q[n].status
    BY <1>1 DEF LastStatus, LastOf
  <2>3. \A i \in 1..n : q[i].status \in {"running", "passed"} => i = n
    BY <1>2 DEF Story
  <2> QED BY <1>1, <2>1, <2>2, <2>3
<1> HIDE DEF c, p, q, n
<1>5. LastStatus(c) = "running"
  BY <1>2, <1>3 DEF LastStatus, LastOf
<1>6. \A i \in DOMAIN p : p[i].status \in {"running", "passed"} => i = Len(p)
  BY <1>1, <1>2, <1>4
<1>7. Story(c)
  BY <1>3, <1>5, <1>6 DEF Story, Executing
<1> QED BY <1>7 DEF c, p, q

-----------------------------------------------------------------------------
\* The run is the aggregate of its tasks, or nothing has happened to them yet.
Untouched ==
  /\ \A t \in Tasks : task[t].status \in {"pending", "unsupported"}
  /\ \E t \in Tasks : task[t].status = "pending"

RunFollows ==
  \/ run.status = "queued" /\ Untouched
  \/ run.status = Aggregate(Status(task))

StoryInv == AttemptsMatchTask /\ RunFollows

LEMMA OpenIsNotTerminal == Open \cap Terminal = {}
BY DEF Open, Terminal

LEMMA UnfinishedAggregate ==
  ASSUME NEW f, NEW t \in Tasks, f[t] \notin Terminal
  PROVE  Aggregate(f) = "running"
<1>1. \E u \in Tasks : f[u] \notin Terminal
  OBVIOUS
<1>2. f[t] \notin {"cancelled", "passed", "failed"}
  BY DEF Terminal
<1>3. ~(\A u \in Tasks : f[u] = "cancelled") /\ ~(\A u \in Tasks : f[u] = "passed")
      /\ ~(\A u \in Tasks : f[u] = "failed")
  BY <1>2
<1> QED BY <1>1, <1>3 DEF Aggregate

LEMMA OpenTaskOpenRun ==
  ASSUME RunFollows, NEW t \in Tasks, task[t].status \in Open
  PROVE  run.status \in {"queued", "running"}
<1>1. Status(task)[t] \notin Terminal
  BY OpenIsNotTerminal DEF Status
<1>2. Aggregate(Status(task)) = "running"
  BY <1>1, UnfinishedAggregate
<1> QED BY <1>2 DEF RunFollows

\* The pattern of every transaction: one task is written, the run recomputed.
LEMMA WriteKeepsStory ==
  ASSUME TypeInv, StoryInv, NEW t \in Tasks, NEW r \in TaskRecords, Story(r),
         task[t].status \in Open \/ r.status = task[t].status,
         task' = [task EXCEPT ![t] = r], run' = Recompute(task')
  PROVE  StoryInv'
<1>1. AttemptsMatchTask'
  <2>1. \A u \in Tasks : Story(task'[u])
    BY StoryOfTasks DEF StoryInv, TypeInv, TypeOK
  <2> QED BY <2>1 DEF AttemptsMatchTask, Story
<1>2. RunFollows'
  <2>1. CASE run.status \in {"queued", "running"}
    <3>1. run' = [run EXCEPT !.status = Aggregate(Status(task'))]
      BY <2>1 DEF Recompute
    <3>2. run'.status = Aggregate(Status(task'))
      BY <3>1 DEF TypeInv, TypeOK
    <3> QED BY <3>2 DEF RunFollows, Status
  <2>2. CASE run.status \notin {"queued", "running"}
    <3>1. run' = run
      BY <2>2 DEF Recompute
    <3>2. r.status = task[t].status
      BY <2>2, OpenTaskOpenRun DEF StoryInv
    <3>3. Status(task') = Status(task)
      BY <3>2 DEF Status, TypeInv, TypeOK
    <3>4. run.status = Aggregate(Status(task))
      BY <2>2 DEF StoryInv, RunFollows
    <3> QED BY <3>1, <3>3, <3>4 DEF RunFollows, Status
  <2> QED BY <2>1, <2>2
<1> QED BY <1>1, <1>2 DEF StoryInv

LEMMA PassiveKeepsStory ==
  ASSUME StoryInv, UNCHANGED <<run, task>>
  PROVE  StoryInv'
BY DEF StoryInv, AttemptsMatchTask, RunFollows, Untouched, Status

\* Before a stage commits, its task has the status the slot read.
LEMMA StageReadsTask ==
  ASSUME TypeInv, SnapshotInv, NEW w \in Slots, slot[w].current
  PROVE  /\ slot[w].task \in Tasks /\ task[slot[w].task] \in TaskRecords
         /\ slot[w].seen = task[slot[w].task].status
         /\ slot[w].pc = "running" => slot[w].seen = "running"
BY DEF SnapshotInv, SnapshotsAreTrue, TypeInv, TypeOK, SlotsServeTasks

LEMMA Edges ==
  /\ \A s \in Open : {"blocked", "cancelled"} \subseteq Transitions[s]
  /\ {"script_generating", "ready"} \subseteq Transitions["pending"]
  /\ "ready" \in Transitions["script_generating"]
  /\ {"running", "waiting_manual"} \subseteq Transitions["ready"]
  /\ "running" \in Transitions["retrying"]
  /\ {"ready", "passed", "retrying", "diagnosing"} \subseteq Transitions["running"]
  /\ {"failed", "waiting_manual", "repairing"} \subseteq Transitions["diagnosing"]
  /\ {"ready", "waiting_manual"} \subseteq Transitions["repairing"]
  /\ \A s \in Retryable : {"pending", "ready"} \subseteq Transitions[s]
<1>1. \A s \in Open \cup Retryable : s \in TaskStatuses
  BY DEF Open, Retryable, TaskStatuses, Terminal
<1>2. /\ Transitions["pending"] = {"script_generating", "ready", "unsupported", "blocked", "cancelled"}
      /\ Transitions["script_generating"] = {"ready", "blocked", "waiting_manual", "cancelled"}
      /\ Transitions["ready"] = {"running", "blocked", "waiting_manual", "cancelled"}
      /\ Transitions["running"] = {"ready", "passed", "retrying", "diagnosing", "blocked",
                                   "waiting_manual", "cancelled"}
      /\ Transitions["retrying"] = {"running", "blocked", "cancelled"}
      /\ Transitions["diagnosing"] = {"repairing", "failed", "blocked", "waiting_manual",
                                      "cancelled"}
      /\ Transitions["repairing"] = {"ready", "blocked", "waiting_manual", "cancelled"}
  BY <1>1 DEF Transitions, Open, Retryable
<1>3. \A s \in Retryable : Transitions[s] = {"pending", "ready"}
  BY <1>1 DEF Transitions, Retryable
<1> QED BY <1>2, <1>3 DEF Open

\* What every transaction of a stage does: under the lease of an open task it takes the
\* task one edge of the graph to the record n.
Advances(w, n) ==
  LET t == slot[w].task IN
  /\ t \in Tasks /\ task[t].status \in Open
  /\ Owns(w) /\ (HoldsLease(w) \/ n.status = "cancelled")
  /\ Story(n) /\ n.status \in Transitions[task[t].status] \ {"unsupported"}
  /\ task' = [task EXCEPT ![t] = n] /\ run' = Recompute(task') /\ job' = job

LEMMA StageAdvances ==
  ASSUME TypeInv, SnapshotInv, StoryInv, NEW w \in Slots,
         Prepare(w) \/ Generate(w) \/ AuthenticationFails(w) \/ Diagnose(w) \/ Repair(w)
  PROVE  \E n \in TaskRecords : Advances(w, n)
<1> DEFINE t == slot[w].task
           r == task[t]
<1>1. slot[w].current /\ Owns(w) /\ HoldsLease(w)
  BY DEF Prepare, Generate, AuthenticationFails, Diagnose, Repair, MayCommit, HoldsLease
<1>2. t \in Tasks /\ r \in TaskRecords /\ slot[w].seen = r.status
  BY <1>1, StageReadsTask
<1>3. r.status \in {"pending", "script_generating", "ready", "retrying", "diagnosing",
                    "repairing"}
  BY <1>2 DEF Prepare, Generate, AuthenticationFails, Diagnose, Repair, At
<1>4. r.status \in Open /\ r.status \notin {"running", "passed"} /\ Story(r)
  BY <1>2, <1>3, StoryOfTasks DEF Open, StoryInv
<1>5. ASSUME NEW n \in TaskRecords, Story(n), Commit(w, n, "loop"),
             n.status \in Transitions[r.status] \ {"unsupported"}
      PROVE  \E m \in TaskRecords : Advances(w, m)
  BY <1>1, <1>2, <1>4, <1>5 DEF Advances, Commit
<1>6. ASSUME NEW s \in {"script_generating", "failed", "blocked", "waiting_manual", "repairing"},
             Commit(w, [r EXCEPT !.status = s], "loop"), s \in Transitions[r.status]
      PROVE  \E m \in TaskRecords : Advances(w, m)
  <2> DEFINE n == [r EXCEPT !.status = s]
  <2>1. s \in TaskStatuses \ {"running", "passed"} /\ s # "unsupported"
    BY <1>6 DEF TaskStatuses, Terminal, Open
  <2>2. n \in TaskRecords /\ Story(n) /\ n.status = s
    BY <1>2, <1>4, <2>1, RestatedRecord, RestatedStory DEF TaskRecords
  <2> HIDE DEF n
  <2>3. Commit(w, n, "loop")
    BY <1>6 DEF n
  <2> QED BY <1>5, <1>6, <2>1, <2>2, <2>3
<1>7. GeneratedSource(r) \in Sources /\ "repair" \in Sources
  BY DEF GeneratedSource, Sources
<1>8. CASE /\ r.status \in {"pending", "script_generating"}
           /\ Commit(w, NewRevision(r, GeneratedSource(r)), "loop")
  <2> DEFINE n == NewRevision(r, GeneratedSource(r))
  <2>1. n \in TaskRecords /\ Story(n)
    BY <1>2, <1>7, RevisedRecord, RevisedStory
  <2>2. n.status = "ready"
    BY <1>2 DEF NewRevision, TaskRecords
  <2>3. Commit(w, n, "loop")
    BY <1>8
  <2> HIDE DEF n
  <2> QED BY <1>5, <1>8, <2>1, <2>2, <2>3, Edges
<1>9. CASE Prepare(w)
  <2>1. r.status = "pending"
    BY <1>2, <1>9 DEF Prepare, At
  <2> QED BY <1>6, <1>8, <1>9, <2>1, Edges DEF Prepare
<1>10. CASE Generate(w)
  BY <1>2, <1>8, <1>10 DEF Generate, At
<1>11. CASE AuthenticationFails(w)
  <2> DEFINE s == IF r.status = "retrying" THEN "blocked" ELSE "waiting_manual"
  <2>1. s \in {"blocked", "waiting_manual"} /\ s \in Transitions[r.status]
    BY <1>2, <1>11, Edges DEF AuthenticationFails, At, Open
  <2>2. Commit(w, [r EXCEPT !.status = s], "loop")
    BY <1>11 DEF AuthenticationFails
  <2> HIDE DEF s
  <2> QED BY <1>6, <2>1, <2>2
<1>12. CASE Diagnose(w)
  <2>1. PICK s \in {"failed", "blocked", "waiting_manual", "repairing"} :
          Commit(w, [r EXCEPT !.status = s], "loop")
    BY <1>12 DEF Diagnose
  <2>2. s \in Transitions[r.status]
    BY <1>2, <1>12, Edges DEF Diagnose, At, Open
  <2> QED BY <1>6, <2>1, <2>2
<1>13. CASE Repair(w)
  <2>1. r.status = "repairing"
    BY <1>2, <1>13 DEF Repair, At
  <2>2. CASE Commit(w, [r EXCEPT !.status = "waiting_manual"], "loop")
    BY <1>6, <2>1, <2>2, Edges
  <2>3. CASE /\ MayRepair(r)
             /\ Commit(w, [NewRevision(r, "repair") EXCEPT !.repairs = @ + 1], "loop")
    <3> DEFINE n == NewRevision(r, "repair")
               m == [n EXCEPT !.repairs = @ + 1]
    <3>1. n \in TaskRecords /\ n.repairs = r.repairs /\ n.status = "ready"
      BY <1>2, <1>7, RevisedRecord DEF NewRevision, TaskRecords
    <3>2. n.repairs + 1 \in 0..MaxRepairs
      BY <1>2, <2>3, <3>1, ExecutionAssumption DEF MayRepair, TaskRecords
    <3>3. Story(m) /\ Commit(w, m, "loop")
      BY <1>2, <1>7, <2>3, RevisedStory
    <3> HIDE DEF n
    <3>4. m \in TaskRecords /\ m.status = "ready"
      BY <3>1, <3>2 DEF TaskRecords
    <3> HIDE DEF m
    <3> QED BY <1>5, <2>1, <3>3, <3>4, Edges
  <2> QED BY <1>13, <2>2, <2>3 DEF Repair
<1> QED BY <1>9, <1>10, <1>11, <1>12, <1>13

LEMMA StartAttemptAdvances ==
  ASSUME TypeInv, SnapshotInv, StoryInv, NEW w \in Slots, StartAttempt(w)
  PROVE  \E n \in TaskRecords : Advances(w, n)
<1> DEFINE t == slot[w].task
           r == task[t]
           attempt == [kind |-> AttemptKind(r), status |-> "running"]
           started == [r EXCEPT !.attempts = Append(r.attempts, attempt), !.status = "running"]
<1>1. slot[w].current /\ Owns(w) /\ HoldsLease(w)
  BY DEF StartAttempt, MayCommit, HoldsLease
<1>2. t \in Tasks /\ r \in TaskRecords /\ slot[w].seen = r.status
  BY <1>1, StageReadsTask
<1>3. r.status \in {"ready", "retrying"}
  BY <1>2 DEF StartAttempt, At
<1>4. r.status \in Open /\ r.status \notin {"running", "passed"} /\ Story(r)
  BY <1>2, <1>3, StoryOfTasks DEF Open, StoryInv
<1>5. attempt \in Attempts /\ attempt.status = "running"
  BY DEF AttemptKind, Attempts, Kinds, Outcomes
<1>6. task' = [task EXCEPT ![t] = started] /\ run' = Recompute(task') /\ job' = job
  BY DEF StartAttempt, TypeInv, TypeOK
<1>7. started \in TaskRecords /\ Story(started) /\ started.status = "running"
  <2>1. Append(r.attempts, attempt) \in Seq(Attempts) /\ "running" \in TaskStatuses
    BY <1>2, <1>5 DEF TaskRecords, TaskStatuses, Open
  <2> HIDE DEF attempt
  <2> QED BY <1>2, <1>4, <1>5, <2>1, StartedStory DEF TaskRecords
<1> HIDE DEF started
<1>8. started.status \in Transitions[r.status] \ {"unsupported"}
  BY <1>3, <1>7, Edges
<1> QED BY <1>1, <1>2, <1>4, <1>6, <1>7, <1>8 DEF Advances

LEMMA SettleAdvances ==
  ASSUME TypeInv, SnapshotInv, StoryInv, NEW w \in Slots,
         SettleVerdict(w) \/ SettleInfrastructureError(w) \/ SettleCancelled(w)
  PROVE  \E n \in TaskRecords : Advances(w, n)
<1> DEFINE t == slot[w].task
           r == task[t]
<1>1. slot[w].current /\ slot[w].pc = "running" /\ Owns(w)
  BY DEF SettleVerdict, SettleInfrastructureError, SettleCancelled, MayCommit, HoldsLease
<1>2. t \in Tasks /\ r \in TaskRecords /\ r.status = "running"
  BY <1>1, StageReadsTask
<1>3. r.status \in Open /\ Story(r) /\ Executing(r)
  BY <1>2, StoryOfTasks DEF Open, StoryInv, Story
<1>4. PICK o \in Outcomes, s \in {"passed", "retrying", "diagnosing", "blocked", "ready", "cancelled"} :
        /\ s = "passed" <=> o = "passed"
        /\ HoldsLease(w) \/ s = "cancelled"
        /\ \/ Commit(w, [CloseAttempt(r, o) EXCEPT !.status = s], "loop")
           \/ Commit(w, [CloseAttempt(r, o) EXCEPT !.status = s], "failing")
  BY DEF SettleVerdict, SettleInfrastructureError, SettleCancelled, MayCommit, Outcomes, AfterFailure
<1> DEFINE n == [CloseAttempt(r, o) EXCEPT !.status = s]
<1>5. s \in TaskStatuses \ {"running"} /\ s # "unsupported"
  BY <1>4 DEF TaskStatuses, Terminal, Open
<1>6. n \in TaskRecords /\ Story(n)
  BY <1>2, <1>3, <1>4, <1>5, ClosedRecord, RestatedRecord, ClosedStory
<1>7. n.status = s
  BY <1>2, ClosedRecord DEF TaskRecords
<1>8. s \in Transitions[r.status]
  BY <1>2, <1>3, Edges
<1>9. Commit(w, n, "loop") \/ Commit(w, n, "failing")
  BY <1>4
<1> HIDE DEF n
<1>10. task' = [task EXCEPT ![t] = n] /\ run' = Recompute(task') /\ job' = job
  BY <1>9 DEF Commit
<1>11. Advances(w, n)
  BY <1>1, <1>2, <1>3, <1>4, <1>5, <1>6, <1>7, <1>8, <1>10 DEF Advances
<1> QED BY <1>6, <1>11

LEMMA AdvanceKeepsStory ==
  ASSUME TypeInv, StoryInv, NEW w \in Slots, NEW n \in TaskRecords, Advances(w, n)
  PROVE  StoryInv'
BY WriteKeepsStory DEF Advances

\* What reconciliation makes of a task: nothing if it is done, else one edge of the graph.
Reconciled(t) ==
  [CloseAttempt(task[t], IF ReconciledStatus(t) = "cancelled" THEN "cancelled"
                         ELSE "infrastructure_error") EXCEPT !.status = ReconciledStatus(t)]

LEMMA ReconciledTask ==
  ASSUME TypeInv, StoryInv, NEW t \in Tasks, Reconcilable(t)
  PROVE  /\ Reconciled(t) \in TaskRecords /\ Story(Reconciled(t))
         /\ Reconciled(t).status = ReconciledStatus(t)
         /\ \/ task[t].status \in Terminal /\ Reconciled(t) = task[t]
            \/ /\ task[t].status \in Open
               /\ ReconciledStatus(t) \in {"cancelled", "blocked", "ready"}
               /\ ReconciledStatus(t) \in Transitions[task[t].status]
<1> DEFINE r == task[t]
           status == ReconciledStatus(t)
           outcome == IF status = "cancelled" THEN "cancelled" ELSE "infrastructure_error"
           n == [CloseAttempt(r, outcome) EXCEPT !.status = status]
<1>1. r \in TaskRecords /\ Story(r)
  BY StoryOfTasks DEF TypeInv, TypeOK, StoryInv
<1>2. outcome \in Outcomes \ {"passed"}
  BY DEF Outcomes
<1>3. Reconciled(t) = n
  BY DEF Reconciled
<1>4. CASE r.status \in Terminal
  <2>1. status = r.status
    BY <1>4 DEF ReconciledStatus
  <2>2. ~Executing(r)
    BY <1>1, <1>4 DEF Story, Terminal
  <2>3. CloseAttempt(r, outcome) = r
    BY <2>2 DEF CloseAttempt
  <2>4. n = r
    BY <1>1, <2>1, <2>3 DEF TaskRecords
  <2> HIDE DEF n, status
  <2> QED BY <1>1, <1>3, <1>4, <2>1, <2>4 DEF status
<1>5. CASE r.status \notin Terminal
  <2>1. r.status \in Open /\ r.status # "passed"
    BY <1>1, <1>5 DEF TaskRecords, TaskStatuses, Terminal
  <2>2. status \in {"cancelled", "blocked", "ready"}
    BY <1>5 DEF ReconciledStatus
  <2>3. status \in TaskStatuses \ {"running", "passed"}
    BY <2>2 DEF TaskStatuses, Terminal, Open
  <2>4. status = "ready" => Executing(r)
    BY <1>5 DEF ReconciledStatus, Reconcilable
  <2>5. status \in Transitions[r.status]
    BY <1>1, <2>1, <2>2, <2>4, Edges DEF Story
  <2> HIDE DEF outcome, status
  <2>6. n \in TaskRecords /\ n.status = status
    BY <1>1, <1>2, <2>3, ClosedRecord, RestatedRecord DEF TaskRecords
  <2>7. Story(n)
    <3>1. CASE Executing(r)
      BY <1>1, <1>2, <2>3, <3>1, ClosedStory
    <3>2. CASE ~Executing(r)
      <4>1. CloseAttempt(r, outcome) = r /\ r.status # "running"
        BY <1>1, <3>2 DEF CloseAttempt, Story
      <4> QED BY <1>1, <2>1, <2>3, <4>1, RestatedStory
    <3> QED BY <3>1, <3>2
  <2> HIDE DEF n
  <2> QED BY <1>3, <2>1, <2>2, <2>5, <2>6, <2>7 DEF status
<1> QED BY <1>4, <1>5

LEMMA ReconcileKeepsStory ==
  ASSUME TypeInv, StoryInv, NEW t \in Tasks, Reconcile(t)
  PROVE  StoryInv'
<1> DEFINE n == Reconciled(t)
<1>1. task' = [task EXCEPT ![t] = n] /\ run' = Recompute(task') /\ Reconcilable(t)
  BY DEF Reconcile, Reconciled
<1>2. n \in TaskRecords /\ Story(n) /\ (task[t].status \in Open \/ n.status = task[t].status)
  BY <1>1, ReconciledTask
<1> HIDE DEF n
<1> QED BY <1>1, <1>2, WriteKeepsStory

LEMMA BlockedTask ==
  ASSUME NEW r \in TaskRecords, Story(r), r.status \in Open, ~Executing(r)
  PROVE  /\ [r EXCEPT !.status = "blocked"] \in TaskRecords
         /\ Story([r EXCEPT !.status = "blocked"])
<1>1. "blocked" \in TaskStatuses \ {"running", "passed"}
  BY DEF TaskStatuses, Terminal
<1>2. r.status \notin {"running", "passed"}
  BY DEF Story, Open
<1> QED BY <1>1, <1>2, RestatedRecord, RestatedStory

LEMMA EndClaimKeepsStory ==
  ASSUME TypeInv, StoryInv, NEW w \in Slots, EndClaim(w)
  PROVE  StoryInv'
<1> DEFINE t == slot[w].task
           r == task[t]
<1>1. slot[w].pc # "idle"
  BY DEF EndClaim, Finish, FailCancelled, Release, GiveUp
<1>2. t \in Tasks /\ r \in TaskRecords /\ Story(r)
  BY <1>1, StoryOfTasks DEF TypeInv, TypeOK, SlotsServeTasks, StoryInv
<1>3. CASE CloseJob(w, r)
  BY <1>2, <1>3, WriteKeepsStory DEF CloseJob
<1>4. CASE r.status \in Open /\ ~Executing(r) /\ CloseJob(w, [r EXCEPT !.status = "blocked"])
  <2> DEFINE n == [r EXCEPT !.status = "blocked"]
  <2>1. n \in TaskRecords /\ Story(n)
    BY <1>2, <1>4, BlockedTask
  <2>2. task' = [task EXCEPT ![t] = n] /\ run' = Recompute(task')
    BY <1>4 DEF CloseJob
  <2> HIDE DEF n
  <2> QED BY <1>2, <1>4, <2>1, <2>2, WriteKeepsStory
<1>5. CASE UNCHANGED <<run, task>>
  BY <1>5, PassiveKeepsStory
<1>6. CASE Finish(w)
  BY <1>3, <1>5, <1>6 DEF Finish
<1>7. CASE FailCancelled(w)
  BY <1>3, <1>5, <1>7 DEF FailCancelled, Abandon
<1>8. CASE Release(w)
  BY <1>3, <1>4, <1>5, <1>8 DEF Release, MayRelease
<1>9. CASE GiveUp(w)
  BY <1>5, <1>9 DEF GiveUp, Abandon
<1> QED BY <1>6, <1>7, <1>8, <1>9 DEF EndClaim

LEMMA CancelRunKeepsStory ==
  ASSUME TypeInv, StoryInv, CancelRun
  PROVE  StoryInv'
<1> DEFINE hit == {t \in Tasks : task[t].status \in Open /\ ~Executing(task[t])}
<1>1. /\ task' = [t \in Tasks |->
                   IF t \in hit THEN [task[t] EXCEPT !.status = "cancelled"] ELSE task[t]]
      /\ run' = [Recompute(task') EXCEPT !.cancel = TRUE]
      /\ run.status \in {"queued", "running"}
  BY DEF CancelRun
<1>2. ASSUME NEW t \in Tasks PROVE Story(task'[t])
  <2>1. task[t] \in TaskRecords /\ Story(task[t])
    BY StoryOfTasks DEF TypeInv, TypeOK, StoryInv
  <2>2. CASE t \in hit
    <3>1. task[t].status \notin {"running", "passed"}
      BY <2>1, <2>2 DEF Story, Open
    <3>2. "cancelled" \in TaskStatuses \ {"running", "passed"}
      BY DEF TaskStatuses, Terminal
    <3>3. Story([task[t] EXCEPT !.status = "cancelled"])
      BY <2>1, <3>1, <3>2, RestatedStory
    <3> QED BY <1>1, <2>2, <3>3
  <2>3. CASE t \notin hit
    BY <1>1, <2>1, <2>3
  <2> QED BY <2>2, <2>3
<1>3. AttemptsMatchTask'
  BY <1>2 DEF AttemptsMatchTask, Story
<1>4. run'.status = Aggregate(Status(task'))
  <2> DEFINE a == Aggregate(Status(task'))
  <2>1. run' = [[run EXCEPT !.status = a] EXCEPT !.cancel = TRUE]
    BY <1>1 DEF Recompute
  <2> HIDE DEF a
  <2> QED BY <2>1 DEF a, TypeInv, TypeOK
<1> QED BY <1>3, <1>4 DEF StoryInv, RunFollows, Status

LEMMA RetryTaskKeepsStory ==
  ASSUME TypeInv, StoryInv, NEW t \in Tasks, NEW status \in {"pending", "ready"},
         RetryTask(t, status)
  PROVE  StoryInv'
<1>1. task[t] \in TaskRecords /\ Story(task[t]) /\ task[t].status \notin {"running", "passed"}
  BY StoryOfTasks DEF TypeInv, TypeOK, StoryInv, RetryTask, Retryable
<1>2. status \in TaskStatuses \ {"running", "passed"} /\ status \notin Terminal
  BY DEF TaskStatuses, Open, Terminal
<1>3. Story([task[t] EXCEPT !.status = status])
  BY <1>1, <1>2, RestatedStory
<1>4. task' = [task EXCEPT ![t] = [task[t] EXCEPT !.status = status]]
  BY DEF RetryTask
<1>5. \A u \in Tasks : Story(task'[u])
  BY <1>3, <1>4, StoryOfTasks DEF TypeInv, TypeOK, StoryInv
<1>6. AttemptsMatchTask'
  BY <1>5 DEF AttemptsMatchTask, Story
<1>7. Status(task')[t] \notin Terminal
  BY <1>1, <1>2, <1>4 DEF Status, TypeInv, TypeOK, TaskRecords
<1>8. Aggregate(Status(task')) = "running"
  BY <1>7, UnfinishedAggregate
<1>9. run'.status = "running"
  BY DEF RetryTask, TypeInv, TypeOK
<1> QED BY <1>6, <1>8, <1>9 DEF StoryInv, RunFollows, Status

LEMMA StoryInit == Init => StoryInv
<1> SUFFICES ASSUME Init PROVE StoryInv
  OBVIOUS
<1>1. PICK unsupported \in SUBSET Tasks :
        /\ unsupported # Tasks
        /\ run = [status |-> "queued", cancel |-> FALSE]
        /\ task = [t \in Tasks |->
             [status |-> IF t \in unsupported THEN "unsupported" ELSE "pending",
              source |-> "none", attempts |-> <<>>, earlier |-> FALSE, repairs |-> 0]]
  BY DEF Init
<1>2. \A t \in Tasks :
        /\ task[t].attempts = <<>>
        /\ task[t].status = IF t \in unsupported THEN "unsupported" ELSE "pending"
  BY <1>1
<1>3. AttemptsMatchTask
  <2> SUFFICES ASSUME NEW t \in Tasks PROVE Story(task[t])
    BY StoryOfTasks
  <2>1. LastStatus(task[t]) = "none" /\ task[t].status \notin {"running", "passed"}
    BY <1>2 DEF LastStatus
  <2>2. DOMAIN task[t].attempts = {}
    BY <1>2
  <2> QED BY <2>1, <2>2 DEF Story, Executing
<1>4. run.status = "queued" /\ Untouched
  BY <1>1, <1>2 DEF Untouched
<1> QED BY <1>3, <1>4 DEF StoryInv, RunFollows

LEMMA StoryStep == TypeInv /\ SnapshotInv /\ StoryInv /\ [Next]_vars => StoryInv'
<1> SUFFICES ASSUME TypeInv, SnapshotInv, StoryInv, [Next]_vars PROVE StoryInv'
  OBVIOUS
<1>1. ASSUME UNCHANGED <<run, task>> PROVE StoryInv'
  BY <1>1, PassiveKeepsStory
<1>2. ASSUME NEW w \in Slots, Stage(w) PROVE StoryInv'
  <2>1. CASE Yield(w) \/ Conclude(w) \/ StageFails(w)
    BY <1>1, <2>1 DEF Yield, Conclude, StageFails
  <2> QED BY <1>2, <2>1, StageAdvances, StartAttemptAdvances, AdvanceKeepsStory DEF Stage
<1>3. ASSUME NEW w \in Slots, Settle(w) PROVE StoryInv'
  <2>1. CASE DropResult(w)
    BY <1>1, <2>1 DEF DropResult
  <2> QED BY <1>3, <2>1, SettleAdvances, AdvanceKeepsStory DEF Settle
<1>4. ASSUME NEW w \in Slots, SlotStep(w) PROVE StoryInv'
  <2>1. CASE Read(w)
    BY <1>1, <2>1 DEF Read
  <2> QED BY <1>2, <1>3, <1>4, <2>1, EndClaimKeepsStory DEF SlotStep
<1>5. ASSUME NEW w \in Slots,
             Crash(w) \/ HeartbeatCancelled(w) \/ HeartbeatLost(w) \/ Interrupt(w)
      PROVE  StoryInv'
  BY <1>1, <1>5 DEF Crash, HeartbeatCancelled, HeartbeatLost, Interrupt, Stop
<1>6. ASSUME NEW t \in Tasks, ClaimAny(t) \/ Reconcile(t) \/ Expire(t) PROVE StoryInv'
  <2>1. CASE ClaimAny(t) \/ Expire(t)
    BY <1>1, <2>1 DEF ClaimAny, Claim, Expire
  <2> QED BY <1>6, <2>1, ReconcileKeepsStory
<1>7. CASE UNCHANGED vars
  BY <1>1, <1>7 DEF vars
<1> QED BY <1>4, <1>5, <1>6, <1>7, CancelRunKeepsStory, RetryTaskKeepsStory DEF Next

\* No crash, lost lease, cancellation, exhausted budget or late answer ever separates the
\* attempts of a task from its status, or turns a recorded PASS into something else.
THEOREM AttemptsTellTheStory == Spec => []AttemptsMatchTask
<1>1. StoryInv => AttemptsMatchTask
  BY DEF StoryInv
<1> QED BY <1>1, TypeInit, TypeStep, SnapshotInit, SnapshotStep, StoryInit, StoryStep, PTL
        DEF Spec

LEMMA FollowingRunAgrees ==
  ASSUME TypeInv, RunFollows
  PROVE  RunAgreesWithTasks
<1>1. \A t \in Tasks : /\ task[t].status \in Terminal \cup Open
                        /\ Status(task)[t] = task[t].status
  BY DEF TypeInv, TypeOK, TaskRecords, TaskStatuses, Status
<1>2. PICK t \in Tasks : TRUE
  BY TasksAssumption
<1>3. CASE run.status = "queued" /\ Untouched
  BY <1>2, <1>3 DEF Untouched, RunAgreesWithTasks, Open
<1>4. CASE run.status = Aggregate(Status(task))
  <2>1. CASE \E u \in Tasks : task[u].status \notin Terminal
    <3>1. run.status = "running"
      BY <1>1, <1>4, <2>1, UnfinishedAggregate
    <3> QED BY <1>1, <2>1, <3>1 DEF RunAgreesWithTasks, Terminal
  <2>2. CASE \A u \in Tasks : task[u].status \in Terminal
    <3>1. ~ \E u \in Tasks : task[u].status \in Open
      BY <2>2, OpenIsNotTerminal
    <3>2. run.status = IF \A u \in Tasks : task[u].status = "cancelled" THEN "cancelled"
                       ELSE IF \A u \in Tasks : task[u].status = "passed" THEN "succeeded"
                       ELSE IF \A u \in Tasks : task[u].status = "failed" THEN "failed"
                       ELSE "partial"
      BY <1>1, <1>4, <2>2 DEF Aggregate
    <3> QED BY <1>2, <3>1, <3>2 DEF RunAgreesWithTasks
  <2> QED BY <2>1, <2>2
<1> QED BY <1>3, <1>4 DEF RunFollows

\* For any number of tasks the row of the run tells the truth about them after every
\* transaction: the deferred trigger on the aggregate never fires.
THEOREM RunAgrees == Spec => []RunAgreesWithTasks
<1>1. TypeInv /\ StoryInv => RunAgreesWithTasks
  BY FollowingRunAgrees DEF StoryInv
<1> QED BY <1>1, TypeInit, TypeStep, SnapshotInit, SnapshotStep, StoryInit, StoryStep, PTL
        DEF Spec

-----------------------------------------------------------------------------
(***************************************************************************)
(* Jobs and cancellation, and then the refinement: for every number of     *)
(* tasks and slots, a run executed by workers keeps the promise of         *)
(* ExecutionRun.                                                           *)
(*                                                                         *)
(* The refinement rests on everything proved before: a stage advances its  *)
(* task along an edge of the graph because its snapshot is fresh, the run  *)
(* follows because it is the aggregate, and a cancelled run only cancels   *)
(* because every job that is still active has been told (JobInv).          *)
(***************************************************************************)

\* Tasks that cannot be executed never get a job.
UnsupportedHasNoJob ==
  \A t \in Tasks : task[t].status = "unsupported" => job[t].status = "none"

JobInv == NoOrphanTask /\ CancellationReachesJobs /\ UnsupportedHasNoJob

LEMMA PassiveKeepsJobs ==
  ASSUME JobInv, UNCHANGED <<run, task, job>>
  PROVE  JobInv'
BY DEF JobInv, NoOrphanTask, CancellationReachesJobs, UnsupportedHasNoJob

\* A task whose job is running is written, the job is not.
LEMMA WriteKeepsJobs ==
  ASSUME TypeInv, JobInv, NEW t \in Tasks, NEW r \in TaskRecords,
         task' = [task EXCEPT ![t] = r], job' = job, run'.cancel = run.cancel,
         job[t].status = "running", r.status # "unsupported",
         ~job[t].cancel \/ r.status \in {"running", "cancelled"}
  PROVE  JobInv'
<1>1. task'[t] = r /\ \A u \in Tasks \ {t} : task'[u] = task[u]
  BY DEF TypeInv, TypeOK
<1>2. NoOrphanTask'
  BY <1>1 DEF JobInv, NoOrphanTask, Active
<1>3. CancellationReachesJobs'
  BY <1>1 DEF JobInv, CancellationReachesJobs, Active
<1>4. UnsupportedHasNoJob'
  BY <1>1 DEF JobInv, UnsupportedHasNoJob
<1> QED BY <1>2, <1>3, <1>4 DEF JobInv

\* A job ends, its task with it.
LEMMA CloseKeepsJobs ==
  ASSUME TypeInv, JobInv, NEW t \in Tasks, NEW r \in TaskRecords,
         task' = [task EXCEPT ![t] = r], run'.cancel = run.cancel,
         job' = [job EXCEPT ![t] = Leave(job[t], JobOutcome(r.status))],
         r.status \in Terminal \ {"unsupported"}
  PROVE  JobInv'
<1>1. task'[t] = r /\ \A u \in Tasks \ {t} : task'[u] = task[u] /\ job'[u] = job[u]
  BY DEF TypeInv, TypeOK
<1>2. job'[t].status = JobOutcome(r.status) /\ ~Active(job'[t])
  <2>1. JobOutcome(r.status) \in JobStatuses \ {"queued", "running"}
    BY JobOutcomeType DEF JobStatuses
  <2>2. job'[t].status = JobOutcome(r.status)
    BY <2>1, LeaveType DEF TypeInv, TypeOK
  <2> QED BY <2>1, <2>2 DEF Active
<1>3. r.status \notin Open
  BY OpenIsNotTerminal
<1>4. NoOrphanTask'
  <2> SUFFICES ASSUME NEW u \in Tasks
               PROVE  /\ task'[u].status \in Open => Active(job'[u])
                      /\ job'[u].status = "queued" =>
                           task'[u].status \in Open /\ ~Executing(task'[u])
                      /\ job'[u].status \in {"succeeded", "failed", "cancelled"} =>
                           job'[u].status = JobOutcome(task'[u].status)
    BY DEF NoOrphanTask, Active, Executing, LastStatus, LastOf, JobOutcome
  <2>1. CASE u = t
    BY <1>1, <1>2, <1>3, <2>1 DEF Active
  <2>2. CASE u # t
    BY <1>1, <2>2 DEF JobInv, NoOrphanTask
  <2> QED BY <2>1, <2>2
<1>5. CancellationReachesJobs'
  <2> SUFFICES ASSUME run'.cancel, NEW u \in Tasks, Active(job'[u])
               PROVE  /\ job'[u].status = "running" /\ job'[u].cancel
                      /\ task'[u].status \in {"running", "cancelled"}
    BY DEF CancellationReachesJobs, Active
  <2>1. u # t
    BY <1>2
  <2> QED BY <1>1, <2>1 DEF JobInv, CancellationReachesJobs
<1>6. UnsupportedHasNoJob'
  BY <1>1 DEF JobInv, UnsupportedHasNoJob
<1> QED BY <1>4, <1>5, <1>6 DEF JobInv

\* A job that is active stays active, its task as it is.
LEMMA HandKeepsJobs ==
  ASSUME TypeInv, JobInv, NEW t \in Tasks, NEW j \in JobRecords,
         task' = task, run'.cancel = run.cancel, job' = [job EXCEPT ![t] = j],
         Active(job[t]), j.status \in {"queued", "running"},
         j.status = "queued" => task[t].status \in Open /\ ~Executing(task[t]),
         \/ ~job[t].cancel
         \/ job[t].status = "running" /\ j.status = "running" /\ j.cancel = job[t].cancel
  PROVE  JobInv'
<1>1. job'[t] = j /\ \A u \in Tasks \ {t} : job'[u] = job[u]
  BY DEF TypeInv, TypeOK
<1>2. NoOrphanTask'
  <2> SUFFICES ASSUME NEW u \in Tasks
               PROVE  /\ task[u].status \in Open => Active(job'[u])
                      /\ job'[u].status = "queued" =>
                           task[u].status \in Open /\ ~Executing(task[u])
                      /\ job'[u].status \in {"succeeded", "failed", "cancelled"} =>
                           job'[u].status = JobOutcome(task[u].status)
    BY DEF NoOrphanTask, Active, Executing, LastStatus, LastOf, JobOutcome
  <2>1. CASE u = t
    BY <1>1, <2>1 DEF Active
  <2>2. CASE u # t
    BY <1>1, <2>2 DEF JobInv, NoOrphanTask
  <2> QED BY <2>1, <2>2
<1>3. CancellationReachesJobs'
  <2> SUFFICES ASSUME run.cancel, NEW u \in Tasks, Active(job'[u])
               PROVE  /\ job'[u].status = "running" /\ job'[u].cancel
                      /\ task[u].status \in {"running", "cancelled"}
    BY DEF CancellationReachesJobs, Active
  <2>1. CASE u = t
    BY <1>1, <2>1 DEF JobInv, CancellationReachesJobs
  <2>2. CASE u # t
    BY <1>1, <2>2 DEF JobInv, CancellationReachesJobs
  <2> QED BY <2>1, <2>2
<1>4. UnsupportedHasNoJob'
  <2>1. task[t].status # "unsupported"
    BY DEF JobInv, UnsupportedHasNoJob, Active
  <2> QED BY <1>1, <2>1 DEF JobInv, UnsupportedHasNoJob
<1> QED BY <1>2, <1>3, <1>4 DEF JobInv

LEMMA RecomputeCancel ==
  ASSUME TypeInv, NEW ts
  PROVE  Recompute(ts).cancel = run.cancel
BY RecomputeType DEF TypeInv, TypeOK, RunRecords

LEMMA AdvanceKeepsJobs ==
  ASSUME TypeInv, JobInv, NEW w \in Slots, NEW n \in TaskRecords, Advances(w, n)
  PROVE  JobInv'
<1>1. slot[w].task \in Tasks /\ job[slot[w].task].status = "running"
  BY DEF Advances, Owns
<1>2. /\ task' = [task EXCEPT ![slot[w].task] = n] /\ job' = job
      /\ run' = Recompute(task') /\ n.status # "unsupported"
  BY DEF Advances
<1>3. run'.cancel = run.cancel
  BY <1>2, RecomputeCancel
<1>4. ~job[slot[w].task].cancel \/ n.status \in {"running", "cancelled"}
  BY DEF Advances, HoldsLease
<1> QED BY <1>1, <1>2, <1>3, <1>4, WriteKeepsJobs

LEMMA ClaimKeepsJobs ==
  ASSUME TypeInv, JobInv, NEW w \in Slots, NEW t \in Tasks, NEW lane \in Lanes,
         Claim(w, t, lane)
  PROVE  JobInv'
<1> DEFINE j == [job[t] EXCEPT !.status = "running", !.claims = @ + 1, !.owner = w,
                               !.expired = FALSE]
<1>1. j \in JobRecords /\ j.status = "running"
  BY ExecutionAssumption DEF Claim, Claimable, TypeInv, TypeOK, JobRecords, JobStatuses
<1>2. job' = [job EXCEPT ![t] = j] /\ task' = task /\ run' = run
  BY DEF Claim, TypeInv, TypeOK
<1>3. Active(job[t]) /\ ~job[t].cancel
  BY DEF Claim, Claimable, Active
<1> HIDE DEF j
<1> QED BY <1>1, <1>2, <1>3, HandKeepsJobs

LEMMA ExpireKeepsJobs ==
  ASSUME TypeInv, JobInv, NEW t \in Tasks, Expire(t)
  PROVE  JobInv'
<1> DEFINE j == [job[t] EXCEPT !.expired = TRUE]
<1>1. j \in JobRecords /\ j.status = "running" /\ j.cancel = job[t].cancel
  BY DEF Expire, TypeInv, TypeOK, JobRecords
<1>2. job' = [job EXCEPT ![t] = j] /\ task' = task /\ run' = run
  BY DEF Expire, TypeInv, TypeOK
<1>3. Active(job[t]) /\ job[t].status = "running"
  BY DEF Expire, Active
<1> HIDE DEF j
<1> QED BY <1>1, <1>2, <1>3, HandKeepsJobs

\* A job goes back to the queue, refunded or not.
LEMMA RequeueKeepsJobs ==
  ASSUME TypeInv, JobInv, NEW w \in Slots, slot[w].task \in Tasks, HoldsLease(w),
         NEW c \in 0..MaxClaims, task' = task, run' = run,
         ~Executing(task[slot[w].task]), task[slot[w].task].status \in Open,
         job' = [job EXCEPT ![slot[w].task] =
                   [Leave(job[slot[w].task], "queued") EXCEPT !.claims = c]]
  PROVE  JobInv'
<1> DEFINE t == slot[w].task
           j == [Leave(job[t], "queued") EXCEPT !.claims = c]
<1>1. Leave(job[t], "queued") \in JobRecords /\ Leave(job[t], "queued").status = "queued"
  BY LeaveType DEF TypeInv, TypeOK, JobStatuses
<1>2. j \in JobRecords /\ j.status = "queued"
  BY <1>1 DEF JobRecords
<1>3. Active(job[t]) /\ ~job[t].cancel
  BY DEF HoldsLease, Owns, Active
<1>4. job' = [job EXCEPT ![t] = j]
  OBVIOUS
<1> HIDE DEF j
<1> QED BY <1>2, <1>3, <1>4, HandKeepsJobs

LEMMA YieldKeepsJobs ==
  ASSUME TypeInv, JobInv, NEW w \in Slots, Yield(w)
  PROVE  JobInv'
<1> DEFINE t == slot[w].task
<1>1. t \in Tasks /\ HoldsLease(w) /\ job[t].status = "running"
  BY DEF Yield, TypeInv, SlotsServeTasks, HoldsLease, Owns
<1>2. job[t].claims \in 1..MaxClaims
  BY <1>1, ExecutionAssumption DEF TypeInv, TypeOK, BudgetCountsLosses, JobRecords
<1>3. job[t].claims - 1 \in 0..MaxClaims
  BY <1>2, ExecutionAssumption
<1>4. RefundedJob(job[t]) = [Leave(job[t], "queued") EXCEPT !.claims = job[t].claims - 1]
  BY <1>1, LeaveType DEF RefundedJob, TypeInv, TypeOK, JobStatuses
<1>5. job' = [job EXCEPT ![t] = [Leave(job[t], "queued") EXCEPT !.claims = job[t].claims - 1]]
  BY <1>1, <1>4 DEF Yield, TypeInv, TypeOK
<1>6. task' = task /\ run' = run /\ ~Executing(task[t]) /\ task[t].status \in Open
  BY DEF Yield
<1> QED BY <1>1, <1>3, <1>5, <1>6, RequeueKeepsJobs

LEMMA RunningJobIsSupported ==
  ASSUME TypeInv, JobInv, NEW t \in Tasks, Active(job[t])
  PROVE  task[t].status # "unsupported"
BY DEF JobInv, UnsupportedHasNoJob, Active

\* CloseJob, unfolded.
LEMMA ClosedByWorker ==
  ASSUME TypeInv, JobInv, NEW w \in Slots, slot[w].task \in Tasks, NEW r \in TaskRecords,
         CloseJob(w, r), r.status \in Terminal \ {"unsupported"}
  PROVE  JobInv'
<1> DEFINE t == slot[w].task
<1>1. /\ task' = [task EXCEPT ![t] = r] /\ run' = Recompute(task')
      /\ job' = [job EXCEPT ![t] = Leave(job[t], JobOutcome(r.status))]
  BY DEF CloseJob, TypeInv, TypeOK
<1>2. run'.cancel = run.cancel
  BY <1>1, RecomputeCancel
<1> QED BY <1>1, <1>2, CloseKeepsJobs

LEMMA EndClaimKeepsJobs ==
  ASSUME TypeInv, StoryInv, JobInv, NEW w \in Slots, EndClaim(w)
  PROVE  JobInv'
<1> DEFINE t == slot[w].task
           r == task[t]
<1>1. slot[w].pc # "idle"
  BY DEF EndClaim, Finish, FailCancelled, Release, GiveUp
<1>2. t \in Tasks /\ r \in TaskRecords /\ Story(r)
  BY <1>1, StoryOfTasks DEF TypeInv, TypeOK, SlotsServeTasks, StoryInv
<1>3. ASSUME r.status \in Terminal, Owns(w), CloseJob(w, r) PROVE JobInv'
  <2>1. r.status # "unsupported"
    BY <1>2, <1>3, RunningJobIsSupported DEF Owns, Active
  <2> QED BY <1>2, <1>3, <2>1, ClosedByWorker
<1>4. ASSUME UNCHANGED <<run, task, job>> PROVE JobInv'
  BY <1>4, PassiveKeepsJobs
<1>5. CASE Finish(w)
  BY <1>3, <1>4, <1>5 DEF Finish, FinishAccepted
<1>6. CASE FailCancelled(w)
  BY <1>3, <1>4, <1>6 DEF FailCancelled, FinishAccepted, Abandon
<1>7. CASE GiveUp(w)
  BY <1>4, <1>7 DEF GiveUp, Abandon
<1>8. CASE Release(w)
  <2>1. HoldsLease(w) /\ Owns(w) /\ ~Executing(r)
    BY <1>8 DEF Release, MayRelease, HoldsLease
  <2>2. CASE r.status \in Terminal /\ CloseJob(w, r)
    BY <1>3, <2>1, <2>2
  <2>3. CASE r.status \in Open /\ job' = [job EXCEPT ![t] = Leave(job[t], "queued")]
             /\ UNCHANGED <<run, task>>
    <3>1. job[t] \in JobRecords
      BY <1>2 DEF TypeInv, TypeOK
    <3>2. Leave(job[t], "queued") \in JobRecords
          /\ Leave(job[t], "queued").claims = job[t].claims /\ job[t].claims \in 0..MaxClaims
      BY <3>1, LeaveType DEF JobStatuses, JobRecords
    <3>3. Leave(job[t], "queued") = [Leave(job[t], "queued") EXCEPT !.claims = job[t].claims]
      BY <3>2 DEF JobRecords
    <3> QED BY <1>2, <2>1, <2>3, <3>2, <3>3, RequeueKeepsJobs
  <2>4. CASE r.status \in Open /\ CloseJob(w, [r EXCEPT !.status = "blocked"])
    <3> DEFINE n == [r EXCEPT !.status = "blocked"]
    <3>1. n \in TaskRecords /\ n.status = "blocked"
      BY <1>2, <2>1, <2>4, BlockedTask DEF TaskRecords
    <3>2. CloseJob(w, n)
      BY <2>4
    <3> HIDE DEF n
    <3> QED BY <1>2, <3>1, <3>2, ClosedByWorker DEF Terminal
  <2> QED BY <1>2, <1>8, <2>2, <2>3, <2>4 DEF Release, TypeInv, TypeOK
<1> QED BY <1>5, <1>6, <1>7, <1>8 DEF EndClaim

LEMMA ReconcileKeepsJobs ==
  ASSUME TypeInv, StoryInv, JobInv, NEW t \in Tasks, Reconcile(t)
  PROVE  JobInv'
<1> DEFINE n == Reconciled(t)
           status == ReconciledStatus(t)
<1>1. /\ task' = [task EXCEPT ![t] = n] /\ run' = Recompute(task') /\ Reconcilable(t)
      /\ job' = IF status = "ready" THEN job
                ELSE [job EXCEPT ![t] = Leave(job[t], JobOutcome(status))]
  BY DEF Reconcile, Reconciled, TypeInv, TypeOK
<1>2. /\ n \in TaskRecords /\ n.status = status
      /\ \/ task[t].status \in Terminal /\ n = task[t]
         \/ task[t].status \in Open /\ status \in {"cancelled", "blocked", "ready"}
  BY <1>1, ReconciledTask
<1>3. job[t].status = "running" /\ Active(job[t])
  BY <1>1 DEF Reconcilable, Active
<1>4. run'.cancel = run.cancel
  BY <1>1, RecomputeCancel
<1>5. CASE status = "ready"
  <2>1. ~job[t].cancel
    <3>1. "ready" \notin Terminal
      BY DEF Terminal
    <3> QED BY <1>5, <3>1 DEF ReconciledStatus
  <2> HIDE DEF n, status
  <2> QED BY <1>1, <1>2, <1>3, <1>4, <1>5, <2>1, WriteKeepsJobs
<1>6. CASE status # "ready"
  <2>1. status \in Terminal \ {"unsupported"}
    BY <1>2, <1>3, <1>6, RunningJobIsSupported DEF Terminal
  <2> HIDE DEF n, status
  <2> QED BY <1>1, <1>2, <1>4, <1>6, <2>1, CloseKeepsJobs
<1> QED BY <1>5, <1>6

\* What cancelRun does to a task and its job.
LEMMA CancelledJobs ==
  ASSUME TypeInv, StoryInv, JobInv, CancelRun, NEW t \in Tasks
  PROVE  /\ task'[t].status \in Open => Active(job'[t])
         /\ job'[t].status # "queued"
         /\ job'[t].status \in {"succeeded", "failed", "cancelled"} =>
              job'[t].status = JobOutcome(task'[t].status)
         /\ Active(job'[t]) => /\ job'[t].status = "running" /\ job'[t].cancel
                               /\ task'[t].status \in {"running", "cancelled"}
         /\ task'[t].status = "unsupported" => job'[t].status = "none"
<1> DEFINE r == task[t]
           hit == r.status \in Open /\ ~Executing(r)
<1>1. /\ task'[t] = IF hit THEN [r EXCEPT !.status = "cancelled"] ELSE r
      /\ job'[t] = IF Active(job[t]) THEN CancelledJob(t) ELSE job[t]
  BY DEF CancelRun
<1>2. r \in TaskRecords /\ job[t] \in JobRecords /\ Story(r)
  BY StoryOfTasks DEF TypeInv, TypeOK, StoryInv
<1>3. r.status \in Terminal \/ r.status \in Open
  BY <1>2 DEF TaskRecords, TaskStatuses
<1>4. CASE ~Active(job[t])
  <2>1. r.status \notin Open /\ task'[t] = r /\ job'[t] = job[t]
    BY <1>1, <1>4 DEF JobInv, NoOrphanTask
  <2>2. /\ job[t].status \in {"succeeded", "failed", "cancelled"} =>
              job[t].status = JobOutcome(r.status)
        /\ r.status = "unsupported" => job[t].status = "none"
    BY DEF JobInv, NoOrphanTask, UnsupportedHasNoJob
  <2>3. job[t].status \notin {"queued", "running"} /\ ~Active(job'[t])
    BY <1>4, <2>1 DEF Active
  <2> HIDE DEF r
  <2> QED BY <2>1, <2>2, <2>3
<1>5. CASE Active(job[t]) /\ r.status \in Terminal
  <2>1. /\ task'[t] = r /\ job'[t] = Leave(job[t], JobOutcome(r.status))
        /\ r.status \notin Open
    BY <1>1, <1>5, OpenIsNotTerminal DEF CancelledJob
  <2>2. JobOutcome(r.status) \in {"succeeded", "failed", "cancelled"}
    BY JobOutcomeType
  <2>3. job'[t].status = JobOutcome(r.status)
    BY <1>2, <2>1, <2>2, LeaveType DEF JobStatuses
  <2>4. ~Active(job'[t]) /\ r.status # "unsupported"
    BY <1>5, <2>2, <2>3, RunningJobIsSupported DEF Active
  <2> HIDE DEF r
  <2> QED BY <2>1, <2>2, <2>3, <2>4
<1>6. CASE Active(job[t]) /\ r.status \in Open /\ Executing(r)
  <2>1. task'[t] = r /\ job'[t] = [job[t] EXCEPT !.cancel = TRUE]
    BY <1>1, <1>6, OpenIsNotTerminal DEF CancelledJob
  <2>2. job[t].status = "running" /\ r.status = "running"
    BY <1>2, <1>6 DEF JobInv, NoOrphanTask, Active, Story
  <2>3. job'[t].status = "running" /\ job'[t].cancel
    BY <1>2, <2>1, <2>2 DEF JobRecords
  <2> QED BY <2>1, <2>2, <2>3 DEF Active
<1>7. CASE Active(job[t]) /\ r.status \in Open /\ ~Executing(r)
  <2> DEFINE told == [job[t] EXCEPT !.cancel = TRUE]
  <2>1. /\ task'[t] = [r EXCEPT !.status = "cancelled"]
        /\ job'[t] = Leave(told, "cancelled")
    BY <1>1, <1>7, OpenIsNotTerminal DEF CancelledJob
  <2>2. told \in JobRecords
    BY <1>2 DEF JobRecords
  <2> HIDE DEF told
  <2>3. job'[t].status = "cancelled"
    BY <2>1, <2>2, LeaveType DEF JobStatuses
  <2>4. task'[t].status = "cancelled" /\ "cancelled" \notin Open
    BY <1>2, <2>1 DEF TaskRecords, Open
  <2> QED BY <2>3, <2>4 DEF Active, JobOutcome
<1> QED BY <1>3, <1>4, <1>5, <1>6, <1>7

LEMMA CancelRunKeepsJobs ==
  ASSUME TypeInv, StoryInv, JobInv, CancelRun
  PROVE  JobInv'
<1>1. NoOrphanTask'
  BY CancelledJobs DEF NoOrphanTask, Active, Executing, LastStatus, LastOf, JobOutcome
<1>2. CancellationReachesJobs'
  BY CancelledJobs DEF CancellationReachesJobs, Active
<1>3. UnsupportedHasNoJob'
  BY CancelledJobs DEF UnsupportedHasNoJob
<1> QED BY <1>1, <1>2, <1>3 DEF JobInv

LEMMA RetryTaskKeepsJobs ==
  ASSUME TypeInv, StoryInv, JobInv, NEW t \in Tasks, NEW status \in {"pending", "ready"},
         RetryTask(t, status)
  PROVE  JobInv'
<1> DEFINE r == [task[t] EXCEPT !.status = status]
           j == QueuedJob(job[t].number + 1)
<1>1. /\ task' = [task EXCEPT ![t] = r] /\ job' = [job EXCEPT ![t] = j]
      /\ run'.cancel = run.cancel /\ ~run.cancel
  BY DEF RetryTask, TypeInv, TypeOK
<1>2. task[t] \in TaskRecords /\ Story(task[t]) /\ task[t].status # "running"
  BY StoryOfTasks DEF TypeInv, TypeOK, StoryInv, RetryTask, Retryable
<1>3. r.status = status /\ status \in Open /\ status # "unsupported" /\ ~Executing(r)
  BY <1>2 DEF TaskRecords, Open, Story, Executing, LastStatus, LastOf
<1>4. j.status = "queued"
  BY DEF QueuedJob
<1> HIDE DEF r, j
<1>5. task'[t] = r /\ job'[t] = j
      /\ \A u \in Tasks \ {t} : task'[u] = task[u] /\ job'[u] = job[u]
  BY <1>1 DEF TypeInv, TypeOK
<1>6. NoOrphanTask'
  <2> SUFFICES ASSUME NEW u \in Tasks
               PROVE  /\ task'[u].status \in Open => Active(job'[u])
                      /\ job'[u].status = "queued" =>
                           task'[u].status \in Open /\ ~Executing(task'[u])
                      /\ job'[u].status \in {"succeeded", "failed", "cancelled"} =>
                           job'[u].status = JobOutcome(task'[u].status)
    BY DEF NoOrphanTask, Active, Executing, LastStatus, LastOf, JobOutcome
  <2>1. CASE u = t
    BY <1>3, <1>4, <1>5, <2>1 DEF Active
  <2>2. CASE u # t
    BY <1>5, <2>2 DEF JobInv, NoOrphanTask
  <2> QED BY <2>1, <2>2
<1>7. CancellationReachesJobs'
  BY <1>1 DEF CancellationReachesJobs
<1>8. UnsupportedHasNoJob'
  BY <1>3, <1>5 DEF JobInv, UnsupportedHasNoJob
<1> QED BY <1>6, <1>7, <1>8 DEF JobInv

LEMMA JobInit == Init => JobInv
<1> SUFFICES ASSUME Init PROVE JobInv
  OBVIOUS
<1>1. PICK unsupported \in SUBSET Tasks :
        /\ run = [status |-> "queued", cancel |-> FALSE]
        /\ task = [t \in Tasks |->
             [status |-> IF t \in unsupported THEN "unsupported" ELSE "pending",
              source |-> "none", attempts |-> <<>>, earlier |-> FALSE, repairs |-> 0]]
        /\ job = [t \in Tasks |-> IF t \in unsupported THEN NoJob ELSE QueuedJob(1)]
  BY DEF Init
<1>2. NoJob.status = "none" /\ QueuedJob(1).status = "queued"
  BY DEF NoJob, QueuedJob
<1>3. \A t \in Tasks :
        \/ task[t].status = "unsupported" /\ job[t].status = "none"
        \/ /\ task[t].status = "pending" /\ job[t].status = "queued"
           /\ ~Executing(task[t])
  BY <1>1, <1>2 DEF Executing, LastStatus
<1> QED BY <1>1, <1>3 DEF JobInv, NoOrphanTask, CancellationReachesJobs,
                          UnsupportedHasNoJob, Active, Open

LEMMA JobStep ==
  TypeInv /\ SnapshotInv /\ StoryInv /\ JobInv /\ [Next]_vars => JobInv'
<1> SUFFICES ASSUME TypeInv, SnapshotInv, StoryInv, JobInv, [Next]_vars PROVE JobInv'
  OBVIOUS
<1>1. ASSUME UNCHANGED <<run, task, job>> PROVE JobInv'
  BY <1>1, PassiveKeepsJobs
<1>2. ASSUME NEW w \in Slots, Stage(w) PROVE JobInv'
  <2>1. CASE Conclude(w) \/ StageFails(w)
    BY <1>1, <2>1 DEF Conclude, StageFails
  <2> QED BY <1>2, <2>1, YieldKeepsJobs, StageAdvances, StartAttemptAdvances,
             AdvanceKeepsJobs DEF Stage
<1>3. ASSUME NEW w \in Slots, Settle(w) PROVE JobInv'
  <2>1. CASE DropResult(w)
    BY <1>1, <2>1 DEF DropResult
  <2> QED BY <1>3, <2>1, SettleAdvances, AdvanceKeepsJobs DEF Settle
<1>4. ASSUME NEW w \in Slots, SlotStep(w) PROVE JobInv'
  <2>1. CASE Read(w)
    BY <1>1, <2>1 DEF Read
  <2> QED BY <1>2, <1>3, <1>4, <2>1, EndClaimKeepsJobs DEF SlotStep
<1>5. ASSUME NEW w \in Slots,
             Crash(w) \/ HeartbeatCancelled(w) \/ HeartbeatLost(w) \/ Interrupt(w)
      PROVE  JobInv'
  BY <1>1, <1>5 DEF Crash, HeartbeatCancelled, HeartbeatLost, Interrupt, Stop
<1>6. ASSUME NEW t \in Tasks, ClaimAny(t) \/ Reconcile(t) \/ Expire(t) PROVE JobInv'
  BY <1>6, ClaimKeepsJobs, ReconcileKeepsJobs, ExpireKeepsJobs DEF ClaimAny
<1>7. CASE UNCHANGED vars
  BY <1>1, <1>7 DEF vars
<1> QED BY <1>4, <1>5, <1>6, <1>7, CancelRunKeepsJobs, RetryTaskKeepsJobs DEF Next

\* Whatever crashes, expires or is cancelled, an open task has an active job, and a job
\* that ended says what became of its task.
THEOREM NoOrphans == Spec => []NoOrphanTask
<1>1. JobInv => NoOrphanTask
  BY DEF JobInv
<1> QED BY <1>1, TypeInit, TypeStep, SnapshotInit, SnapshotStep, StoryInit, StoryStep,
           JobInit, JobStep, PTL DEF Spec

\* The rows of a run tell one story: its tasks, their attempts and jobs and the run's own
\* status agree after every transaction, for any number of tasks, slots, claims and repairs.
THEOREM RowsTellOneStory == Spec => []RowsAgree
<1> QED BY TypeCorrect, BudgetExact, AttemptsTellTheStory, RunAgrees, NoOrphans, PTL
        DEF RowsAgree

\* A requested cancellation has reached every job that is still active, also the ones
\* that were claimed, released or handed over at the same time.
THEOREM CancellationReaches == Spec => []CancellationReachesJobs
<1>1. JobInv => CancellationReachesJobs
  BY DEF JobInv
<1> QED BY <1>1, TypeInit, TypeStep, SnapshotInit, SnapshotStep, StoryInit, StoryStep,
           JobInit, JobStep, PTL DEF Spec

-----------------------------------------------------------------------------
\* What ExecutionRun calls by the same names.
LEMMA SameLifecycle ==
  /\ Promise!Open = Open /\ Promise!TaskStatuses = TaskStatuses
  /\ Promise!Retryable = Retryable
  /\ \A f : Promise!Aggregate(f) = Aggregate(f)
  /\ \A s \in TaskStatuses : Promise!Transitions[s] = Transitions[s]
<1>1. /\ Promise!Open = Open /\ Promise!TaskStatuses = TaskStatuses
      /\ Promise!Retryable = Retryable /\ Promise!Terminal = Terminal
  BY DEF Promise!Open, Open, Promise!Terminal, Terminal, Promise!TaskStatuses, TaskStatuses,
         Promise!Retryable, Retryable
<1>2. \A f : Promise!Aggregate(f) = Aggregate(f)
  BY <1>1 DEF Promise!Aggregate, Aggregate
<1>3. Promise!Transitions = Transitions
  BY <1>1 DEF Promise!Transitions, Transitions
<1> QED BY <1>1, <1>2, <1>3

LEMMA PromisedInit == Init => Promise!RunInit
<1> SUFFICES ASSUME Init PROVE Promise!RunInit
  OBVIOUS
<1>1. PICK unsupported \in SUBSET Tasks :
        /\ unsupported # Tasks
        /\ run = [status |-> "queued", cancel |-> FALSE]
        /\ task = [t \in Tasks |->
             [status |-> IF t \in unsupported THEN "unsupported" ELSE "pending",
              source |-> "none", attempts |-> <<>>, earlier |-> FALSE, repairs |-> 0]]
  BY DEF Init
<1>2. Status(task) = [t \in Tasks |-> IF t \in unsupported THEN "unsupported" ELSE "pending"]
  BY <1>1 DEF Status
<1> QED BY <1>1, <1>2 DEF Promise!RunInit

\* A transaction that takes an open task one edge, only to "cancelled" once cancelled.
LEMMA EdgeIsPromised ==
  ASSUME TypeInv, StoryInv, NEW t \in Tasks, NEW n \in TaskRecords,
         task[t].status \in Open, n.status \in Transitions[task[t].status],
         run.cancel => n.status = "cancelled",
         task' = [task EXCEPT ![t] = n], run' = Recompute(task')
  PROVE  Promise!RunNext
<1>1. run.status \in {"queued", "running"}
  BY OpenTaskOpenRun DEF StoryInv
<1>2. run' = [run EXCEPT !.status = Aggregate(Status(task'))]
  BY <1>1 DEF Recompute
<1>3. run'.status = Aggregate(Status(task')) /\ run'.cancel = run.cancel
  BY <1>2 DEF TypeInv, TypeOK
<1>4. n.status \in TaskStatuses /\ task[t].status \in TaskStatuses
  BY DEF TypeInv, TypeOK, TaskRecords
<1>5. Status(task') = [Status(task) EXCEPT ![t] = n.status]
  BY DEF Status, TypeInv, TypeOK
<1>6. Status(task)[t] = task[t].status /\ (Status(task))' = Status(task')
  BY DEF Status
<1>7. Promise!Advance(t, n.status)
  BY <1>1, <1>3, <1>4, <1>5, <1>6, SameLifecycle DEF Promise!Advance
<1> QED BY <1>4, <1>7, SameLifecycle DEF Promise!RunNext

\* A job ends after its task: the run knows already.
LEMMA CloseIsStutter ==
  ASSUME TypeInv, StoryInv, JobInv, NEW t \in Tasks, Active(job[t]),
         task[t].status \in Terminal, task' = task, run' = Recompute(task')
  PROVE  UNCHANGED Promise!runVars
<1>1. task[t].status \notin {"pending", "unsupported"}
  BY RunningJobIsSupported DEF Terminal
<1>2. run.status = Aggregate(Status(task))
  BY <1>1 DEF StoryInv, RunFollows, Untouched
<1>3. run' = run
  <2> DEFINE a == Aggregate(Status(task))
  <2>1. run' = run \/ run' = [run EXCEPT !.status = a]
    BY DEF Recompute
  <2>2. run.status = a
    BY <1>2
  <2> HIDE DEF a
  <2> QED BY <2>1, <2>2 DEF TypeInv, TypeOK
<1> QED BY <1>3 DEF Promise!runVars, Status

LEMMA AdvanceIsPromised ==
  ASSUME TypeInv, StoryInv, JobInv, NEW w \in Slots, NEW n \in TaskRecords, Advances(w, n)
  PROVE  Promise!RunNext
<1>1. run.cancel => n.status = "cancelled"
  BY DEF Advances, HoldsLease, Owns, Active, JobInv, CancellationReachesJobs
<1> QED BY <1>1, EdgeIsPromised DEF Advances

LEMMA ReconcileIsPromised ==
  ASSUME TypeInv, StoryInv, JobInv, NEW t \in Tasks, Reconcile(t)
  PROVE  Promise!RunNext \/ UNCHANGED Promise!runVars
<1> DEFINE n == Reconciled(t)
           status == ReconciledStatus(t)
<1>1. task' = [task EXCEPT ![t] = n] /\ run' = Recompute(task') /\ Reconcilable(t)
  BY DEF Reconcile, Reconciled
<1>2. /\ n \in TaskRecords /\ n.status = status
      /\ \/ task[t].status \in Terminal /\ n = task[t]
         \/ task[t].status \in Open /\ status \in Transitions[task[t].status]
  BY <1>1, ReconciledTask
<1>3. Active(job[t])
  BY <1>1 DEF Reconcilable, Active
<1>4. CASE task[t].status \in Terminal /\ n = task[t]
  <2>1. task' = task
    BY <1>1, <1>4 DEF TypeInv, TypeOK
  <2> QED BY <1>1, <1>3, <1>4, <2>1, CloseIsStutter
<1>5. CASE task[t].status \in Open /\ status \in Transitions[task[t].status]
  <2>1. run.cancel => status = "cancelled"
    BY <1>3, <1>5, OpenIsNotTerminal DEF JobInv, CancellationReachesJobs, ReconciledStatus
  <2> HIDE DEF n, status
  <2> QED BY <1>1, <1>2, <1>5, <2>1, EdgeIsPromised
<1> QED BY <1>2, <1>4, <1>5

LEMMA EndClaimIsPromised ==
  ASSUME TypeInv, StoryInv, JobInv, NEW w \in Slots, EndClaim(w)
  PROVE  Promise!RunNext \/ UNCHANGED Promise!runVars
<1> DEFINE t == slot[w].task
           r == task[t]
<1>1. slot[w].pc # "idle"
  BY DEF EndClaim, Finish, FailCancelled, Release, GiveUp
<1>2. t \in Tasks /\ r \in TaskRecords /\ Story(r)
  BY <1>1, StoryOfTasks DEF TypeInv, TypeOK, SlotsServeTasks, StoryInv
<1>3. ASSUME r.status \in Terminal, Owns(w), CloseJob(w, r)
      PROVE  UNCHANGED Promise!runVars
  <2>1. task' = task /\ run' = Recompute(task') /\ Active(job[t])
    BY <1>2, <1>3 DEF CloseJob, Owns, Active, TypeInv, TypeOK
  <2> QED BY <1>2, <1>3, <2>1, CloseIsStutter
<1>4. ASSUME UNCHANGED <<run, task>> PROVE UNCHANGED Promise!runVars
  BY <1>4 DEF Promise!runVars, Status
<1>5. CASE Finish(w)
  BY <1>3, <1>4, <1>5 DEF Finish, FinishAccepted
<1>6. CASE FailCancelled(w)
  BY <1>3, <1>4, <1>6 DEF FailCancelled, FinishAccepted, Abandon
<1>7. CASE GiveUp(w)
  BY <1>4, <1>7 DEF GiveUp, Abandon
<1>8. CASE Release(w)
  <2>1. HoldsLease(w) /\ Owns(w) /\ ~Executing(r)
    BY <1>8 DEF Release, MayRelease, HoldsLease
  <2>2. CASE r.status \in Terminal /\ CloseJob(w, r)
    BY <1>3, <2>1, <2>2
  <2>3. CASE UNCHANGED <<run, task>>
    BY <1>4, <2>3
  <2>4. CASE r.status \in Open /\ CloseJob(w, [r EXCEPT !.status = "blocked"])
    <3> DEFINE n == [r EXCEPT !.status = "blocked"]
    <3>1. n \in TaskRecords /\ n.status = "blocked" /\ n.status \in Transitions[r.status]
      BY <1>2, <2>1, <2>4, BlockedTask, Edges DEF TaskRecords
    <3>2. ~run.cancel
      BY <1>2, <2>1 DEF HoldsLease, Owns, Active, JobInv, CancellationReachesJobs
    <3>3. task' = [task EXCEPT ![t] = n] /\ run' = Recompute(task')
      BY <2>4 DEF CloseJob
    <3> HIDE DEF n
    <3> QED BY <1>2, <2>4, <3>1, <3>2, <3>3, EdgeIsPromised
  <2> QED BY <1>8, <2>2, <2>3, <2>4 DEF Release
<1> QED BY <1>5, <1>6, <1>7, <1>8 DEF EndClaim

LEMMA CancelRunIsPromised ==
  ASSUME TypeInv, StoryInv, CancelRun
  PROVE  Promise!RequestCancel
<1>1. run.status \in {"queued", "running"} /\ ~run.cancel
  BY DEF CancelRun
<1>2. run'.status = Aggregate(Status(task')) /\ run'.cancel = TRUE
  <2> DEFINE a == Aggregate(Status(task'))
  <2>1. run' = [[run EXCEPT !.status = a] EXCEPT !.cancel = TRUE]
    BY <1>1 DEF CancelRun, Recompute
  <2> HIDE DEF a
  <2> QED BY <2>1 DEF a, TypeInv, TypeOK
<1>3. ASSUME NEW t \in Tasks
      PROVE  task'[t].status = IF task[t].status \in Open \ {"running"} THEN "cancelled"
                               ELSE task[t].status
  <2>1. task[t] \in TaskRecords /\ (Executing(task[t]) <=> task[t].status = "running")
    BY StoryOfTasks DEF TypeInv, TypeOK, StoryInv, Story
  <2>2. task'[t] = IF task[t].status \in Open /\ ~Executing(task[t])
                   THEN [task[t] EXCEPT !.status = "cancelled"] ELSE task[t]
    BY DEF CancelRun
  <2>3. [task[t] EXCEPT !.status = "cancelled"].status = "cancelled"
    BY <2>1 DEF TaskRecords
  <2> QED BY <2>1, <2>2, <2>3
<1>4. Status(task') = [t \in Tasks |-> IF Status(task)[t] \in Open \ {"running"}
                                       THEN "cancelled" ELSE Status(task)[t]]
  BY <1>3 DEF Status
<1>5. (Status(task))' = Status(task')
  BY DEF Status
<1> QED BY <1>1, <1>2, <1>4, <1>5, SameLifecycle DEF Promise!RequestCancel

LEMMA RetryTaskIsPromised ==
  ASSUME TypeInv, NEW t \in Tasks, NEW status \in {"pending", "ready"}, RetryTask(t, status)
  PROVE  Promise!RunNext
<1>1. task[t] \in TaskRecords /\ task[t].status \in Retryable
  BY DEF RetryTask, TypeInv, TypeOK
<1>2. status \in Transitions[task[t].status]
  BY <1>1, Edges
<1>3. status \in TaskStatuses /\ task[t].status \in TaskStatuses
  BY <1>1 DEF TaskRecords, TaskStatuses, Open
<1>4. Status(task') = [Status(task) EXCEPT ![t] = status]
  BY <1>1 DEF RetryTask, Status, TypeInv, TypeOK, TaskRecords
<1>5. Status(task)[t] = task[t].status /\ (Status(task))' = Status(task')
  BY DEF Status
<1>6. /\ run.status \in {"failed", "partial"} /\ ~run.cancel
      /\ run'.status = "running" /\ run'.cancel = run.cancel
  BY DEF RetryTask, TypeInv, TypeOK
<1>7. Promise!Reopen(t, status)
  BY <1>1, <1>2, <1>3, <1>4, <1>5, <1>6, SameLifecycle DEF Promise!Reopen
<1> QED BY <1>3, <1>7, SameLifecycle DEF Promise!RunNext

LEMMA PromisedStep ==
  TypeInv /\ SnapshotInv /\ StoryInv /\ JobInv /\ [Next]_vars =>
    [Promise!RunNext]_(Promise!runVars)
<1> SUFFICES ASSUME TypeInv, SnapshotInv, StoryInv, JobInv, [Next]_vars
             PROVE  Promise!RunNext \/ UNCHANGED Promise!runVars
  OBVIOUS
<1>1. ASSUME UNCHANGED <<run, task>> PROVE UNCHANGED Promise!runVars
  BY <1>1 DEF Promise!runVars, Status
<1>2. ASSUME NEW w \in Slots, Stage(w) PROVE Promise!RunNext \/ UNCHANGED Promise!runVars
  <2>1. CASE Yield(w) \/ Conclude(w) \/ StageFails(w)
    BY <1>1, <2>1 DEF Yield, Conclude, StageFails
  <2> QED BY <1>2, <2>1, StageAdvances, StartAttemptAdvances, AdvanceIsPromised
          DEF Stage
<1>3. ASSUME NEW w \in Slots, Settle(w) PROVE Promise!RunNext \/ UNCHANGED Promise!runVars
  <2>1. CASE DropResult(w)
    BY <1>1, <2>1 DEF DropResult
  <2> QED BY <1>3, <2>1, SettleAdvances, AdvanceIsPromised DEF Settle
<1>4. ASSUME NEW w \in Slots, SlotStep(w) PROVE Promise!RunNext \/ UNCHANGED Promise!runVars
  <2>1. CASE Read(w)
    BY <1>1, <2>1 DEF Read
  <2> QED BY <1>2, <1>3, <1>4, <2>1, EndClaimIsPromised DEF SlotStep
<1>5. ASSUME NEW w \in Slots,
             Crash(w) \/ HeartbeatCancelled(w) \/ HeartbeatLost(w) \/ Interrupt(w)
      PROVE  Promise!RunNext \/ UNCHANGED Promise!runVars
  BY <1>1, <1>5 DEF Crash, HeartbeatCancelled, HeartbeatLost, Interrupt, Stop
<1>6. ASSUME NEW t \in Tasks, ClaimAny(t) \/ Reconcile(t) \/ Expire(t)
      PROVE  Promise!RunNext \/ UNCHANGED Promise!runVars
  <2>1. CASE ClaimAny(t) \/ Expire(t)
    BY <1>1, <2>1 DEF ClaimAny, Claim, Expire
  <2> QED BY <1>6, <2>1, ReconcileIsPromised
<1>7. CASE CancelRun
  BY <1>7, CancelRunIsPromised DEF Promise!RunNext
<1>8. CASE UNCHANGED vars
  BY <1>1, <1>8 DEF vars
<1> QED BY <1>4, <1>5, <1>6, <1>7, <1>8, RetryTaskIsPromised DEF Next

\* The refinement: jobs, leases, crashes and lanes are invisible to the user of a run,
\* who sees tasks move along the graph, the run follow, and cancellation be final.
THEOREM KeepsPromise == Spec => ImplementsRun
<1> QED BY TypeInit, TypeStep, SnapshotInit, SnapshotStep, StoryInit, StoryStep,
           JobInit, JobStep, PromisedInit, PromisedStep, PTL
        DEF Spec, ImplementsRun, Promise!RunSpec

-----------------------------------------------------------------------------
(***************************************************************************)
(* What the attempts of a task remember, for every number of repairs,      *)
(* regenerations, retries and crashes: why a task is handed to diagnosis   *)
(* only with the evidence it needs, and why the database accepts the kind  *)
(* of every attempt.                                                       *)
(*                                                                         *)
(* A transaction changes a task in one of four ways (Moves): a new status, *)
(* a new revision, a closed attempt or a started one.  That every action   *)
(* is one of them needs fencing; that each of them keeps History, and that *)
(* a start is admissible, is about one record alone.                       *)
(***************************************************************************)

Retried(r) == {i \in DOMAIN r.attempts : r.attempts[i].kind = "same_script_retry"}

\* The inductive invariant, of one task: without a script there is nothing to execute and
\* nothing was; a script of the Agent is the first one; a retry follows a failure and is
\* the only one of its revision; a diagnosis has its evidence.
History(r) ==
  /\ r.source = "none" => /\ r.attempts = <<>> /\ ~r.earlier
                          /\ r.status \notin {"ready", "retrying", "running", "diagnosing",
                                              "repairing"}
  /\ r.source = "agent" => ~r.earlier
  /\ r.status = "retrying" => LastStatus(r) = "failed" /\ Retried(r) = {}
  /\ Retried(r) # {} => FailedOnce(r)
  /\ r.status = "diagnosing" => FailedOnce(r) /\ (HasWorkspace \/ FailedTwice(r))

HistoryInv == \A t \in Tasks : History(task[t])

Restated(r, n) ==
  \E s \in TaskStatuses \ {"retrying", "running", "diagnosing"} :
    /\ s = "ready" => r.source # "none"
    /\ s = "repairing" => r.status = "diagnosing"
    /\ n = [r EXCEPT !.status = s]

Revised(r, n) ==
  \E source \in Sources \ {"none"} :
    /\ source = "agent" => r.source = "none"
    /\ \/ n = NewRevision(r, source)
       \/ n = [NewRevision(r, source) EXCEPT !.repairs = @ + 1]

Closed(r, n) ==
  /\ r.status = "running" /\ Executing(r)
  /\ \E o \in Outcomes, s \in TaskStatuses \ {"running", "repairing"} :
       /\ s = "retrying" => o = "failed" /\ ~FailedOnce(r)
       /\ s = "diagnosing" => o = "failed" /\ (HasWorkspace \/ FailedOnce(r))
       /\ n = [CloseAttempt(r, o) EXCEPT !.status = s]

Started(r, n) ==
  /\ r.status \in {"ready", "retrying"}
  /\ n = [r EXCEPT !.attempts = Append(@, [kind |-> AttemptKind(r), status |-> "running"]),
                   !.status = "running"]

Moves(r, n) == n = r \/ Restated(r, n) \/ Revised(r, n) \/ Closed(r, n) \/ Started(r, n)

LEMMA RestatedHistory ==
  ASSUME NEW r \in TaskRecords, NEW n, History(r), Restated(r, n)
  PROVE  History(n) /\ Len(n.attempts) = Len(r.attempts)
<1>1. PICK s \in TaskStatuses \ {"retrying", "running", "diagnosing"} :
        /\ s = "ready" => r.source # "none"
        /\ s = "repairing" => r.status = "diagnosing"
        /\ n = [r EXCEPT !.status = s]
  BY DEF Restated
<1>2. /\ n.status = s /\ n.attempts = r.attempts /\ n.source = r.source
      /\ n.earlier = r.earlier
  BY <1>1 DEF TaskRecords
<1>3. Retried(n) = Retried(r) /\ (FailedOnce(n) <=> FailedOnce(r))
  BY <1>2 DEF Retried, FailedOnce, Failures
<1> QED BY <1>1, <1>2, <1>3 DEF History

LEMMA RevisedHistory ==
  ASSUME NEW r \in TaskRecords, NEW n, History(r), Revised(r, n)
  PROVE  History(n) /\ Len(n.attempts) = 0
<1>1. PICK source \in Sources \ {"none"} :
        /\ source = "agent" => r.source = "none"
        /\ \/ n = NewRevision(r, source)
           \/ n = [NewRevision(r, source) EXCEPT !.repairs = @ + 1]
  BY DEF Revised
<1> DEFINE e == r.earlier \/ r.attempts # <<>>
           m == NewRevision(r, source)
<1>2. m = [r EXCEPT !.status = "ready", !.source = source, !.attempts = <<>>, !.earlier = e]
  BY DEF NewRevision
<1> HIDE DEF e
<1>3. /\ m.status = "ready" /\ m.source = source /\ m.attempts = <<>> /\ m.earlier = e
      /\ m \in TaskRecords
  BY <1>1, <1>2, RevisedRecord DEF TaskRecords
<1> HIDE DEF m
<1>4. n.status = "ready" /\ n.source = source /\ n.attempts = <<>> /\ n.earlier = e
  BY <1>1, <1>3 DEF m, TaskRecords
<1>5. source = "agent" => ~e
  BY <1>1 DEF e, History
<1>6. Retried(n) = {}
  BY <1>4 DEF Retried
<1> QED BY <1>1, <1>4, <1>5, <1>6 DEF History

LEMMA ClosedHistory ==
  ASSUME NEW r \in TaskRecords, NEW n, History(r), Closed(r, n)
  PROVE  History(n) /\ Len(n.attempts) = Len(r.attempts)
<1>1. PICK o \in Outcomes, s \in TaskStatuses \ {"running", "repairing"} :
        /\ s = "retrying" => o = "failed" /\ ~FailedOnce(r)
        /\ s = "diagnosing" => o = "failed" /\ (HasWorkspace \/ FailedOnce(r))
        /\ n = [CloseAttempt(r, o) EXCEPT !.status = s]
  BY DEF Closed
<1> DEFINE q == r.attempts
           k == Len(q)
           e == [q[k] EXCEPT !.status = o]
           p == [q EXCEPT ![k] = e]
<1>2. /\ q \in Seq(Attempts) /\ q # <<>> /\ k \in 1..k /\ q[k] \in Attempts
      /\ q[k].status = "running" /\ DOMAIN q = 1..k
  BY DEF Closed, Executing, LastStatus, LastOf, TaskRecords
<1>3. e \in Attempts /\ e.status = o /\ e.kind = q[k].kind
  BY <1>2 DEF Attempts
<1>4. /\ p \in Seq(Attempts) /\ Len(p) = k /\ DOMAIN p = 1..k
      /\ p[k] = e /\ \A i \in 1..k : i # k => p[i] = q[i]
  BY <1>2, <1>3, ExceptSeq
<1>5. n = [r EXCEPT !.attempts = p, !.status = s]
  BY <1>1 DEF Closed, CloseAttempt, TaskRecords
<1> HIDE DEF p, e
<1>6. n.attempts = p /\ n.status = s /\ n.source = r.source /\ n.earlier = r.earlier
  BY <1>5 DEF TaskRecords
<1>7. r.source # "none"
  BY DEF History, Closed
<1>8. Retried(n) = Retried(r)
  BY <1>2, <1>3, <1>4, <1>6 DEF Retried
<1>9. Failures(r) \subseteq Failures(n) /\ k \notin Failures(r)
      /\ (o = "failed" => k \in Failures(n))
  BY <1>2, <1>3, <1>4, <1>6 DEF Failures
<1>10. LastStatus(n) = o
  <2>1. p # <<>>
    BY <1>2, <1>4
  <2> QED BY <1>3, <1>4, <1>6, <2>1 DEF LastStatus, LastOf
<1>11. FailedOnce(r) => FailedOnce(n)
  BY <1>9 DEF FailedOnce
<1>12. s = "retrying" => LastStatus(n) = "failed" /\ Retried(n) = {}
  BY <1>1, <1>8, <1>10 DEF History
<1>13. s = "diagnosing" => FailedOnce(n) /\ (HasWorkspace \/ FailedTwice(n))
  BY <1>1, <1>9 DEF FailedOnce, FailedTwice
<1> QED BY <1>4, <1>6, <1>7, <1>8, <1>11, <1>12, <1>13 DEF History

LEMMA StartedHistory ==
  ASSUME NEW r \in TaskRecords, NEW n, History(r), Started(r, n)
  PROVE  History(n) /\ Admissible(r, LastOf(n.attempts).kind)
<1> DEFINE q == r.attempts
           k == Len(q)
           a == [kind |-> AttemptKind(r), status |-> "running"]
           p == Append(q, a)
<1>1. /\ q \in Seq(Attempts) /\ k \in Nat /\ DOMAIN q = 1..k
      /\ r.status \in {"ready", "retrying"} /\ r.source # "none" /\ r.source \in Sources
  BY DEF Started, History, TaskRecords
<1>2. a.kind = AttemptKind(r) /\ a.status = "running"
  OBVIOUS
<1> HIDE DEF a
<1>3. /\ Len(p) = k + 1 /\ p[k + 1] = a /\ DOMAIN p = 1..(k + 1)
      /\ \A i \in 1..k : p[i] = q[i]
  BY <1>1
<1>4. n = [r EXCEPT !.attempts = p, !.status = "running"]
  BY DEF Started, a
<1> HIDE DEF p
<1>5. n.attempts = p /\ n.status = "running" /\ n.source = r.source /\ n.earlier = r.earlier
  BY <1>4 DEF TaskRecords
<1>6. Failures(r) \subseteq Failures(n)
  BY <1>1, <1>3, <1>5 DEF Failures
<1>7. AttemptKind(r) = "same_script_retry" <=> r.status = "retrying"
  BY DEF AttemptKind
<1>8. LastStatus(r) = "failed" => FailedOnce(r)
  BY <1>1 DEF LastStatus, LastOf, FailedOnce, Failures
<1>9. Retried(n) # {} => FailedOnce(n)
  <2>1. AttemptKind(r) # "same_script_retry" => Retried(n) = Retried(r)
    BY <1>1, <1>2, <1>3, <1>5 DEF Retried
  <2> QED BY <1>6, <1>7, <1>8, <2>1 DEF History, FailedOnce
<1>10. History(n)
  BY <1>1, <1>5, <1>9 DEF History
<1>11. LastOf(n.attempts).kind = AttemptKind(r)
  BY <1>2, <1>3, <1>5 DEF LastOf
<1>12. Admissible(r, AttemptKind(r))
  <2>1. r.attempts = <<>> => LastStatus(r) = "none"
    BY DEF LastStatus
  <2>2. CASE r.status = "retrying"
    BY <1>7, <2>2 DEF Admissible, History, Retried
  <2>3. CASE r.status = "ready" /\ r.attempts = <<>>
    BY <1>1, <1>7, <2>1, <2>3 DEF Admissible, History, AttemptKind, Sources
  <2>4. CASE r.status = "ready" /\ r.attempts # <<>>
    BY <1>1, <1>7, <2>1, <2>4 DEF Admissible, History, AttemptKind, Sources
  <2> QED BY <1>1, <2>2, <2>3, <2>4
<1> QED BY <1>10, <1>11, <1>12

LEMMA MovesKeepHistory ==
  ASSUME NEW r \in TaskRecords, NEW n, History(r), Moves(r, n)
  PROVE  /\ History(n)
         /\ Len(n.attempts) > Len(r.attempts) => Admissible(r, LastOf(n.attempts).kind)
<1>1. Len(r.attempts) \in Nat
  BY DEF TaskRecords
<1> QED BY <1>1, RestatedHistory, RevisedHistory, ClosedHistory, StartedHistory DEF Moves

-----------------------------------------------------------------------------
\* One task is written.
LEMMA WriteMoves ==
  ASSUME TypeInv, NEW t \in Tasks, NEW n, task' = [task EXCEPT ![t] = n],
         Moves(task[t], n)
  PROVE  \A u \in Tasks : Moves(task[u], task'[u])
<1>1. task'[t] = n /\ \A u \in Tasks \ {t} : task'[u] = task[u]
  BY DEF TypeInv, TypeOK
<1> QED BY <1>1 DEF Moves

LEMMA StageMoves ==
  ASSUME TypeInv, SnapshotInv, HistoryInv, NEW w \in Slots,
         Prepare(w) \/ Generate(w) \/ AuthenticationFails(w) \/ Diagnose(w) \/ Repair(w)
  PROVE  \A u \in Tasks : Moves(task[u], task'[u])
<1> DEFINE t == slot[w].task
           r == task[t]
<1>1. slot[w].current
  BY DEF Prepare, Generate, AuthenticationFails, Diagnose, Repair, MayCommit
<1>2. t \in Tasks /\ r \in TaskRecords /\ slot[w].seen = r.status
  BY <1>1, StageReadsTask
<1>3. ASSUME NEW n, Commit(w, n, "loop"), Moves(r, n)
      PROVE  \A u \in Tasks : Moves(task[u], task'[u])
  BY <1>2, <1>3, WriteMoves DEF Commit
<1>4. ASSUME NEW s \in {"script_generating", "failed", "blocked", "waiting_manual", "repairing"},
             s = "repairing" => r.status = "diagnosing"
      PROVE  Moves(r, [r EXCEPT !.status = s])
  <2>1. s \in TaskStatuses \ {"retrying", "running", "diagnosing"} /\ s # "ready"
    BY <1>4 DEF TaskStatuses, Terminal, Open
  <2> QED BY <1>4, <2>1 DEF Moves, Restated
<1>5. Moves(r, NewRevision(r, GeneratedSource(r)))
  <2>1. /\ GeneratedSource(r) \in Sources \ {"none"}
        /\ GeneratedSource(r) = "agent" => r.source = "none"
    BY DEF GeneratedSource, Sources
  <2> QED BY <2>1 DEF Moves, Revised
<1>6. Moves(r, [NewRevision(r, "repair") EXCEPT !.repairs = @ + 1])
  <2>1. "repair" \in Sources \ {"none"} /\ "repair" # "agent"
    BY DEF Sources
  <2> QED BY <2>1 DEF Moves, Revised
<1>7. CASE Prepare(w)
  BY <1>3, <1>4, <1>5, <1>7 DEF Prepare
<1>8. CASE Generate(w)
  BY <1>3, <1>5, <1>8 DEF Generate
<1>9. CASE AuthenticationFails(w)
  <2> DEFINE s == IF r.status = "retrying" THEN "blocked" ELSE "waiting_manual"
  <2>1. Commit(w, [r EXCEPT !.status = s], "loop") /\ s \in {"blocked", "waiting_manual"}
    BY <1>9 DEF AuthenticationFails
  <2> HIDE DEF s
  <2> QED BY <1>3, <1>4, <2>1
<1>10. CASE Diagnose(w)
  <2>1. PICK s \in {"failed", "blocked", "waiting_manual", "repairing"} :
          Commit(w, [r EXCEPT !.status = s], "loop")
    BY <1>10 DEF Diagnose
  <2>2. r.status = "diagnosing"
    BY <1>2, <1>10 DEF Diagnose, At
  <2> QED BY <1>3, <1>4, <2>1, <2>2
<1>11. CASE Repair(w)
  BY <1>3, <1>4, <1>6, <1>11 DEF Repair
<1> QED BY <1>7, <1>8, <1>9, <1>10, <1>11

LEMMA StartAttemptMoves ==
  ASSUME TypeInv, SnapshotInv, NEW w \in Slots, StartAttempt(w)
  PROVE  \A u \in Tasks : Moves(task[u], task'[u])
<1> DEFINE t == slot[w].task
           r == task[t]
           n == [r EXCEPT !.attempts = Append(@, [kind |-> AttemptKind(r), status |-> "running"]),
                          !.status = "running"]
<1>1. slot[w].current
  BY DEF StartAttempt, MayCommit
<1>2. t \in Tasks /\ r \in TaskRecords /\ slot[w].seen = r.status
  BY <1>1, StageReadsTask
<1>3. r.status \in {"ready", "retrying"}
  BY <1>2 DEF StartAttempt, At
<1>4. Moves(r, n)
  BY <1>3 DEF Moves, Started
<1>5. task' = [task EXCEPT ![t] = n]
  BY DEF StartAttempt, TypeInv, TypeOK
<1> HIDE DEF n
<1> QED BY <1>2, <1>4, <1>5, WriteMoves

LEMMA SettleMoves ==
  ASSUME TypeInv, SnapshotInv, StoryInv, NEW w \in Slots,
         SettleVerdict(w) \/ SettleInfrastructureError(w) \/ SettleCancelled(w)
  PROVE  \A u \in Tasks : Moves(task[u], task'[u])
<1> DEFINE t == slot[w].task
           r == task[t]
<1>1. slot[w].current /\ slot[w].pc = "running"
  BY DEF SettleVerdict, SettleInfrastructureError, SettleCancelled, MayCommit
<1>2. t \in Tasks /\ r \in TaskRecords /\ r.status = "running"
  BY <1>1, StageReadsTask
<1>3. Executing(r)
  BY <1>2, StoryOfTasks DEF StoryInv, Story
<1>4. PICK o \in Outcomes,
           s \in {"passed", "retrying", "diagnosing", "blocked", "ready", "cancelled"} :
        /\ s = "retrying" => o = "failed" /\ ~FailedOnce(r)
        /\ s = "diagnosing" => o = "failed" /\ (HasWorkspace \/ FailedOnce(r))
        /\ \/ Commit(w, [CloseAttempt(r, o) EXCEPT !.status = s], "loop")
           \/ Commit(w, [CloseAttempt(r, o) EXCEPT !.status = s], "failing")
  <2>1. CASE SettleVerdict(w)
    BY <2>1 DEF SettleVerdict, Outcomes, AfterFailure
  <2>2. CASE SettleInfrastructureError(w)
    BY <2>2 DEF SettleInfrastructureError, Outcomes
  <2>3. CASE SettleCancelled(w)
    BY <2>3 DEF SettleCancelled, Outcomes
  <2> QED BY <2>1, <2>2, <2>3
<1> DEFINE n == [CloseAttempt(r, o) EXCEPT !.status = s]
<1>5. s \in TaskStatuses \ {"running", "repairing"}
  BY <1>4 DEF TaskStatuses, Terminal, Open
<1>6. Moves(r, n)
  BY <1>2, <1>3, <1>4, <1>5 DEF Moves, Closed
<1>7. task' = [task EXCEPT ![t] = n]
  BY <1>4 DEF Commit
<1> HIDE DEF n
<1> QED BY <1>2, <1>6, <1>7, WriteMoves

LEMMA ReconcileMoves ==
  ASSUME TypeInv, StoryInv, NEW t \in Tasks, Reconcile(t)
  PROVE  \A u \in Tasks : Moves(task[u], task'[u])
<1> DEFINE r == task[t]
           s == ReconciledStatus(t)
           o == IF s = "cancelled" THEN "cancelled" ELSE "infrastructure_error"
           n == Reconciled(t)
<1>1. task' = [task EXCEPT ![t] = n] /\ Reconcilable(t)
  BY DEF Reconcile, Reconciled
<1>2. r \in TaskRecords /\ Story(r)
  BY StoryOfTasks DEF TypeInv, TypeOK, StoryInv
<1>3. \/ r.status \in Terminal /\ n = r
      \/ r.status \in Open /\ s \in {"cancelled", "blocked", "ready"}
  BY <1>1, ReconciledTask
<1>4. n = [CloseAttempt(r, o) EXCEPT !.status = s] /\ o \in Outcomes
  BY DEF Reconciled, Outcomes
<1>5. ASSUME s \in {"cancelled", "blocked", "ready"}, r.status \in Open
      PROVE  Moves(r, n)
  <2>1. s \in TaskStatuses \ {"running", "repairing", "retrying", "diagnosing"}
    BY <1>5 DEF TaskStatuses, Terminal, Open
  <2>2. CASE Executing(r)
    <3>1. r.status = "running"
      BY <1>2, <2>2 DEF Story
    <3> HIDE DEF s, o, n
    <3> QED BY <1>4, <2>1, <2>2, <3>1 DEF Moves, Closed
  <2>3. CASE ~Executing(r)
    <3>1. CloseAttempt(r, o) = r
      BY <2>3 DEF CloseAttempt
    <3>2. s # "ready"
      BY <1>1, <1>5, <2>3, OpenIsNotTerminal DEF ReconciledStatus, Reconcilable
    <3> HIDE DEF s, o, n
    <3>3. s # "repairing" /\ n = [r EXCEPT !.status = s]
      BY <1>4, <2>1, <3>1
    <3> QED BY <2>1, <3>2, <3>3 DEF Moves, Restated
  <2> QED BY <2>2, <2>3
<1> HIDE DEF s, o, n
<1>6. Moves(r, n)
  BY <1>3, <1>5 DEF Moves
<1> QED BY <1>1, <1>6, WriteMoves

LEMMA EndClaimMoves ==
  ASSUME TypeInv, NEW w \in Slots, EndClaim(w)
  PROVE  \A u \in Tasks : Moves(task[u], task'[u])
<1> DEFINE t == slot[w].task
           r == task[t]
<1>1. slot[w].pc # "idle"
  BY DEF EndClaim, Finish, FailCancelled, Release, GiveUp
<1>2. t \in Tasks
  BY <1>1 DEF TypeInv, SlotsServeTasks
<1>3. ASSUME NEW n, CloseJob(w, n), Moves(r, n)
      PROVE  \A u \in Tasks : Moves(task[u], task'[u])
  BY <1>2, <1>3, WriteMoves DEF CloseJob
<1>4. Moves(r, r)
  BY DEF Moves
<1>5. Moves(r, [r EXCEPT !.status = "blocked"])
  <2>1. "blocked" \in TaskStatuses \ {"retrying", "running", "diagnosing"}
    BY DEF TaskStatuses, Terminal
  <2> QED BY <2>1 DEF Moves, Restated
<1>6. ASSUME task' = task PROVE \A u \in Tasks : Moves(task[u], task'[u])
  BY <1>6 DEF Moves
<1>7. CASE Finish(w)
  BY <1>3, <1>4, <1>6, <1>7 DEF Finish
<1>8. CASE FailCancelled(w)
  BY <1>3, <1>4, <1>6, <1>8 DEF FailCancelled, Abandon
<1>9. CASE Release(w)
  BY <1>3, <1>4, <1>5, <1>6, <1>9 DEF Release
<1>10. CASE GiveUp(w)
  BY <1>6, <1>10 DEF GiveUp, Abandon
<1> QED BY <1>7, <1>8, <1>9, <1>10 DEF EndClaim

LEMMA CommandMoves ==
  ASSUME TypeInv,
         CancelRun \/ \E t \in Tasks, status \in {"pending", "ready"} : RetryTask(t, status)
  PROVE  \A u \in Tasks : Moves(task[u], task'[u])
<1>1. ASSUME NEW r, NEW s \in {"cancelled", "pending", "ready"},
             s = "ready" => r.source # "none"
      PROVE  Moves(r, [r EXCEPT !.status = s])
  <2>1. s \in TaskStatuses \ {"retrying", "running", "diagnosing"} /\ s # "repairing"
    BY <1>1 DEF TaskStatuses, Terminal, Open
  <2> QED BY <1>1, <2>1 DEF Moves, Restated
<1>2. CASE CancelRun
  <2> SUFFICES ASSUME NEW u \in Tasks PROVE Moves(task[u], task'[u])
    OBVIOUS
  <2>1. task'[u] = [task[u] EXCEPT !.status = "cancelled"] \/ task'[u] = task[u]
    BY <1>2 DEF CancelRun
  <2>2. Moves(task[u], [task[u] EXCEPT !.status = "cancelled"])
    BY <1>1
  <2> QED BY <2>1, <2>2 DEF Moves
<1>3. CASE \E t \in Tasks, status \in {"pending", "ready"} : RetryTask(t, status)
  <2>1. PICK t \in Tasks, status \in {"pending", "ready"} : RetryTask(t, status)
    BY <1>3
  <2> DEFINE n == [task[t] EXCEPT !.status = status]
  <2>2. task' = [task EXCEPT ![t] = n] /\ (status = "ready" => task[t].source # "none")
    BY <2>1 DEF RetryTask
  <2>3. Moves(task[t], n)
    BY <1>1, <2>2
  <2> HIDE DEF n
  <2> QED BY <2>2, <2>3, WriteMoves
<1> QED BY <1>2, <1>3

LEMMA EveryStepMoves ==
  ASSUME TypeInv, SnapshotInv, StoryInv, HistoryInv, [Next]_vars
  PROVE  \A u \in Tasks : Moves(task[u], task'[u])
<1> SUFFICES ASSUME NEW u \in Tasks PROVE Moves(task[u], task'[u])
  OBVIOUS
<1>1. ASSUME task' = task PROVE Moves(task[u], task'[u])
  BY <1>1 DEF Moves
<1>2. ASSUME NEW w \in Slots, Stage(w) PROVE Moves(task[u], task'[u])
  <2>1. CASE Yield(w) \/ Conclude(w) \/ StageFails(w)
    BY <1>1, <2>1 DEF Yield, Conclude, StageFails
  <2> QED BY <1>2, <2>1, StageMoves, StartAttemptMoves DEF Stage
<1>3. ASSUME NEW w \in Slots, Settle(w) PROVE Moves(task[u], task'[u])
  <2>1. CASE DropResult(w)
    BY <1>1, <2>1 DEF DropResult
  <2> QED BY <1>3, <2>1, SettleMoves DEF Settle
<1>4. ASSUME NEW w \in Slots, SlotStep(w) PROVE Moves(task[u], task'[u])
  <2>1. CASE Read(w)
    BY <1>1, <2>1 DEF Read
  <2>2. CASE EndClaim(w)
    BY <2>2, EndClaimMoves
  <2> QED BY <1>2, <1>3, <1>4, <2>1, <2>2 DEF SlotStep
<1>5. ASSUME NEW w \in Slots,
             Crash(w) \/ HeartbeatCancelled(w) \/ HeartbeatLost(w) \/ Interrupt(w)
      PROVE  Moves(task[u], task'[u])
  BY <1>1, <1>5 DEF Crash, HeartbeatCancelled, HeartbeatLost, Interrupt, Stop
<1>6. ASSUME NEW t \in Tasks, ClaimAny(t) \/ Reconcile(t) \/ Expire(t) PROVE Moves(task[u], task'[u])
  <2>1. CASE ClaimAny(t) \/ Expire(t)
    BY <1>1, <2>1 DEF ClaimAny, Claim, Expire
  <2>2. CASE Reconcile(t)
    BY <2>2, ReconcileMoves
  <2> QED BY <1>6, <2>1, <2>2
<1>7. CASE UNCHANGED vars
  BY <1>1, <1>7 DEF vars
<1>8. CASE CancelRun \/ \E t \in Tasks, status \in {"pending", "ready"} : RetryTask(t, status)
  BY <1>8, CommandMoves
<1> QED BY <1>4, <1>5, <1>6, <1>7, <1>8 DEF Next

LEMMA HistoryInit == Init => HistoryInv
<1> SUFFICES ASSUME Init, NEW t \in Tasks PROVE History(task[t])
  BY DEF HistoryInv
<1>1. PICK unsupported \in SUBSET Tasks :
        task = [u \in Tasks |->
             [status |-> IF u \in unsupported THEN "unsupported" ELSE "pending",
              source |-> "none", attempts |-> <<>>, earlier |-> FALSE, repairs |-> 0]]
  BY DEF Init
<1>2. /\ task[t].source = "none" /\ task[t].attempts = <<>> /\ ~task[t].earlier
      /\ task[t].status \in {"unsupported", "pending"}
  BY <1>1
<1>3. Retried(task[t]) = {}
  BY <1>2 DEF Retried
<1> QED BY <1>2, <1>3 DEF History

LEMMA HistoryStep ==
  ASSUME TypeInv, SnapshotInv, StoryInv, HistoryInv, [Next]_vars
  PROVE  /\ HistoryInv'
         /\ \A t \in Tasks : Len(task'[t].attempts) > Len(task[t].attempts) =>
              Admissible(task[t], LastOf(task'[t].attempts).kind)
<1>1. ASSUME NEW t \in Tasks
      PROVE  /\ History(task'[t])
             /\ Len(task'[t].attempts) > Len(task[t].attempts) =>
                  Admissible(task[t], LastOf(task'[t].attempts).kind)
  <2>1. task[t] \in TaskRecords /\ History(task[t]) /\ Moves(task[t], task'[t])
    BY EveryStepMoves DEF TypeInv, TypeOK, HistoryInv
  <2> QED BY <2>1, MovesKeepHistory
<1>2. HistoryInv'
  BY <1>1 DEF HistoryInv, History, LastStatus, LastOf, FailedOnce, FailedTwice, Failures, Retried
<1> QED BY <1>1, <1>2

\* However often a task is retried, repaired or reconciled: it is handed to diagnosis only
\* with the failed attempts diagnoseFailure asks for, so that no claim throws for want of
\* them until the job is exhausted.
THEOREM DiagnosisIsFounded == Spec => []DiagnosisHasEvidence
<1>1. HistoryInv => DiagnosisHasEvidence
  BY DEF HistoryInv, History, DiagnosisHasEvidence
<1>2. TypeInv /\ SnapshotInv /\ StoryInv /\ HistoryInv /\ [Next]_vars => HistoryInv'
  BY HistoryStep
<1> QED BY <1>1, <1>2, TypeInit, TypeStep, SnapshotInit, SnapshotStep, StoryInit, StoryStep,
           HistoryInit, PTL DEF Spec

\* For any history of repairs, regenerations, infrastructure errors and manual retries the
\* insert of an attempt is one that validate_test_execution_attempt_write accepts.
THEOREM AttemptsAreAccepted == Spec => AttemptsAreAdmissible
<1>1. TypeInv /\ SnapshotInv /\ StoryInv /\ HistoryInv /\ [Next]_vars => HistoryInv'
  BY HistoryStep
<1>2. TypeInv /\ SnapshotInv /\ StoryInv /\ HistoryInv /\ [Next]_vars =>
        [\A t \in Tasks : Len(task'[t].attempts) > Len(task[t].attempts) =>
           Admissible(task[t], LastOf(task'[t].attempts).kind)]_vars
  BY HistoryStep
<1> QED BY <1>1, <1>2, TypeInit, TypeStep, SnapshotInit, SnapshotStep, StoryInit, StoryStep,
           HistoryInit, PTL DEF Spec, AttemptsAreAdmissible

-----------------------------------------------------------------------------
(***************************************************************************)
(* Stopped slots, for every number of tasks and slots.  A slot told that   *)
(* its lease is lost has really lost it, or its task is done (StopInv):    *)
(* nobody gives a lease back to a slot that is at work.  So it fails every *)
(* guard of a transaction, also those that do not look at the reason.      *)
(***************************************************************************)
StopOf(w) ==
  /\ slot[w].pc \in {"idle", "finishing"} => slot[w].stop = "none"
  /\ slot[w].stop = "lease_lost" => ~Owns(w) \/ task[slot[w].task].status \in Terminal

StopInv == \A w \in Slots : StopOf(w)

\* A step that leaves slot v where it stands, gives it no lease and does not reopen its
\* task.
Spared(v) ==
  /\ slot'[v].pc = slot[v].pc /\ slot'[v].task = slot[v].task /\ slot'[v].stop = slot[v].stop
  /\ Owns(v)' => /\ Owns(v)
                 /\ \/ task'[slot[v].task] = task[slot[v].task]
                    \/ task'[slot[v].task].status \in Terminal

LEMMA SparedKeepsStop ==
  ASSUME StopInv, NEW v \in Slots, Spared(v)
  PROVE  StopOf(v)'
BY DEF StopInv, StopOf, Spared

LEMMA OutdatedStops ==
  ASSUME NEW s \in [Slots -> SlotRecords], NEW W
  PROVE  \A v \in Slots : /\ Outdated(s, W)[v].pc = s[v].pc
                          /\ Outdated(s, W)[v].task = s[v].task
                          /\ Outdated(s, W)[v].stop = s[v].stop
BY DEF Outdated, SlotRecords

\* Who owns the lease of a task is the only one to do so.
LEMMA OneOwner ==
  ASSUME NEW v \in Slots, NEW w \in Slots, Owns(v), Owns(w), v # w
  PROVE  slot[v].task # slot[w].task
BY DEF Owns

\* Slot w writes its task under the lease.
LEMMA OwnWriteKeepsStops ==
  ASSUME TypeInv, StopInv, NEW w \in Slots, Owns(w), NEW n, NEW x,
         task' = [task EXCEPT ![slot[w].task] = n], job' = job,
         slot' = [Outdated(slot, {slot[w].task}) EXCEPT ![w] = x],
         x.stop # "lease_lost", x.pc \notin {"idle", "finishing"}
  PROVE  StopInv'
<1> DEFINE t == slot[w].task
<1>1. slot \in [Slots -> SlotRecords] /\ task \in [Tasks -> TaskRecords]
  BY DEF TypeInv, TypeOK
<1>2. slot'[w] = x /\ \A v \in Slots \ {w} : slot'[v] = Outdated(slot, {t})[v]
  BY <1>1, OutdatedType
<1>3. ASSUME NEW v \in Slots \ {w} PROVE Spared(v)
  <2>1. slot'[v].pc = slot[v].pc /\ slot'[v].task = slot[v].task /\ slot'[v].stop = slot[v].stop
    BY <1>1, <1>2, OutdatedStops
  <2>2. Owns(v)' => Owns(v)
    BY <2>1 DEF Owns
  <2>3. Owns(v) => slot[v].task # t /\ slot[v].task \in Tasks
    BY <1>1, OneOwner DEF Owns, SlotRecords
  <2>4. Owns(v) => task'[slot[v].task] = task[slot[v].task]
    BY <1>1, <2>3
  <2> QED BY <2>1, <2>2, <2>4 DEF Spared
<1>4. StopOf(w)'
  BY <1>2 DEF StopOf
<1> QED BY <1>3, <1>4, SparedKeepsStop DEF StopInv

\* Slot w moves, the jobs of other slots and all tasks stay as they are.
LEMMA MoveKeepsStops ==
  ASSUME TypeInv, StopInv, NEW w \in Slots, NEW x,
         slot' = [slot EXCEPT ![w] = x], task' = task,
         \A v \in Slots \ {w} : Owns(v)' => Owns(v),
         x.pc \in {"idle", "finishing"} => x.stop = "none",
         x.stop = "lease_lost" =>
           x.task = slot[w].task
           /\ (~Owns(w)' \/ task[slot[w].task].status \in Terminal)
  PROVE  StopInv'
<1>1. slot'[w] = x /\ \A v \in Slots \ {w} : slot'[v] = slot[v]
  BY DEF TypeInv, TypeOK
<1>2. \A v \in Slots \ {w} : Spared(v)
  BY <1>1 DEF Spared
<1>3. StopOf(w)'
  BY <1>1 DEF StopOf
<1> QED BY <1>2, <1>3, SparedKeepsStop DEF StopInv

LEMMA StageKeepsStops ==
  ASSUME TypeInv, StopInv, NEW w \in Slots,
         \/ Prepare(w) \/ Generate(w) \/ AuthenticationFails(w) \/ Diagnose(w)
         \/ Repair(w) \/ SettleVerdict(w) \/ SettleInfrastructureError(w)
         \/ SettleCancelled(w)
  PROVE  StopInv'
<1>1. Owns(w) /\ slot[w].stop \in {"none", "user_cancelled"}
  BY DEF Prepare, Generate, AuthenticationFails, Diagnose, Repair, SettleVerdict,
         SettleInfrastructureError, SettleCancelled, MayCommit, HoldsLease
<1>2. ASSUME NEW n, NEW pc \in {"loop", "failing"}, Commit(w, n, pc) PROVE StopInv'
  <2> DEFINE x == Goto(w, pc)
  <2>1. x.stop = slot[w].stop /\ x.pc = pc
    BY DEF Goto, TypeInv, TypeOK, SlotRecords
  <2>2. /\ task' = [task EXCEPT ![slot[w].task] = n] /\ job' = job
        /\ slot' = [Outdated(slot, {slot[w].task}) EXCEPT ![w] = x]
    BY <1>2 DEF Commit
  <2> HIDE DEF x
  <2> QED BY <1>1, <2>1, <2>2, OwnWriteKeepsStops
<1>3. CASE Prepare(w)
  BY <1>2, <1>3 DEF Prepare
<1>4. CASE Generate(w)
  BY <1>2, <1>4 DEF Generate
<1>5. CASE AuthenticationFails(w)
  BY <1>2, <1>5 DEF AuthenticationFails
<1>6. CASE Diagnose(w)
  BY <1>2, <1>6 DEF Diagnose
<1>7. CASE Repair(w)
  BY <1>2, <1>7 DEF Repair
<1>8. CASE SettleVerdict(w)
  BY <1>2, <1>8 DEF SettleVerdict
<1>9. CASE SettleInfrastructureError(w)
  BY <1>2, <1>9 DEF SettleInfrastructureError
<1>10. CASE SettleCancelled(w)
  BY <1>2, <1>10 DEF SettleCancelled
<1> QED BY <1>3, <1>4, <1>5, <1>6, <1>7, <1>8, <1>9, <1>10

LEMMA StartAttemptKeepsStops ==
  ASSUME TypeInv, StopInv, NEW w \in Slots, StartAttempt(w)
  PROVE  StopInv'
<1> DEFINE x == [slot[w] EXCEPT !.pc = "running", !.seen = "running", !.current = TRUE]
<1>1. Owns(w) /\ slot[w].stop = "none"
  BY DEF StartAttempt, MayCommit, HoldsLease
<1>2. x.stop = slot[w].stop /\ x.pc = "running"
  BY DEF TypeInv, TypeOK, SlotRecords
<1>3. /\ job' = job /\ \E n : task' = [task EXCEPT ![slot[w].task] = n]
      /\ slot' = [Outdated(slot, {slot[w].task}) EXCEPT ![w] = x]
  BY DEF StartAttempt, TypeInv, TypeOK
<1> HIDE DEF x
<1> QED BY <1>1, <1>2, <1>3, OwnWriteKeepsStops

\* The steps of a slot that write no row.
LEMMA WorkerKeepsStops ==
  ASSUME TypeInv, StopInv, NEW w \in Slots,
         \/ Read(w) \/ StageFails(w) \/ Conclude(w) \/ DropResult(w) \/ Crash(w)
         \/ HeartbeatCancelled(w) \/ HeartbeatLost(w) \/ Interrupt(w) \/ Abandon(w)
  PROVE  StopInv'
<1> DEFINE t == slot[w].task
<1>1. UNCHANGED <<run, task, job, lost>>
  BY DEF Read, StageFails, Conclude, DropResult, Crash, HeartbeatCancelled, HeartbeatLost,
         Interrupt, Stop, Abandon
<1>2. slot[w] \in SlotRecords /\ slot \in [Slots -> SlotRecords]
  BY DEF TypeInv, TypeOK
<1>3. ASSUME NEW x, slot' = [slot EXCEPT ![w] = x], x.task = t,
             x.pc \in {"idle", "finishing"} => x.stop = "none",
             x.stop = "lease_lost" => ~Owns(w) \/ task[t].status \in Terminal
      PROVE  StopInv'
  <2>1. slot'[w] = x /\ \A v \in Slots \ {w} : slot'[v] = slot[v]
    BY <1>2, <1>3
  <2>2. \A v \in Slots : Owns(v)' => Owns(v)
    BY <1>1, <1>3, <2>1 DEF Owns
  <2>3. x.stop = "lease_lost" => ~Owns(w)' \/ task[t].status \in Terminal
    BY <1>3, <2>2
  <2> QED BY <1>1, <1>3, <2>2, <2>3, MoveKeepsStops
<1>4. StopOf(w)
  BY DEF StopInv
<1>5. ASSUME NEW pc \in {"failing", "finishing"}, slot' = [slot EXCEPT ![w] = Goto(w, pc)],
             pc = "finishing" => slot[w].stop = "none"
      PROVE  StopInv'
  <2> DEFINE x == Goto(w, pc)
  <2>1. x.task = t /\ x.pc = pc /\ x.stop = slot[w].stop
    BY <1>2 DEF Goto, SlotRecords
  <2> HIDE DEF x
  <2> QED BY <1>3, <1>4, <1>5, <2>1 DEF StopOf, x
<1>6. CASE slot' = [slot EXCEPT ![w] = IdleSlot]
  <2>1. IdleSlot.stop = "none" /\ IdleSlot.pc = "idle"
    BY DEF IdleSlot
  <2>2. \A v \in Slots \ {w} : Owns(v)' => Owns(v)
    BY <1>1, <1>2, <1>6 DEF Owns
  <2> QED BY <1>1, <1>6, <2>1, <2>2, MoveKeepsStops
<1>7. CASE Read(w) /\ slot[w].stop = "none"
  <2> DEFINE x == [slot[w] EXCEPT !.pc = "stage", !.seen = task[t].status, !.current = TRUE]
  <2>1. x.task = t /\ x.pc = "stage" /\ x.stop = "none"
    BY <1>2, <1>7 DEF SlotRecords
  <2>2. slot' = [slot EXCEPT ![w] = x]
    BY <1>7 DEF Read
  <2> HIDE DEF x
  <2> QED BY <1>3, <2>1, <2>2
<1>8. ASSUME NEW reason, Stop(w, reason),
             reason = "lease_lost" => ~Owns(w) \/ task[t].status \in Terminal
      PROVE  StopInv'
  <2> DEFINE x == [slot[w] EXCEPT !.stop = reason]
  <2>1. x.task = t /\ x.pc \in {"loop", "stage", "running"} /\ x.stop = reason
    BY <1>2, <1>8 DEF Stop, SlotRecords
  <2>2. slot' = [slot EXCEPT ![w] = x]
    BY <1>8 DEF Stop
  <2> HIDE DEF x
  <2> QED BY <1>3, <1>8, <2>1, <2>2
<1>9. CASE HeartbeatCancelled(w) \/ Interrupt(w)
  BY <1>8, <1>9 DEF HeartbeatCancelled, Interrupt
<1>10. CASE HeartbeatLost(w)
  <2>1. ~Owns(w) \/ task[t].status \in Terminal
    BY <1>10 DEF HeartbeatLost, HoldsLease
  <2> QED BY <1>8, <1>10, <2>1 DEF HeartbeatLost
<1>11. CASE Read(w) /\ slot[w].stop # "none"
  BY <1>5, <1>11 DEF Read
<1>12. CASE StageFails(w) \/ DropResult(w)
  BY <1>5, <1>12 DEF StageFails, DropResult
<1>13. CASE Conclude(w)
  BY <1>5, <1>13 DEF Conclude
<1>14. CASE Crash(w) \/ Abandon(w)
  BY <1>6, <1>14 DEF Crash, Abandon
<1> QED BY <1>7, <1>9, <1>10, <1>11, <1>12, <1>13, <1>14

\* A job is put back or ended by its slot, which becomes idle.
LEMMA LeaveKeepsStops ==
  ASSUME TypeInv, StopInv, NEW w \in Slots, NEW t \in Tasks, NEW j, NEW n, NEW W,
         j.status # "running", job' = [job EXCEPT ![t] = j],
         task' = [task EXCEPT ![t] = n],
         slot' = [Outdated(slot, W) EXCEPT ![w] = IdleSlot]
  PROVE  StopInv'
<1>1. slot \in [Slots -> SlotRecords] /\ task \in [Tasks -> TaskRecords]
      /\ job \in [Tasks -> JobRecords]
  BY DEF TypeInv, TypeOK
<1>2. slot'[w] = IdleSlot /\ \A v \in Slots \ {w} : slot'[v] = Outdated(slot, W)[v]
  BY <1>1, OutdatedType
<1>3. ASSUME NEW v \in Slots \ {w} PROVE Spared(v)
  <2>1. slot'[v].pc = slot[v].pc /\ slot'[v].task = slot[v].task /\ slot'[v].stop = slot[v].stop
    BY <1>1, <1>2, OutdatedStops
  <2>2. Owns(v)' => slot[v].task \in Tasks \ {t}
    BY <1>1, <2>1 DEF Owns, SlotRecords
  <2> QED BY <1>1, <2>1, <2>2 DEF Spared, Owns
<1>4. StopOf(w)'
  BY <1>2 DEF StopOf, IdleSlot
<1> QED BY <1>3, <1>4, SparedKeepsStop DEF StopInv

LEMMA YieldKeepsStops ==
  ASSUME TypeInv, StopInv, NEW w \in Slots, Yield(w)
  PROVE  StopInv'
<1> DEFINE t == slot[w].task
           j == RefundedJob(job[t])
<1>1. t \in Tasks /\ job[t] \in JobRecords /\ slot \in [Slots -> SlotRecords]
  BY DEF Yield, HoldsLease, Owns, TypeInv, TypeOK, SlotRecords
<1>2. j.status = "queued"
  BY <1>1 DEF RefundedJob, Leave, JobRecords
<1>3. job' = [job EXCEPT ![t] = j] /\ task' = [task EXCEPT ![t] = task[t]]
      /\ slot' = [slot EXCEPT ![w] = IdleSlot]
  BY <1>1 DEF Yield, TypeInv, TypeOK
<1>4. Outdated(slot, {}) = slot
  BY <1>1 DEF Outdated
<1> HIDE DEF j
<1> QED BY <1>1, <1>2, <1>3, <1>4, LeaveKeepsStops

LEMMA EndClaimKeepsStops ==
  ASSUME TypeInv, StopInv, NEW w \in Slots, EndClaim(w)
  PROVE  StopInv'
<1> DEFINE t == slot[w].task
<1>1. slot[w].pc # "idle" /\ slot[w] \in SlotRecords /\ slot \in [Slots -> SlotRecords]
  BY DEF EndClaim, Finish, FailCancelled, Release, GiveUp, TypeInv, TypeOK
<1>2. t \in Tasks /\ job[t] \in JobRecords
  BY <1>1 DEF TypeInv, TypeOK, SlotsServeTasks
<1>3. ASSUME NEW r, CloseJob(w, r) PROVE StopInv'
  <2> DEFINE j == Leave(job[t], JobOutcome(r.status))
             W == IF r = task[t] THEN {} ELSE {t}
  <2>1. j.status # "running"
    BY <1>2, LeaveType, JobOutcomeType DEF JobStatuses
  <2>2. /\ job' = [job EXCEPT ![t] = j] /\ task' = [task EXCEPT ![t] = r]
        /\ slot' = [Outdated(slot, W) EXCEPT ![w] = IdleSlot]
    BY <1>3 DEF CloseJob
  <2> HIDE DEF j, W
  <2> QED BY <1>2, <2>1, <2>2, LeaveKeepsStops
<1>4. CASE Abandon(w)
  BY <1>4, WorkerKeepsStops
<1>5. CASE Finish(w) /\ ~FinishAccepted(w)
  <2> DEFINE x == [slot[w] EXCEPT !.pc = "failing"]
  <2>1. x.pc = "failing" /\ x.stop = slot[w].stop
    BY <1>1 DEF SlotRecords
  <2>2. slot[w].stop = "none"
    BY <1>5 DEF Finish, StopInv, StopOf
  <2>3. slot' = [slot EXCEPT ![w] = x] /\ task' = task /\ job' = job
    BY <1>5 DEF Finish
  <2> HIDE DEF x
  <2>4. \A v \in Slots \ {w} : Owns(v)' => Owns(v)
    BY <1>1, <2>3 DEF Owns
  <2> QED BY <2>1, <2>2, <2>3, <2>4, MoveKeepsStops
<1>6. CASE /\ job' = [job EXCEPT ![t] = Leave(job[t], "queued")]
           /\ slot' = [slot EXCEPT ![w] = IdleSlot]
           /\ UNCHANGED <<run, task>>
  <2> DEFINE j == Leave(job[t], "queued")
  <2>1. j.status # "running"
    BY <1>2, LeaveType DEF JobStatuses
  <2>2. task' = [task EXCEPT ![t] = task[t]] /\ Outdated(slot, {}) = slot
    BY <1>1, <1>2, <1>6 DEF Outdated, TypeInv, TypeOK
  <2>3. job' = [job EXCEPT ![t] = j] /\ slot' = [slot EXCEPT ![w] = IdleSlot]
    BY <1>6
  <2> HIDE DEF j
  <2> QED BY <1>2, <2>1, <2>2, <2>3, LeaveKeepsStops
<1>7. CASE Finish(w)
  BY <1>3, <1>5, <1>7 DEF Finish
<1>8. CASE FailCancelled(w)
  BY <1>3, <1>4, <1>8 DEF FailCancelled
<1>9. CASE Release(w)
  BY <1>3, <1>6, <1>9 DEF Release
<1>10. CASE GiveUp(w)
  BY <1>4, <1>10 DEF GiveUp
<1> QED BY <1>7, <1>8, <1>9, <1>10 DEF EndClaim

\* The rows change behind the backs of the slots.
LEMMA PassiveKeepsStops ==
  ASSUME TypeInv, StopInv, NEW W, slot' = Outdated(slot, W),
         \A v \in Slots : Owns(v)' =>
           /\ Owns(v)
           /\ \/ task'[slot[v].task] = task[slot[v].task]
              \/ task'[slot[v].task].status \in Terminal
  PROVE  StopInv'
<1>1. \A v \in Slots : Spared(v)
  BY OutdatedStops DEF Spared, TypeInv, TypeOK
<1> QED BY <1>1, SparedKeepsStop DEF StopInv

LEMMA ClaimKeepsStops ==
  ASSUME TypeInv, StopInv, NEW w \in Slots, NEW t \in Tasks, NEW lane \in Lanes,
         Claim(w, t, lane)
  PROVE  StopInv'
<1> DEFINE x == [IdleSlot EXCEPT !.pc = "loop", !.task = t, !.lane = lane]
<1>1. slot' = [slot EXCEPT ![w] = x] /\ task' = task
  BY DEF Claim
<1>2. x.pc = "loop" /\ x.stop = "none"
  BY DEF IdleSlot
<1> HIDE DEF x
<1>3. \A v \in Slots \ {w} : slot'[v] = slot[v]
  BY <1>1 DEF TypeInv, TypeOK
<1>4. job'[t].owner = w /\ \A u \in Tasks \ {t} : job'[u] = job[u]
  <2> DEFINE j == [job[t] EXCEPT !.status = "running", !.claims = @ + 1,
                                 !.owner = w, !.expired = FALSE]
  <2>1. job' = [job EXCEPT ![t] = j]
    BY DEF Claim
  <2>2. j.owner = w
    BY DEF TypeInv, TypeOK, JobRecords
  <2> HIDE DEF j
  <2> QED BY <2>1, <2>2 DEF TypeInv, TypeOK
<1>5. ASSUME NEW v \in Slots \ {w}, Owns(v)' PROVE Owns(v)
  <2>1. slot[v].task \in Tasks \ {t}
    BY <1>3, <1>4, <1>5 DEF Owns, TypeInv, TypeOK, SlotRecords
  <2> QED BY <1>3, <1>4, <1>5, <2>1 DEF Owns
<1> QED BY <1>1, <1>2, <1>5, MoveKeepsStops

LEMMA ReconcileKeepsStops ==
  ASSUME TypeInv, StopInv, NEW t \in Tasks, Reconcile(t)
  PROVE  StopInv'
<1> DEFINE status == ReconciledStatus(t)
           W == IF status # task[t].status THEN {t} ELSE {}
<1>1. slot \in [Slots -> SlotRecords] /\ job[t] \in JobRecords
  BY DEF TypeInv, TypeOK
<1>2. slot' = Outdated(slot, W)
  <2>1. slot' = IF status # task[t].status THEN Outdated(slot, {t}) ELSE slot
    BY DEF Reconcile
  <2>2. Outdated(slot, {}) = slot
    BY <1>1 DEF Outdated
  <2> QED BY <2>1, <2>2
<1>3. \A v \in Slots : slot'[v].task = slot[v].task
  BY <1>1, <1>2, OutdatedType
<1>4. job' = job \/ job' = [job EXCEPT ![t] = Leave(job[t], JobOutcome(status))]
  BY DEF Reconcile
<1>5. job'[t].status # "running" \/ job'[t].expired
  <2>1. job[t].expired
    BY DEF Reconcile, Reconcilable
  <2>2. Leave(job[t], JobOutcome(status)).status # "running"
    BY <1>1, LeaveType, JobOutcomeType DEF JobStatuses
  <2> HIDE DEF status
  <2> QED BY <1>4, <2>1, <2>2 DEF TypeInv, TypeOK
<1>6. \A u \in Tasks \ {t} : task'[u] = task[u] /\ job'[u] = job[u]
  BY <1>4 DEF Reconcile, TypeInv, TypeOK
<1>7. ASSUME NEW v \in Slots, Owns(v)'
      PROVE  Owns(v) /\ task'[slot[v].task] = task[slot[v].task]
  <2>1. slot[v].task \in Tasks \ {t}
    BY <1>1, <1>3, <1>5, <1>7 DEF Owns, SlotRecords
  <2> QED BY <1>3, <1>6, <1>7, <2>1 DEF Owns
<1> HIDE DEF W
<1> QED BY <1>2, <1>7, PassiveKeepsStops

LEMMA ExpireKeepsStops ==
  ASSUME TypeInv, StopInv, NEW t \in Tasks, Expire(t)
  PROVE  StopInv'
<1>1. slot' = Outdated(slot, {}) /\ slot' = slot /\ task' = task
  BY DEF Expire, Outdated, TypeInv, TypeOK
<1>2. job'[t].expired /\ \A u \in Tasks \ {t} : job'[u] = job[u]
  BY DEF Expire, TypeInv, TypeOK, JobRecords
<1>3. ASSUME NEW v \in Slots, Owns(v)' PROVE Owns(v)
  <2>1. slot[v].task \in Tasks \ {t}
    BY <1>1, <1>2, <1>3 DEF Owns, TypeInv, TypeOK, SlotRecords
  <2> QED BY <1>1, <1>2, <1>3, <2>1 DEF Owns
<1> QED BY <1>1, <1>3, PassiveKeepsStops

LEMMA CancelRunKeepsStops ==
  ASSUME TypeInv, StopInv, CancelRun
  PROVE  StopInv'
<1> DEFINE hit == {t \in Tasks : task[t].status \in Open /\ ~Executing(task[t])}
<1>1. /\ task' = [t \in Tasks |->
                   IF t \in hit THEN [task[t] EXCEPT !.status = "cancelled"] ELSE task[t]]
      /\ job' = [t \in Tasks |-> IF Active(job[t]) THEN CancelledJob(t) ELSE job[t]]
      /\ slot' = Outdated(slot, hit)
  BY DEF CancelRun
<1>2. ASSUME NEW u \in Tasks
      PROVE  task'[u] = task[u] \/ task'[u].status \in Terminal
  <2>1. [task[u] EXCEPT !.status = "cancelled"].status = "cancelled"
    BY DEF TypeInv, TypeOK, TaskRecords
  <2>2. task'[u] = [task[u] EXCEPT !.status = "cancelled"] \/ task'[u] = task[u]
    BY <1>1
  <2> QED BY <2>1, <2>2 DEF Terminal
<1> HIDE DEF hit
<1>3. ASSUME NEW u \in Tasks, job'[u].status = "running"
      PROVE  /\ job[u].status = "running"
             /\ job'[u].owner = job[u].owner /\ job'[u].expired = job[u].expired
  <2>1. job[u] \in JobRecords
    BY DEF TypeInv, TypeOK
  <2>2. CASE ~Active(job[u])
    BY <1>1, <1>3, <2>2 DEF Active
  <2>3. CASE Active(job[u])
    <3>1. job'[u] = CancelledJob(u)
      BY <1>1, <2>3
    <3> DEFINE told == [job[u] EXCEPT !.cancel = TRUE]
    <3>2. /\ told \in JobRecords /\ told.status = job[u].status
          /\ told.owner = job[u].owner /\ told.expired = job[u].expired
      BY <2>1 DEF JobRecords
    <3>3. \/ CancelledJob(u) = Leave(job[u], JobOutcome(task[u].status))
          \/ CancelledJob(u) = told
          \/ CancelledJob(u) = Leave(told, "cancelled")
      BY DEF CancelledJob
    <3> HIDE DEF told
    <3>4. JobOutcome(task[u].status) \in JobStatuses \ {"running"} /\ "cancelled" \in JobStatuses
      BY JobOutcomeType DEF JobStatuses
    <3>5. /\ Leave(job[u], JobOutcome(task[u].status)).status # "running"
          /\ Leave(told, "cancelled").status # "running"
      BY <2>1, <3>2, <3>4, LeaveType
    <3> QED BY <1>3, <3>1, <3>2, <3>3, <3>5
  <2> QED BY <2>2, <2>3
<1>4. \A v \in Slots : slot'[v].task = slot[v].task
  BY <1>1, OutdatedType DEF TypeInv, TypeOK
<1>5. ASSUME NEW v \in Slots, Owns(v)'
      PROVE  /\ Owns(v)
             /\ \/ task'[slot[v].task] = task[slot[v].task]
                \/ task'[slot[v].task].status \in Terminal
  <2>1. slot[v].task \in Tasks
    BY <1>4, <1>5 DEF Owns, TypeInv, TypeOK, SlotRecords
  <2> QED BY <1>2, <1>3, <1>4, <1>5, <2>1 DEF Owns
<1> QED BY <1>1, <1>5, PassiveKeepsStops

LEMMA RetryTaskKeepsStops ==
  ASSUME TypeInv, StopInv, NEW t \in Tasks, NEW status \in {"pending", "ready"},
         RetryTask(t, status)
  PROVE  StopInv'
<1> DEFINE W == {t}
<1>1. slot' = Outdated(slot, W)
  BY DEF RetryTask
<1>2. job'[t].status # "running"
      /\ \A u \in Tasks \ {t} : job'[u] = job[u] /\ task'[u] = task[u]
  BY DEF RetryTask, QueuedJob, TypeInv, TypeOK
<1>3. \A v \in Slots : slot'[v].task = slot[v].task
  BY <1>1, OutdatedType DEF TypeInv, TypeOK
<1>4. ASSUME NEW v \in Slots, Owns(v)'
      PROVE  Owns(v) /\ task'[slot[v].task] = task[slot[v].task]
  <2>1. slot[v].task \in Tasks \ {t}
    BY <1>2, <1>3, <1>4 DEF Owns, TypeInv, TypeOK, SlotRecords
  <2> QED BY <1>2, <1>3, <1>4, <2>1 DEF Owns
<1> HIDE DEF W
<1> QED BY <1>1, <1>4, PassiveKeepsStops

LEMMA StopInit == Init => StopInv
<1>1. ASSUME Init, NEW w \in Slots PROVE StopOf(w)
  <2>1. slot[w] = IdleSlot
    BY <1>1 DEF Init
  <2> QED BY <2>1 DEF StopOf, IdleSlot
<1> QED BY <1>1 DEF StopInv

LEMMA StopStep == TypeInv /\ StopInv /\ [Next]_vars => StopInv'
<1> SUFFICES ASSUME TypeInv, StopInv, [Next]_vars PROVE StopInv'
  OBVIOUS
<1>1. ASSUME NEW w \in Slots, Stage(w) PROVE StopInv'
  BY <1>1, StageKeepsStops, StartAttemptKeepsStops, YieldKeepsStops, WorkerKeepsStops DEF Stage
<1>2. ASSUME NEW w \in Slots, Settle(w) PROVE StopInv'
  BY <1>2, StageKeepsStops, WorkerKeepsStops DEF Settle
<1>3. ASSUME NEW w \in Slots, SlotStep(w) PROVE StopInv'
  BY <1>1, <1>2, <1>3, WorkerKeepsStops, EndClaimKeepsStops DEF SlotStep
<1>4. ASSUME NEW w \in Slots,
             Crash(w) \/ HeartbeatCancelled(w) \/ HeartbeatLost(w) \/ Interrupt(w)
      PROVE  StopInv'
  BY <1>4, WorkerKeepsStops
<1>5. ASSUME NEW t \in Tasks, ClaimAny(t) \/ Reconcile(t) \/ Expire(t) PROVE StopInv'
  BY <1>5, ClaimKeepsStops, ReconcileKeepsStops, ExpireKeepsStops DEF ClaimAny
<1>6. CASE UNCHANGED vars
  BY <1>6 DEF vars, StopInv, StopOf, Owns
<1> QED BY <1>3, <1>4, <1>5, <1>6, CancelRunKeepsStops, RetryTaskKeepsStops DEF Next

-----------------------------------------------------------------------------
\* What StoppedSlotsStaySilent asks of the slot that moves.
Silent(w) ==
  /\ slot[w].stop = "lease_lost" => UNCHANGED <<run, task, job>>
  /\ slot[w].stop = "interrupted" => UNCHANGED <<run, task>>
  /\ slot[w].stop = "user_cancelled" =>
       \A t \in Tasks : task'[t] # task[t] => task'[t].status = "cancelled"

\* A job that ends with the task it has leaves task and run alone.
LEMMA ClosingIsSilent ==
  ASSUME TypeInv, StoryInv, JobInv, NEW w \in Slots, Owns(w),
         task[slot[w].task].status \in Terminal, CloseJob(w, task[slot[w].task])
  PROVE  UNCHANGED <<run, task>>
<1> DEFINE t == slot[w].task
<1>1. t \in Tasks /\ Active(job[t])
  BY DEF Owns, Active, TypeInv, TypeOK, SlotRecords
<1>2. task' = task /\ run' = Recompute(task')
  BY <1>1 DEF CloseJob, TypeInv, TypeOK
<1>3. UNCHANGED Promise!runVars
  BY <1>1, <1>2, CloseIsStutter
<1>4. run'.status = run.status /\ run'.cancel = run.cancel
  BY <1>3 DEF Promise!runVars
<1>5. run \in RunRecords /\ run' \in RunRecords
  BY <1>2, RecomputeType DEF TypeInv, TypeOK, RunRecords
<1> QED BY <1>2, <1>4, <1>5 DEF RunRecords

LEMMA EndClaimIsSilent ==
  ASSUME TypeInv, StoryInv, JobInv, StopInv, NEW w \in Slots, EndClaim(w)
  PROVE  Silent(w)
<1> DEFINE t == slot[w].task
           r == task[t]
<1>1. slot[w].pc # "idle" /\ StopOf(w)
  BY DEF EndClaim, Finish, FailCancelled, Release, GiveUp, StopInv
<1>2. t \in Tasks
  BY <1>1 DEF TypeInv, SlotsServeTasks
<1>3. CASE Finish(w)
  BY <1>1, <1>3 DEF Finish, StopOf, Silent
<1>4. CASE FailCancelled(w)
  <2>1. slot[w].stop = "user_cancelled" /\ task' = task
    BY <1>2, <1>4 DEF FailCancelled, CloseJob, Abandon, TypeInv, TypeOK
  <2> QED BY <2>1 DEF Silent
<1>5. CASE Release(w)
  <2>1. Owns(w) /\ slot[w].stop \in {"none", "interrupted"}
        /\ (slot[w].stop = "interrupted" => job[t].claims < MaxClaims)
    BY <1>5 DEF Release, MayRelease, HoldsLease
  <2>2. job[t].claims \in Nat /\ MaxClaims \in Nat
    BY <1>2, ExecutionAssumption DEF TypeInv, TypeOK, JobRecords
  <2>3. slot[w].stop = "interrupted" => UNCHANGED <<run, task>>
    BY <1>5, <2>1, <2>2, ClosingIsSilent DEF Release
  <2> QED BY <2>1, <2>3 DEF Silent
<1>6. CASE GiveUp(w)
  BY <1>6 DEF GiveUp, Abandon, Silent
<1> QED BY <1>3, <1>4, <1>5, <1>6 DEF EndClaim

LEMMA SlotStepIsSilent ==
  ASSUME TypeInv, StoryInv, JobInv, StopInv, NEW w \in Slots, SlotStep(w) \/ Crash(w)
  PROVE  Silent(w)
<1>1. ASSUME slot[w].stop = "none" PROVE Silent(w)
  BY <1>1 DEF Silent
<1>2. ASSUME UNCHANGED <<run, task, job>> PROVE Silent(w)
  BY <1>2 DEF Silent
<1>3. CASE Prepare(w) \/ Generate(w) \/ AuthenticationFails(w) \/ StartAttempt(w)
           \/ Diagnose(w) \/ Repair(w) \/ SettleVerdict(w) \/ SettleInfrastructureError(w)
  BY <1>1, <1>3 DEF Prepare, Generate, AuthenticationFails, StartAttempt, Diagnose, Repair,
                    SettleVerdict, SettleInfrastructureError, MayCommit
<1>4. CASE Yield(w)
  <2>1. UNCHANGED <<run, task>> /\ Owns(w) /\ task[slot[w].task].status \notin Terminal
    BY <1>4, OpenIsNotTerminal DEF Yield, HoldsLease
  <2>2. slot[w].stop # "lease_lost"
    BY <2>1 DEF StopInv, StopOf
  <2> QED BY <2>1, <2>2 DEF Silent
<1>5. CASE SettleCancelled(w)
  <2> DEFINE t == slot[w].task
             n == [CloseAttempt(task[t], "cancelled") EXCEPT !.status = "cancelled"]
  <2>1. slot[w].stop = "user_cancelled" /\ t \in Tasks
    BY <1>5 DEF SettleCancelled, Owns, TypeInv, TypeOK, SlotRecords
  <2>2. task' = [task EXCEPT ![t] = n]
    BY <1>5 DEF SettleCancelled, Commit
  <2>3. n.status = "cancelled"
    <3>1. CloseAttempt(task[t], "cancelled") \in TaskRecords
      BY <2>1, ClosedRecord DEF TypeInv, TypeOK, Outcomes
    <3> QED BY <3>1 DEF TaskRecords
  <2> HIDE DEF n
  <2>4. \A u \in Tasks : task'[u] # task[u] => task'[u].status = "cancelled"
    BY <2>1, <2>2, <2>3 DEF TypeInv, TypeOK
  <2> QED BY <2>1, <2>4 DEF Silent
<1>6. CASE Read(w) \/ Conclude(w) \/ StageFails(w) \/ DropResult(w) \/ Crash(w)
  BY <1>2, <1>6 DEF Read, Conclude, StageFails, DropResult, Crash
<1> QED BY <1>3, <1>4, <1>5, <1>6, EndClaimIsSilent DEF SlotStep, Stage, Settle

\* Only slot w moves in a step of its own.
LEMMA OthersStayPut ==
  ASSUME TypeInv, NEW w \in Slots, SlotStep(w) \/ Crash(w), NEW v \in Slots, v # w
  PROVE  slot'[v].pc = slot[v].pc
<1>1. slot \in [Slots -> SlotRecords]
  BY DEF TypeInv, TypeOK
<1>2. ASSUME NEW W, NEW x, slot' = [Outdated(slot, W) EXCEPT ![w] = x]
      PROVE  slot'[v].pc = slot[v].pc
  BY <1>1, <1>2, OutdatedType
<1>3. ASSUME NEW x, slot' = [slot EXCEPT ![w] = x] PROVE slot'[v].pc = slot[v].pc
  BY <1>1, <1>3
<1>4. ASSUME NEW n, NEW pc, Commit(w, n, pc) PROVE slot'[v].pc = slot[v].pc
  BY <1>2, <1>4 DEF Commit
<1>5. CASE Prepare(w) \/ Generate(w) \/ AuthenticationFails(w) \/ Diagnose(w)
  BY <1>4, <1>5 DEF Prepare, Generate, AuthenticationFails, Diagnose
<1>6. CASE Repair(w) \/ SettleVerdict(w) \/ SettleInfrastructureError(w) \/ SettleCancelled(w)
  BY <1>4, <1>6 DEF Repair, SettleVerdict, SettleInfrastructureError, SettleCancelled
<1>7. CASE StartAttempt(w)
  BY <1>2, <1>7 DEF StartAttempt
<1>8. CASE Read(w) \/ Yield(w) \/ Conclude(w) \/ StageFails(w) \/ DropResult(w) \/ Crash(w)
  BY <1>3, <1>8 DEF Read, Yield, Conclude, StageFails, DropResult, Crash
<1>9. ASSUME NEW r, CloseJob(w, r) PROVE slot'[v].pc = slot[v].pc
  BY <1>2, <1>9 DEF CloseJob
<1>10. CASE Finish(w)
  <2>1. CASE slot' = [slot EXCEPT ![w].pc = "failing"]
    BY <1>1, <2>1
  <2> QED BY <1>9, <1>10, <2>1 DEF Finish
<1>11. CASE FailCancelled(w)
  BY <1>3, <1>9, <1>11 DEF FailCancelled, Abandon
<1>12. CASE Release(w)
  BY <1>3, <1>9, <1>12 DEF Release
<1>13. CASE GiveUp(w)
  BY <1>3, <1>13 DEF GiveUp, Abandon
<1> QED BY <1>5, <1>6, <1>7, <1>8, <1>10, <1>11, <1>12, <1>13
        DEF SlotStep, Stage, Settle, EndClaim

LEMMA SilentStep ==
  ASSUME TypeInv, StoryInv, JobInv, StopInv, [Next]_vars, NEW w \in Slots,
         slot'[w].pc # slot[w].pc
  PROVE  Silent(w)
<1>1. slot \in [Slots -> SlotRecords]
  BY DEF TypeInv, TypeOK
<1>2. CASE \E v \in Slots : SlotStep(v) \/ Crash(v)
  <2>1. SlotStep(w) \/ Crash(w)
    BY <1>2, OthersStayPut
  <2> QED BY <2>1, SlotStepIsSilent
<1>3. ASSUME NEW v \in Slots, HeartbeatCancelled(v) \/ HeartbeatLost(v) \/ Interrupt(v)
      PROVE  FALSE
  <2>1. PICK reason : slot' = [slot EXCEPT ![v].stop = reason]
    BY <1>3 DEF HeartbeatCancelled, HeartbeatLost, Interrupt, Stop
  <2> QED BY <1>1, <2>1 DEF SlotRecords
<1>4. ASSUME NEW t \in Tasks, ClaimAny(t) PROVE Silent(w)
  <2>1. PICK v \in Slots, lane \in Lanes : Claim(v, t, lane)
    BY <1>4 DEF ClaimAny
  <2>2. v = w /\ slot[w].pc = "idle"
    BY <1>1, <2>1 DEF Claim
  <2>3. slot[w].stop = "none"
    BY <2>2 DEF StopInv, StopOf
  <2> QED BY <2>3 DEF Silent
<1>5. ASSUME NEW W, slot' = Outdated(slot, W) PROVE FALSE
  BY <1>1, <1>5, OutdatedType
<1>6. CASE \E t \in Tasks : Reconcile(t) \/ Expire(t)
  <2>1. slot' # slot
    OBVIOUS
  <2> QED BY <1>5, <1>6, <2>1 DEF Reconcile, Expire
<1>7. CASE CancelRun \/ \E t \in Tasks, status \in {"pending", "ready"} : RetryTask(t, status)
  BY <1>5, <1>7 DEF CancelRun, RetryTask
<1>8. CASE UNCHANGED vars
  BY <1>8 DEF vars
<1> QED BY <1>2, <1>3, <1>4, <1>6, <1>7, <1>8 DEF Next

\* Whenever a lease is lost, a worker interrupted or a run cancelled between any two steps of
\* a claim: the slot that was told so writes nothing, hands back its job, or cancels.
THEOREM StoppedSlotsAreSilent == Spec => StoppedSlotsStaySilent
<1>1. TypeInv /\ StoryInv /\ JobInv /\ StopInv /\ [Next]_vars =>
        [\A w \in Slots : slot'[w].pc # slot[w].pc =>
           /\ slot[w].stop = "lease_lost" => UNCHANGED <<run, task, job>>
           /\ slot[w].stop = "interrupted" => UNCHANGED <<run, task>>
           /\ slot[w].stop = "user_cancelled" =>
                \A t \in Tasks : task'[t] # task[t] => task'[t].status = "cancelled"]_vars
  BY SilentStep DEF Silent
<1> QED BY <1>1, TypeInit, TypeStep, SnapshotInit, SnapshotStep, StoryInit, StoryStep,
           JobInit, JobStep, StopInit, StopStep, PTL DEF Spec, StoppedSlotsStaySilent

=============================================================================
