---------------------------- MODULE ToolApproval ----------------------------
(***************************************************************************)
(* ReviewGovernanceService for one analysis run: a tool that writes waits  *)
(* for the decision of a human before it executes.  A decision is about a  *)
(* request (tool, version and hash of the arguments), is valid until it    *)
(* expires and is good for one execution.                                  *)
(*                                                                         *)
(* Calls of the tools poll: they read a snapshot and act on it in a later  *)
(* transaction.  In between other calls, the human, the clock and the run  *)
(* move on.  A worker that crashes leaves its approvals as they are.       *)
(***************************************************************************)
EXTENDS Integers, FiniteSets

CONSTANTS
  Callers,    \* places for concurrent calls of governed tools
  Requests,   \* tool, version and parameterHash
  ToolOf(_),  \* the tool a request is for
  Ids,        \* identities approvals are given
  MaxCalls    \* bound: calls of authorize

ASSUME ApprovalAssumption == MaxCalls \in Nat

VARIABLES
  running,     \* run.status is 'running'
  approvals,   \* state.toolApprovals of the run
  caller,      \* what each call of authorize knows
  aborted,     \* the calls whose signal is aborted
  calls,       \* how often authorize was called
  executions,  \* history: the calls that were let through, and the approval each has used
  abandoned    \* history: approvals whose waiting call died with its process

vars == <<running, approvals, caller, aborted, calls, executions, abandoned>>

Statuses == {"pending", "approved", "rejected", "expired", "cancelled"}

\* decision stands for decidedAt and decidedBy, which later changes of status leave alone;
\* lapsed: expiresAt has passed.
Approval == [request : Requests, status : Statuses, consumed : BOOLEAN,
             decision : {"none", "approved", "rejected"}, lapsed : BOOLEAN]

NoApproval == [status |-> "none"]
Known == {i \in Ids : approvals[i] # NoApproval}

\* "asked": now is taken and the first transaction is queued; "waiting": in
\* waitForDecision; "read": a snapshot is taken.
\* late: the approvals expired at the `now` of the call.  pending: the approval it waits
\* for.  seen: run and approval in its last snapshot.
Idle == [pc |-> "idle"]
Asked(n, r) ==
  [pc |-> "asked", call |-> n, request |-> r, late |-> {i \in Known : approvals[i].lapsed}]
Waiting(n, r, i) == [pc |-> "waiting", call |-> n, request |-> r, pending |-> i]

Waits(c) == caller[c].pc \in {"waiting", "read"}

Init ==
  /\ running \in BOOLEAN
  /\ approvals = [i \in Ids |-> NoApproval]
  /\ caller = [c \in Callers |-> Idle]
  /\ aborted = {}
  /\ calls = 0
  /\ executions = {}
  /\ abandoned = {}

WithStatus(a, status) == [a EXCEPT !.status = status]
WithDecision(a, d) == [a EXCEPT !.status = d, !.decision = d]
Consumed(a) == [a EXCEPT !.consumed = TRUE]

\* draft.toolApprovals.find(...) of a pending approval that leaves this status.
Settled(i, status) ==
  [approvals EXCEPT ![i] = IF @.status = "pending" THEN WithStatus(@, status) ELSE @]

Ends(c) ==
  /\ caller' = [caller EXCEPT ![c] = Idle]
  /\ aborted' = aborted \ {c}
  /\ UNCHANGED <<running, calls>>

-----------------------------------------------------------------------------
(* authorize: the first transaction *)

\* Places are interchangeable: a call takes the first that is free.
Call(c) ==
  /\ caller[c] = Idle /\ c = CHOOSE d \in Callers : caller[d] = Idle
  /\ calls < MaxCalls
  /\ \E r \in Requests : caller' = [caller EXCEPT ![c] = Asked(calls + 1, r)]
  /\ calls' = calls + 1
  /\ UNCHANGED <<running, approvals, aborted, executions, abandoned>>

Refuse(c) ==
  /\ caller[c].pc = "asked"
  /\ ~running
  /\ Ends(c)
  /\ UNCHANGED <<approvals, executions, abandoned>>

\* Pending approvals of the tool that expired or are for other arguments are closed.
Swept(c) ==
  [i \in Ids |->
     LET a == approvals[i] IN
     IF /\ a.status = "pending" /\ ToolOf(a.request) = ToolOf(caller[c].request)
        /\ a.request # caller[c].request \/ i \in caller[c].late
     THEN WithStatus(a, IF i \in caller[c].late THEN "expired" ELSE "cancelled")
     ELSE a]

Exact(c) ==
  {i \in Known : /\ approvals[i].request = caller[c].request
                 /\ approvals[i].status = "approved"
                 /\ ~approvals[i].consumed /\ i \notin caller[c].late}

\* Mutant: a rejection counts only until it expires.
RejectedLately(c) ==
  {i \in Known : /\ approvals[i].request = caller[c].request
                 /\ approvals[i].status = "rejected" /\ ~approvals[i].lapsed}

Rejected(c) ==
  {i \in Known : approvals[i].request = caller[c].request /\ approvals[i].status = "rejected"}

Pending(c) ==
  {i \in Known : approvals[i].request = caller[c].request /\ Swept(c)[i].status = "pending"}

\* approval.consumedAt = now, and the tool executes.
Uses(c, i) ==
  /\ executions' = executions \cup
       {[call |-> caller[c].call, request |-> caller[c].request, approval |-> i]}
  /\ Ends(c)
  /\ UNCHANGED abandoned

AdmitApproved(c) ==
  /\ caller[c].pc = "asked" /\ running
  /\ \E i \in Exact(c) :
       /\ approvals' = [Swept(c) EXCEPT ![i] = Consumed(@)]
       /\ Uses(c, i)

AdmitRejected(c) ==
  /\ caller[c].pc = "asked" /\ running
  /\ Exact(c) = {} /\ Rejected(c) # {}
  /\ approvals' = Swept(c)
  /\ Ends(c)
  /\ UNCHANGED <<executions, abandoned>>

NewApproval(r) ==
  [request |-> r, status |-> "pending", consumed |-> FALSE, decision |-> "none",
   lapsed |-> FALSE]

\* randomUUID(): an identity nobody has.
NewId == CHOOSE i \in Ids : i \notin Known

\* The pending approval of the request, or a new one.
Joinable(c) == IF Pending(c) # {} THEN Pending(c) ELSE {NewId}

AdmitPending(c) ==
  LET r == caller[c].request IN
  /\ caller[c].pc = "asked" /\ running
  /\ Exact(c) = {} /\ Rejected(c) = {}
  /\ Pending(c) # {} \/ Known # Ids
  /\ \E i \in Joinable(c) :
       /\ approvals' = [Swept(c) EXCEPT ![i] = IF i \in Known THEN @ ELSE NewApproval(r)]
       /\ caller' = [caller EXCEPT ![c] = Waiting(@.call, r, i)]
  /\ UNCHANGED <<running, aborted, calls, executions, abandoned>>

-----------------------------------------------------------------------------
(* authorize: the polling loop *)

Read(c) ==
  /\ caller[c].pc = "waiting" /\ c \notin aborted
  /\ caller' = [caller EXCEPT ![c] =
       [pc |-> "read", call |-> @.call, request |-> @.request, pending |-> @.pending,
        seen |-> [running |-> running, status |-> approvals[@.pending].status,
                  consumed |-> approvals[@.pending].consumed]]]
  /\ UNCHANGED <<running, approvals, aborted, calls, executions, abandoned>>

\* Mutant: the call just goes away.
GoneOnAbort(i) == approvals

\* catch: an aborted call takes its approval back.
TakenBack(i) == Settled(i, "cancelled")

GiveUp(c) ==
  /\ caller[c].pc = "waiting" /\ c \in aborted
  /\ approvals' = TakenBack(caller[c].pending)
  /\ Ends(c)
  /\ UNCHANGED <<executions, abandoned>>

\* The snapshot shows that the run is no longer running.
LeaveRun(c) ==
  /\ caller[c].pc = "read" /\ ~caller[c].seen.running
  /\ approvals' = Settled(caller[c].pending, "cancelled")
  /\ Ends(c)
  /\ UNCHANGED <<executions, abandoned>>

Reads(c, status) ==
  caller[c].pc = "read" /\ caller[c].seen.running /\ caller[c].seen.status = status
SeenUsable(c) == Reads(c, "approved") /\ ~caller[c].seen.consumed

\* Mutant: the transaction trusts the snapshot.
StillApproved(i) == TRUE

\* What the transaction of the call checks again.
StillUsable(i) ==
  /\ approvals[i].status = "approved"
  /\ ~approvals[i].consumed /\ ~approvals[i].lapsed

Consume(c) ==
  LET i == caller[c].pending IN
  /\ SeenUsable(c) /\ StillUsable(i)
  /\ approvals' = [approvals EXCEPT ![i] = Consumed(@)]
  /\ Uses(c, i)

\* Another call has used the approval: authorize starts anew.
AskAgain(c) ==
  /\ Reads(c, "approved") /\ caller[c].seen.consumed
  /\ caller' = [caller EXCEPT ![c] = Asked(@.call, @.request)]
  /\ UNCHANGED <<running, approvals, aborted, calls, executions, abandoned>>

LearnDecision(c) ==
  /\ Reads(c, "rejected") \/ Reads(c, "cancelled")
  /\ Ends(c)
  /\ UNCHANGED <<approvals, executions, abandoned>>

\* Mutant: only an approval already marked expired ends the wait.
MarkedExpired(c) == Reads(c, "expired")

\* The clock may have moved on since the snapshot.
TimedOut(c) ==
  \/ Reads(c, "expired")
  \/ (Reads(c, "pending") \/ SeenUsable(c)) /\ approvals[caller[c].pending].lapsed

Expire(c) ==
  /\ TimedOut(c)
  /\ approvals' = Settled(caller[c].pending, "expired")
  /\ Ends(c)
  /\ UNCHANGED <<executions, abandoned>>

\* Nothing to act on, or the consuming transaction has found it used: the next round.
KeepWaiting(c) ==
  LET i == caller[c].pending IN
  /\ \/ Reads(c, "pending")
     \/ SeenUsable(c) /\ ~StillUsable(i)
  /\ ~TimedOut(c)
  /\ caller' = [caller EXCEPT ![c] = Waiting(@.call, @.request, i)]
  /\ UNCHANGED <<running, approvals, aborted, calls, executions, abandoned>>

\* A read fails, or the process of the worker ends.
Break(c) ==
  /\ caller[c] # Idle
  /\ abandoned' = abandoned \cup {i \in Known : Waits(c) /\ caller[c].pending = i /\ approvals[i].status = "pending"}
  /\ Ends(c)
  /\ UNCHANGED <<approvals, executions>>

-----------------------------------------------------------------------------
(* The human, the clock and the run *)

Decidable(i) == approvals[i].status = "pending" /\ ~approvals[i].lapsed

\* decideApproval: outside a running run the approval is cancelled, whatever it was.
Decided(i, d) ==
  [approvals EXCEPT ![i] =
     IF ~running THEN WithStatus(@, "cancelled")
     ELSE IF Decidable(i) THEN WithDecision(@, d)
     ELSE IF @.status = "pending" THEN WithStatus(@, "expired")
     ELSE @]

Decide(i) ==
  /\ \E d \in {"approved", "rejected"} : approvals' = Decided(i, d)
  /\ UNCHANGED <<running, caller, aborted, calls, executions, abandoned>>

\* listApprovals
List ==
  /\ approvals' = [i \in Ids |->
       IF approvals[i].status = "pending" /\ approvals[i].lapsed
       THEN WithStatus(approvals[i], "expired") ELSE approvals[i]]
  /\ UNCHANGED <<running, caller, aborted, calls, executions, abandoned>>

Lapse(i) ==
  /\ ~approvals[i].lapsed
  /\ approvals' = [approvals EXCEPT ![i] = [@ EXCEPT !.lapsed = TRUE]]
  /\ UNCHANGED <<running, caller, aborted, calls, executions, abandoned>>

\* A run leaves 'running' when it ends or waits for clarification, and comes back with a
\* further attempt of its job.
SetRun ==
  /\ running' = ~running
  /\ UNCHANGED <<approvals, caller, aborted, calls, executions, abandoned>>

Abort(c) ==
  /\ caller[c] # Idle /\ c \notin aborted
  /\ aborted' = aborted \cup {c}
  /\ UNCHANGED <<running, approvals, caller, calls, executions, abandoned>>

-----------------------------------------------------------------------------
Admit(c) == Refuse(c) \/ AdmitApproved(c) \/ AdmitRejected(c) \/ AdmitPending(c)

Act(c) ==
  \/ LeaveRun(c) \/ Consume(c) \/ AskAgain(c) \/ LearnDecision(c)
  \/ Expire(c) \/ KeepWaiting(c)

Step(c) == Admit(c) \/ Read(c) \/ GiveUp(c) \/ Act(c)

Next ==
  \/ \E c \in Callers : Call(c) \/ Step(c) \/ Break(c) \/ Abort(c)
  \/ \E i \in Known : Decide(i) \/ Lapse(i)
  \/ List
  \/ SetRun

Spec == Init /\ [][Next]_vars

\* The loop polls every half second, and time passes.
FairSpec ==
  /\ Spec
  /\ \A c \in Callers : WF_vars(Step(c))
  /\ \A i \in Ids : WF_vars(i \in Known /\ Lapse(i))

-----------------------------------------------------------------------------
CallerStates ==
  {Idle} \cup
  [pc : {"asked"}, call : 1 .. MaxCalls, request : Requests, late : SUBSET Ids] \cup
  [pc : {"waiting"}, call : 1 .. MaxCalls, request : Requests, pending : Ids] \cup
  [pc : {"read"}, call : 1 .. MaxCalls, request : Requests, pending : Ids,
   seen : [running : BOOLEAN, status : Statuses, consumed : BOOLEAN]]

\* Everything is well typed, and a call waits for an approval of what it is about to do.
TypeOK ==
  /\ running \in BOOLEAN
  /\ approvals \in [Ids -> Approval \cup {NoApproval}]
  /\ caller \in [Callers -> CallerStates]
  /\ \A c \in Callers : Waits(c) =>
       /\ caller[c].pending \in Known
       /\ approvals[caller[c].pending].request = caller[c].request
  /\ aborted \subseteq Callers
  /\ calls \in 0 .. MaxCalls
  /\ executions \subseteq [call : 1 .. MaxCalls, request : Requests, approval : Ids]
  /\ abandoned \subseteq Ids

\* An approval lets one call through, however many calls with the same arguments wait for
\* it or arrive after it, and it is marked as consumed when it has done so.
OneExecutionPerApproval ==
  /\ \A e, f \in executions : e.approval = f.approval => e = f
  /\ \A i \in Known : approvals[i].consumed <=> \E e \in executions : e.approval = i

\* What executes was approved by a human, with the arguments it executes with; later
\* expiry, rejection of a further approval or the end of the run cannot blur who decided.
ExecutedWasApproved ==
  \A e \in executions :
    /\ e.approval \in Known
    /\ approvals[e.approval].request = e.request
    /\ approvals[e.approval].decision = "approved"

\* Whatever executes was approved, and the approval is used up by it.
ApprovedOnce == TypeOK /\ OneExecutionPerApproval /\ ExecutedWasApproved

\* A human is asked one question per tool at a time: a call joins the question about its
\* arguments, and closes one about other arguments.
OneQuestionPerTool ==
  \A i, j \in Known :
    /\ approvals[i].status = "pending" /\ approvals[j].status = "pending"
    /\ ToolOf(approvals[i].request) = ToolOf(approvals[j].request)
    => i = j

\* A pending approval has a call that waits for it, unless that call vanished with its
\* process or its database: an aborted, finished or refused call takes its question back.
QuestionsAreAttended ==
  \A i \in Known : approvals[i].status = "pending" =>
    i \in abandoned \/ \E c \in Callers : Waits(c) /\ caller[c].pending = i

\* A human sees the question that matters, and only while somebody waits for its answer.
QuestionsAreCurrent == OneQuestionPerTool /\ QuestionsAreAttended

\* While the run is running, a decision is neither changed nor withdrawn.
DecisionsAreFinal ==
  [][ running => \A i \in Known : approvals[i].decision # "none" =>
        /\ approvals'[i].decision = approvals[i].decision
        /\ approvals'[i].status = approvals[i].status ]_vars

\* Once a human has rejected a request, no call with these arguments is let through any
\* more, also after the rejection has expired.  What remains is an older approval that has
\* expired since the call took its time.
RejectionIsFinal ==
  [][ \A e \in executions' \ executions : \A j \in Known :
        /\ approvals[j].request = e.request /\ approvals[j].status = "rejected"
        => approvals[e.approval].lapsed ]_vars

\* Nothing that happens after a decision turns it round.
DecisionsStand == DecisionsAreFinal /\ RejectionIsFinal

\* No call waits for ever: it is decided, cancelled or runs into the expiry of its approval,
\* also when others use the approval it waits for.
EveryCallEnds == \A c \in Callers : caller[c] # Idle ~> caller[c] = Idle

=============================================================================
