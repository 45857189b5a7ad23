------------------------- MODULE ToolApprovalProofs -------------------------
(***************************************************************************)
(* The safety of ToolApproval, for any number of concurrent calls,         *)
(* requests and approvals.                                                 *)
(*                                                                         *)
(* StepForms reduces the steps to the five things they can do to the       *)
(* approvals, CallerMoves to the places they bring a call to.  The         *)
(* invariants about approvals follow from the former, those about what a   *)
(* call knows from the latter; QuestionsAreAttended needs both, and that   *)
(* an old snapshot of a settled approval is still right (SnapshotsAge).    *)
(***************************************************************************)
EXTENDS ToolApproval, TLAPS

\* The part of TypeOK the lemmas about approvals need.
ApprovalTypes == approvals \in [Ids -> Approval \cup {NoApproval}]

LEMMA KnownIsApproval ==
  ASSUME ApprovalTypes, NEW i \in Ids
  PROVE  /\ i \in Known <=> approvals[i] \in Approval
         /\ i \notin Known => approvals[i].status = "none"
         /\ i \in Known => /\ approvals[i].status \in Statuses
                           /\ approvals[i].request \in Requests
BY DEF ApprovalTypes, Known, Approval, NoApproval, Statuses

\* An approval stays as it is, or a pending one is closed without a decision.
Closed(old, new) ==
  \/ new = old
  \/ /\ old \in Approval /\ new \in Approval
     /\ old.status = "pending" /\ new.status \in {"expired", "cancelled"}
     /\ new.request = old.request /\ new.consumed = old.consumed
     /\ new.decision = old.decision /\ new.lapsed = old.lapsed

LEMMA StatusChange ==
  ASSUME NEW a \in Approval, NEW s \in Statuses
  PROVE  /\ WithStatus(a, s) \in Approval
         /\ WithStatus(a, s).status = s
         /\ s \in {"expired", "cancelled"} /\ a.status = "pending" =>
              Closed(a, WithStatus(a, s))
<1>1. WithStatus(a, s) = [request |-> a.request, status |-> s, consumed |-> a.consumed,
                                 decision |-> a.decision, lapsed |-> a.lapsed]
  BY DEF Approval, WithStatus
<1>2. WithStatus(a, s) \in Approval
  BY <1>1 DEF Approval
<1> QED
  BY <1>1, <1>2 DEF Closed

LEMMA SweptCloses ==
  ASSUME ApprovalTypes, NEW c \in Callers
  PROVE  /\ Swept(c) \in [Ids -> Approval \cup {NoApproval}]
         /\ \A i \in Ids : Closed(approvals[i], Swept(c)[i])
<1>1. ASSUME NEW i \in Ids
      PROVE  /\ Swept(c)[i] \in Approval \cup {NoApproval}
             /\ Closed(approvals[i], Swept(c)[i])
  <2>1. CASE Swept(c)[i] = approvals[i]
    BY <2>1 DEF ApprovalTypes, Closed
  <2>2. CASE Swept(c)[i] # approvals[i]
    <3>1. /\ approvals[i].status = "pending"
          /\ \/ Swept(c)[i] = WithStatus(approvals[i], "expired")
             \/ Swept(c)[i] = WithStatus(approvals[i], "cancelled")
      BY <2>2 DEF Swept
    <3>2. approvals[i] \in Approval
      BY <3>1, KnownIsApproval
    <3> QED
      BY <3>1, <3>2, StatusChange DEF Statuses
  <2> QED
    BY <2>1, <2>2
<1> QED
  BY <1>1 DEF Swept

LEMMA SettledCloses ==
  ASSUME ApprovalTypes, NEW i \in Known, NEW s \in {"expired", "cancelled"}
  PROVE  /\ Settled(i, s) \in [Ids -> Approval \cup {NoApproval}]
         /\ \A j \in Ids : Closed(approvals[j], Settled(i, s)[j])
         /\ Settled(i, s)[i].status # "pending"
<1> i \in Ids /\ approvals[i] \in Approval
  BY KnownIsApproval DEF Known
<1>1. /\ Settled(i, s)[i] = IF approvals[i].status = "pending" THEN WithStatus(approvals[i], s)
                         ELSE approvals[i]
      /\ \A j \in Ids \ {i} : Settled(i, s)[j] = approvals[j]
      /\ Settled(i, s) = [j \in Ids |-> Settled(i, s)[j]]
  BY DEF Settled, ApprovalTypes
<1>2. CASE approvals[i].status = "pending"
  <2>1. Settled(i, s)[i] = WithStatus(approvals[i], s)
    BY <1>1, <1>2
  <2>2. Closed(approvals[i], Settled(i, s)[i]) /\ Settled(i, s)[i] \in Approval
    BY <2>1, <1>2, StatusChange DEF Statuses
  <2>3. Settled(i, s)[i].status = s
    BY <2>1, StatusChange DEF Statuses
  <2> QED
    BY <1>1, <2>2, <2>3 DEF ApprovalTypes, Closed
<1>3. CASE approvals[i].status # "pending"
  <2>1. Settled(i, s)[i] = approvals[i]
    BY <1>1, <1>3
  <2> QED
    BY <1>1, <1>3, <2>1 DEF ApprovalTypes, Closed
<1> QED
  BY <1>2, <1>3

-----------------------------------------------------------------------------
(* What the steps do to the approvals *)

\* What an approval remembers of its past fits its status.
DecisionsRecorded ==
  \A i \in Known : LET a == approvals[i] IN
    /\ a.status = "pending" => a.decision = "none" /\ ~a.consumed
    /\ a.status \in {"approved", "rejected"} => a.decision = a.status
    /\ a.consumed => a.decision = "approved"

\* A snapshot that shows a settled approval is right for good.
SnapshotsAge ==
  \A c \in Callers : caller[c].pc = "read" /\ caller[c].seen.status # "pending" =>
    approvals[caller[c].pending].status # "pending"

\* What a call takes for expired has expired.
LateIsLapsed ==
  \A c \in Callers : caller[c].pc = "asked" =>
    \A i \in caller[c].late : i \in Known /\ approvals[i].lapsed

\* No question is asked about a rejected request, and what was approved and not used before
\* the question or the rejection has expired.
RejectedAlone ==
  \A i, j \in Known : i # j /\ approvals[i].request = approvals[j].request =>
    /\ approvals[i].status = "pending" => approvals[j].status # "rejected"
    /\ /\ approvals[i].status = "approved" /\ ~approvals[i].consumed
       /\ approvals[j].status \in {"pending", "rejected"}
       => approvals[i].lapsed

Inv ==
  /\ TypeOK
  /\ DecisionsRecorded /\ SnapshotsAge /\ LateIsLapsed /\ RejectedAlone
  /\ OneExecutionPerApproval /\ ExecutedWasApproved
  /\ OneQuestionPerTool /\ QuestionsAreAttended

\* The five things a step can do to the approvals.
Closes ==
  /\ \A i \in Ids : Closed(approvals[i], approvals'[i])
  /\ executions' = executions

Executes ==
  \E c \in Callers, i \in Known :
    /\ caller[c].pc # "idle"
    /\ approvals[i].status = "approved" /\ ~approvals[i].consumed
    /\ approvals[i].request = caller[c].request
    /\ approvals'[i] = Consumed(approvals[i])
    /\ \A j \in Ids \ {i} : Closed(approvals[j], approvals'[j])
    /\ executions' = executions \cup
         {[call |-> caller[c].call, request |-> caller[c].request, approval |-> i]}

Opens ==
  \E i \in Ids \ Known, r \in Requests :
    /\ approvals'[i] = NewApproval(r)
    /\ \A j \in Ids \ {i} :
         /\ Closed(approvals[j], approvals'[j])
         /\ approvals'[j].status = "pending" => ToolOf(approvals[j].request) # ToolOf(r)
    /\ \A j \in Known : approvals[j].request = r =>
         /\ approvals[j].status # "rejected"
         /\ approvals[j].status = "approved" /\ ~approvals[j].consumed =>
              \E c \in Callers : caller[c].pc = "asked" /\ j \in caller[c].late
    /\ executions' = executions

Decides ==
  \E i \in Known :
    /\ \/ ~running /\ approvals'[i] = WithStatus(approvals[i], "cancelled")
       \/ /\ approvals[i].status = "pending"
          /\ approvals'[i] \in {WithDecision(approvals[i], d) : d \in {"approved", "rejected"}}
    /\ \A j \in Ids \ {i} : approvals'[j] = approvals[j]
    /\ executions' = executions

Ages ==
  \E i \in Known :
    /\ approvals'[i] = [approvals[i] EXCEPT !.lapsed = TRUE]
    /\ \A j \in Ids \ {i} : approvals'[j] = approvals[j]
    /\ executions' = executions

LEMMA CallerFacts ==
  ASSUME TypeOK, NEW c \in Callers
  PROVE  /\ caller[c].pc = "idle" => caller[c] = Idle
         /\ caller[c].pc # "idle" =>
              caller[c].call \in 1 .. MaxCalls /\ caller[c].request \in Requests
         /\ caller[c].pc = "asked" => caller[c].late \in SUBSET Ids
         /\ Waits(c) => /\ caller[c].pending \in Known /\ caller[c].pending \in Ids
                        /\ approvals[caller[c].pending].request = caller[c].request
         /\ caller[c].pc = "read" =>
              caller[c].seen \in [running : BOOLEAN, status : Statuses, consumed : BOOLEAN]
         /\ caller[c].pc \in {"idle", "asked", "waiting", "read"}
BY DEF TypeOK, CallerStates, Idle, Waits, Known

LEMMA StepForms ==
  ASSUME TypeOK, Next
  PROVE  /\ approvals' \in [Ids -> Approval \cup {NoApproval}]
         /\ \/ Closes \/ Executes \/ Decides \/ Ages
            \/ Opens /\ \E c \in Callers : AdmitPending(c)
<1> USE DEF ApprovalTypes
<1>t. ApprovalTypes
  BY DEF TypeOK
<1>1. ASSUME approvals' = approvals, executions' = executions
      PROVE  approvals' \in [Ids -> Approval \cup {NoApproval}] /\ Closes
  BY <1>t, <1>1 DEF Closes, Closed
<1>2. ASSUME NEW c \in Callers, NEW s \in {"expired", "cancelled"}, Waits(c),
             approvals' = Settled(caller[c].pending, s), executions' = executions
      PROVE  approvals' \in [Ids -> Approval \cup {NoApproval}] /\ Closes
  BY <1>t, <1>2, CallerFacts, SettledCloses DEF Closes
<1>3. ASSUME NEW c \in Callers, Call(c) \/ Refuse(c) \/ Read(c) \/ AskAgain(c)
               \/ LearnDecision(c) \/ KeepWaiting(c) \/ Break(c) \/ Abort(c)
      PROVE  approvals' = approvals /\ executions' = executions
  BY <1>3 DEF Call, Refuse, Read, AskAgain, LearnDecision, KeepWaiting, Break, Abort
<1>4. ASSUME NEW c \in Callers, GiveUp(c) \/ LeaveRun(c) \/ Expire(c)
      PROVE  approvals' \in [Ids -> Approval \cup {NoApproval}] /\ Closes
  <2>1. Waits(c) /\ executions' = executions
    BY <1>4 DEF GiveUp, LeaveRun, Expire, TimedOut, SeenUsable, Reads, Waits
  <2>2. \/ approvals' = Settled(caller[c].pending, "cancelled")
        \/ approvals' = Settled(caller[c].pending, "expired")
    BY <1>4 DEF GiveUp, LeaveRun, Expire, TakenBack
  <2> QED
    BY <2>1, <2>2, <1>2
<1>5. ASSUME NEW c \in Callers, AdmitRejected(c)
      PROVE  approvals' \in [Ids -> Approval \cup {NoApproval}] /\ Closes
  BY <1>t, <1>5, SweptCloses DEF AdmitRejected, Closes
<1>6. ASSUME NEW a \in Approval
      PROVE  Consumed(a) \in Approval
  BY <1>6 DEF Consumed, Approval
<1>7. ASSUME NEW c \in Callers, AdmitApproved(c)
      PROVE  approvals' \in [Ids -> Approval \cup {NoApproval}] /\ Executes
  <2>1. PICK i \in Exact(c) : /\ approvals' = [Swept(c) EXCEPT ![i] = Consumed(@)]
                              /\ Uses(c, i)
    BY <1>7 DEF AdmitApproved
  <2>2. /\ i \in Known /\ i \in Ids /\ approvals[i].status = "approved"
        /\ ~approvals[i].consumed /\ approvals[i].request = caller[c].request
    BY <2>1 DEF Exact, Known
  <2>3. Swept(c)[i] = approvals[i]
    BY <2>2 DEF Swept
  <2>4. approvals[i] \in Approval
    BY <1>t, <2>2, KnownIsApproval
  <2>5. /\ approvals'[i] = Consumed(approvals[i])
        /\ \A j \in Ids \ {i} : approvals'[j] = Swept(c)[j]
        /\ approvals' \in [Ids -> Approval \cup {NoApproval}]
    BY <1>t, <1>6, <2>1, <2>2, <2>3, <2>4, SweptCloses
  <2> QED
    BY <1>t, <1>7, <2>1, <2>2, <2>5, SweptCloses DEF Executes, Uses, AdmitApproved
<1>8. ASSUME NEW c \in Callers, Consume(c)
      PROVE  approvals' \in [Ids -> Approval \cup {NoApproval}] /\ Executes
  <2> DEFINE i == caller[c].pending
  <2>1. /\ i \in Known /\ i \in Ids /\ approvals[i].request = caller[c].request
        /\ approvals[i] \in Approval
    BY <1>t, <1>8, CallerFacts, KnownIsApproval DEF Consume, SeenUsable, Reads, Waits
  <2>2. /\ approvals[i].status = "approved" /\ ~approvals[i].consumed
        /\ approvals' = [approvals EXCEPT ![i] = Consumed(@)]
        /\ Uses(c, i) /\ caller[c].pc # "idle"
    BY <1>8 DEF Consume, StillUsable, SeenUsable, Reads
  <2> HIDE DEF i
  <2>3. /\ approvals'[i] = Consumed(approvals[i])
        /\ \A j \in Ids \ {i} : approvals'[j] = approvals[j]
        /\ approvals' \in [Ids -> Approval \cup {NoApproval}]
    BY <1>t, <1>6, <2>1, <2>2
  <2> QED
    BY <2>1, <2>2, <2>3 DEF Executes, Uses, Closed
<1>9. ASSUME NEW c \in Callers, AdmitPending(c)
      PROVE  approvals' \in [Ids -> Approval \cup {NoApproval}] /\ (Closes \/ Opens)
  <2> DEFINE r == caller[c].request
  <2>1. PICK i \in Joinable(c) :
          approvals' = [Swept(c) EXCEPT ![i] = IF i \in Known THEN @ ELSE NewApproval(r)]
    BY <1>9 DEF AdmitPending
  <2>2. executions' = executions /\ r \in Requests
    BY <1>9, CallerFacts DEF AdmitPending
  <2>3. CASE Pending(c) # {}
    <3>1. i \in Known /\ i \in Ids
      BY <2>1, <2>3 DEF Joinable, Pending, Known
    <3>2. approvals' = Swept(c)
      BY <1>t, <2>1, <3>1, SweptCloses
    <3> QED
      BY <1>t, <2>2, <3>2, SweptCloses DEF Closes
  <2>4. CASE Pending(c) = {}
    <3>1. Known # Ids
      BY <1>9, <2>4 DEF AdmitPending
    <3>2. i = NewId
      BY <2>1, <2>4 DEF Joinable
    <3>3. i \in Ids /\ i \notin Known
      BY <3>1, <3>2 DEF NewId, Known
    <3>4. NewApproval(r) \in Approval
      BY <2>2 DEF NewApproval, Approval, Statuses
    <3>5. /\ approvals'[i] = NewApproval(r)
          /\ \A j \in Ids \ {i} : approvals'[j] = Swept(c)[j]
          /\ approvals' \in [Ids -> Approval \cup {NoApproval}]
      BY <1>t, <2>1, <3>3, <3>4, SweptCloses
    <3>6. ASSUME NEW j \in Ids, Swept(c)[j].status = "pending"
          PROVE  ToolOf(approvals[j].request) # ToolOf(r)
      <4>1. j \in Known /\ approvals[j].status = "pending" /\ approvals[j] \in Approval
        BY <1>t, <3>6, SweptCloses, KnownIsApproval DEF Closed
      <4>2. approvals[j].request # r
        BY <2>4, <3>6, <4>1 DEF Pending
      <4> QED
        BY <3>6, <4>1, <4>2, StatusChange DEF Swept, Statuses
    <3>7. ASSUME NEW j \in Known, approvals[j].request = r
          PROVE  /\ approvals[j].status # "rejected"
                 /\ approvals[j].status = "approved" /\ ~approvals[j].consumed =>
                      caller[c].pc = "asked" /\ j \in caller[c].late
      BY <1>9, <3>7 DEF AdmitPending, Exact, Rejected
    <3> QED
      BY <1>t, <2>2, <3>3, <3>5, <3>6, <3>7, SweptCloses DEF Opens
  <2> QED
    BY <2>3, <2>4
<1>10. ASSUME NEW i \in Known, Decide(i)
       PROVE  approvals' \in [Ids -> Approval \cup {NoApproval}] /\ (Closes \/ Decides)
  <2>1. i \in Ids /\ approvals[i] \in Approval
    BY <1>t, KnownIsApproval DEF Known
  <2>2. PICK d \in {"approved", "rejected"} : approvals' = Decided(i, d)
    BY <1>10 DEF Decide
  <2>3. /\ WithDecision(approvals[i], d) \in Approval
        /\ \A s \in Statuses : WithStatus(approvals[i], s) \in Approval
    BY <2>1, StatusChange DEF WithDecision, Approval, Statuses
  <2>4. /\ \A j \in Ids \ {i} : approvals'[j] = approvals[j]
        /\ approvals'[i] = IF ~running THEN WithStatus(approvals[i], "cancelled")
                           ELSE IF Decidable(i) THEN WithDecision(approvals[i], d)
                           ELSE IF approvals[i].status = "pending"
                                THEN WithStatus(approvals[i], "expired")
                           ELSE approvals[i]
        /\ approvals' = [j \in Ids |-> approvals'[j]]
    BY <1>t, <2>1, <2>2 DEF Decided
  <2>5. executions' = executions
    BY <1>10 DEF Decide
  <2>6. approvals' \in [Ids -> Approval \cup {NoApproval}]
    BY <1>t, <2>1, <2>3, <2>4 DEF Statuses
  <2>7. CASE ~running \/ Decidable(i)
    BY <2>4, <2>5, <2>6, <2>7 DEF Decides, Decidable
  <2>8. CASE running /\ ~Decidable(i)
    BY <1>t, <2>1, <2>4, <2>5, <2>6, <2>8, StatusChange DEF Closes, Closed, Statuses
  <2> QED
    BY <2>7, <2>8
<1>11. ASSUME NEW i \in Known, Lapse(i)
       PROVE  approvals' \in [Ids -> Approval \cup {NoApproval}] /\ Ages
  <2>1. i \in Ids /\ approvals[i] \in Approval
    BY <1>t, KnownIsApproval DEF Known
  <2>2. [approvals[i] EXCEPT !.lapsed = TRUE] \in Approval
    BY <2>1 DEF Approval
  <2> DEFINE new == [approvals[i] EXCEPT !.lapsed = TRUE]
  <2>3. approvals' = [approvals EXCEPT ![i] = new] /\ executions' = executions
    BY <1>11 DEF Lapse
  <2> HIDE DEF new
  <2>4. /\ approvals'[i] = new /\ \A j \in Ids \ {i} : approvals'[j] = approvals[j]
        /\ new \in Approval => approvals' \in [Ids -> Approval \cup {NoApproval}]
    BY <1>t, <2>1, <2>3
  <2> QED
    BY <2>2, <2>3, <2>4 DEF Ages, new
<1>12. ASSUME List
       PROVE  approvals' \in [Ids -> Approval \cup {NoApproval}] /\ Closes
  <2>1. ASSUME NEW i \in Ids
        PROVE  /\ approvals'[i] \in Approval \cup {NoApproval}
               /\ Closed(approvals[i], approvals'[i])
    <3>1. approvals'[i] = IF approvals[i].status = "pending" /\ approvals[i].lapsed
                          THEN WithStatus(approvals[i], "expired") ELSE approvals[i]
      BY <1>12 DEF List
    <3>2. approvals[i].status = "pending" => approvals[i] \in Approval
      BY <1>t, KnownIsApproval
    <3> QED
      BY <1>t, <3>1, <3>2, StatusChange DEF Statuses, Closed
  <2> QED
    BY <1>12, <2>1 DEF List, Closes
<1>13. SetRun => approvals' = approvals /\ executions' = executions
  BY DEF SetRun
<1> QED
  BY <1>1, <1>3, <1>4, <1>5, <1>7, <1>8, <1>9, <1>10, <1>11, <1>12, <1>13
  DEF Next, Step, Admit, Act

\* What the five forms have in common.
LEMMA Past ==
  ASSUME TypeOK, DecisionsRecorded, Next, NEW i \in Known
  PROVE  /\ i \in Known' /\ approvals'[i] \in Approval
         /\ approvals'[i].request = approvals[i].request
         /\ approvals[i].status # "pending" => approvals'[i].status # "pending"
         /\ approvals[i].lapsed => approvals'[i].lapsed
         /\ approvals[i].decision # "none" => approvals'[i].decision = approvals[i].decision
         /\ running /\ approvals[i].decision # "none" =>
              approvals'[i].status = approvals[i].status
<1>1. i \in Ids /\ approvals[i] \in Approval
  BY KnownIsApproval DEF Known, TypeOK, ApprovalTypes
<1>2. approvals'[i] \in Approval => i \in Known'
  BY <1>1 DEF Known, Approval, NoApproval
<1>3. approvals[i].decision # "none" => approvals[i].status # "pending"
  BY DEF DecisionsRecorded
<1>4. CASE Closed(approvals[i], approvals'[i])
  BY <1>1, <1>2, <1>3, <1>4 DEF Closed
<1>5. CASE approvals'[i] = Consumed(approvals[i])
  <2>1. /\ approvals'[i] \in Approval /\ approvals'[i].request = approvals[i].request
        /\ approvals'[i].status = approvals[i].status
        /\ approvals'[i].decision = approvals[i].decision
        /\ approvals'[i].lapsed = approvals[i].lapsed
    BY <1>1, <1>5 DEF Consumed, Approval
  <2> QED
    BY <1>2, <2>1
<1>6. CASE ~running /\ approvals'[i] = WithStatus(approvals[i], "cancelled")
  <2>1. /\ approvals'[i] \in Approval /\ approvals'[i].request = approvals[i].request
        /\ approvals'[i].status = "cancelled"
        /\ approvals'[i].decision = approvals[i].decision
        /\ approvals'[i].lapsed = approvals[i].lapsed
    BY <1>1, <1>6 DEF WithStatus, Approval, Statuses
  <2> QED
    BY <1>2, <1>6, <2>1
<1>7. ASSUME NEW d \in {"approved", "rejected"}, approvals[i].status = "pending",
             approvals'[i] = WithDecision(approvals[i], d)
      PROVE  /\ approvals'[i] \in Approval /\ approvals'[i].request = approvals[i].request
             /\ approvals[i].decision = "none" /\ approvals'[i].lapsed = approvals[i].lapsed
  BY <1>1, <1>3, <1>7 DEF WithDecision, Approval, Statuses
<1>8. CASE approvals'[i] = [approvals[i] EXCEPT !.lapsed = TRUE]
  <2>1. /\ approvals'[i] \in Approval /\ approvals'[i].request = approvals[i].request
        /\ approvals'[i].status = approvals[i].status
        /\ approvals'[i].decision = approvals[i].decision
        /\ approvals'[i].lapsed
    BY <1>1, <1>8 DEF Approval
  <2> QED
    BY <1>2, <2>1
<1>9. approvals'[i] = approvals[i] => Closed(approvals[i], approvals'[i])
  BY DEF Closed
<1>10. CASE Closes
  BY <1>1, <1>4, <1>10 DEF Closes
<1>11. CASE Executes
  BY <1>1, <1>4, <1>5, <1>11 DEF Executes
<1>12. CASE Opens
  BY <1>1, <1>4, <1>12 DEF Opens
<1>13. CASE Decides
  BY <1>1, <1>2, <1>4, <1>6, <1>7, <1>9, <1>13 DEF Decides
<1>14. CASE Ages
  BY <1>1, <1>4, <1>8, <1>9, <1>14 DEF Ages
<1> QED
  BY <1>10, <1>11, <1>12, <1>13, <1>14, StepForms

-----------------------------------------------------------------------------
(* What the steps do to the calls *)

\* A call moves to a well-typed place; if it waits there, it waits for an approval of its
\* request, and what it has just read is what the approval is.
Moves(c, s) ==
  /\ caller' = [caller EXCEPT ![c] = s]
  /\ s \in CallerStates
  /\ s.pc \in {"waiting", "read"} =>
       s.pending \in Known' /\ approvals'[s.pending].request = s.request
  /\ s.pc = "read" =>
       s.seen.status = approvals[s.pending].status /\ UNCHANGED approvals
  /\ s.pc = "asked" => s.late = {i \in Known : approvals[i].lapsed}

LEMMA CallerMoves ==
  ASSUME TypeOK, DecisionsRecorded, Next
  PROVE  \/ UNCHANGED <<caller, calls>> /\ aborted' \subseteq Callers
         \/ /\ \E c \in Callers, s \in CallerStates : Moves(c, s)
            /\ calls' \in 0 .. MaxCalls /\ aborted' \subseteq Callers
<1>1. Idle \in CallerStates /\ Idle.pc = "idle"
  BY DEF CallerStates, Idle
<1>2. ASSUME NEW n \in 1 .. MaxCalls, NEW r \in Requests
      PROVE  /\ Asked(n, r) \in CallerStates /\ Asked(n, r).pc = "asked"
             /\ Asked(n, r).late = {i \in Known : approvals[i].lapsed}
  BY <1>2 DEF Asked, CallerStates, Known
<1>3. ASSUME NEW n \in 1 .. MaxCalls, NEW r \in Requests, NEW i \in Ids
      PROVE  /\ Waiting(n, r, i) \in CallerStates /\ Waiting(n, r, i).pc = "waiting"
             /\ Waiting(n, r, i).pending = i /\ Waiting(n, r, i).request = r
  BY <1>3 DEF Waiting, CallerStates
<1>4. ASSUME NEW c \in Callers, Ends(c)
      PROVE  /\ \E s \in CallerStates : Moves(c, s)
             /\ calls' \in 0 .. MaxCalls /\ aborted' \subseteq Callers
  BY <1>1, <1>4 DEF Ends, Moves, TypeOK
<1>5. ASSUME NEW c \in Callers, Refuse(c) \/ AdmitApproved(c) \/ AdmitRejected(c) \/ GiveUp(c)
               \/ LeaveRun(c) \/ Consume(c) \/ LearnDecision(c) \/ Expire(c) \/ Break(c)
      PROVE  Ends(c)
  BY <1>5 DEF Refuse, AdmitApproved, AdmitRejected, GiveUp, LeaveRun, Consume,
              LearnDecision, Expire, Break, Uses
<1>6. ASSUME NEW c \in Callers, Call(c)
      PROVE  /\ \E s \in CallerStates : Moves(c, s)
             /\ calls' \in 0 .. MaxCalls /\ aborted' \subseteq Callers
  <2>1. calls + 1 \in 1 .. MaxCalls /\ calls' = calls + 1 /\ aborted' = aborted
    BY <1>6, ApprovalAssumption DEF Call, TypeOK
  <2>2. PICK r \in Requests : caller' = [caller EXCEPT ![c] = Asked(calls + 1, r)]
    BY <1>6 DEF Call
  <2>3. calls' \in 0 .. MaxCalls /\ aborted' \subseteq Callers
    BY <2>1 DEF TypeOK
  <2> QED
    BY <1>2, <2>1, <2>2, <2>3 DEF Moves
<1>7. ASSUME NEW c \in Callers, AskAgain(c)
      PROVE  \E s \in CallerStates : Moves(c, s)
  <2>1. caller[c].call \in 1 .. MaxCalls /\ caller[c].request \in Requests
    BY <1>7, CallerFacts DEF AskAgain, Reads
  <2>2. caller' = [caller EXCEPT ![c] = Asked(caller[c].call, caller[c].request)]
    BY <1>7 DEF AskAgain
  <2> QED
    BY <1>2, <2>1, <2>2 DEF Moves
<1>8. ASSUME NEW c \in Callers, KeepWaiting(c)
      PROVE  \E s \in CallerStates : Moves(c, s)
  <2>1. /\ caller[c].call \in 1 .. MaxCalls /\ caller[c].request \in Requests
        /\ caller[c].pending \in Known /\ caller[c].pending \in Ids
        /\ approvals[caller[c].pending].request = caller[c].request
    BY <1>8, CallerFacts DEF KeepWaiting, SeenUsable, Reads, Waits
  <2>2. /\ caller' = [caller EXCEPT ![c] =
               Waiting(caller[c].call, caller[c].request, caller[c].pending)]
        /\ approvals' = approvals
    BY <1>8 DEF KeepWaiting
  <2>3. Known' = Known
    BY <2>2 DEF Known
  <2> DEFINE i == caller[c].pending
             s == Waiting(caller[c].call, caller[c].request, i)
  <2>4. /\ s \in CallerStates /\ s.pc = "waiting" /\ s.pending = i
        /\ s.request = caller[c].request
    BY <1>3, <2>1
  <2>5. caller' = [caller EXCEPT ![c] = s]
    BY <2>2
  <2> HIDE DEF s
  <2> QED
    BY <2>1, <2>2, <2>3, <2>4, <2>5 DEF Moves
<1>9. ASSUME NEW c \in Callers, Read(c)
      PROVE  \E s \in CallerStates : Moves(c, s)
  <2> DEFINE i == caller[c].pending
             seen == [running |-> running, status |-> approvals[i].status,
                      consumed |-> approvals[i].consumed]
             s == [pc |-> "read", call |-> caller[c].call, request |-> caller[c].request,
                   pending |-> i, seen |-> seen]
  <2>1. /\ caller[c].call \in 1 .. MaxCalls /\ caller[c].request \in Requests
        /\ i \in Known /\ i \in Ids /\ approvals[i].request = caller[c].request
    BY <1>9, CallerFacts DEF Read, Waits
  <2>2. caller' = [caller EXCEPT ![c] = s] /\ approvals' = approvals
    BY <1>9 DEF Read
  <2>3. approvals[i] \in Approval /\ Known' = Known
    BY <2>1, <2>2, KnownIsApproval DEF TypeOK, ApprovalTypes, Known
  <2>4. seen \in [running : BOOLEAN, status : Statuses, consumed : BOOLEAN]
    BY <2>3 DEF TypeOK, Approval
  <2>5. s \in CallerStates
    BY <2>1, <2>4 DEF CallerStates
  <2>6. /\ s.pc = "read" /\ s.pending = i /\ s.request = caller[c].request
        /\ s.seen.status = approvals[i].status
    OBVIOUS
  <2> HIDE DEF s
  <2> QED
    BY <2>1, <2>2, <2>3, <2>5, <2>6 DEF Moves
<1>10. ASSUME NEW c \in Callers, AdmitPending(c)
       PROVE  \E s \in CallerStates : Moves(c, s)
  <2> DEFINE r == caller[c].request
  <2>1. PICK i \in Joinable(c) :
          /\ approvals' = [Swept(c) EXCEPT ![i] = IF i \in Known THEN @ ELSE NewApproval(r)]
          /\ caller' = [caller EXCEPT ![c] = Waiting(caller[c].call, r, i)]
    BY <1>10 DEF AdmitPending
  <2>2. caller[c].call \in 1 .. MaxCalls /\ r \in Requests
    BY <1>10, CallerFacts DEF AdmitPending
  <2>3. i \in Ids /\ (i \in Known => approvals[i].request = r)
    <3>1. CASE Pending(c) # {}
      BY <2>1, <3>1 DEF Joinable, Pending, Known
    <3>2. CASE Pending(c) = {}
      <4>1. Known # Ids
        BY <1>10, <3>2 DEF AdmitPending
      <4> QED
        BY <2>1, <3>2, <4>1 DEF Joinable, NewId, Known
    <3> QED
      BY <3>1, <3>2
  <2>4. i \in Known' /\ approvals'[i].request = r
    <3>1. CASE i \in Known
      BY <2>3, <3>1, Past
    <3>2. CASE i \notin Known
      <4>1. approvals'[i] = NewApproval(r)
        BY <2>1, <2>3, <3>2, SweptCloses DEF TypeOK, ApprovalTypes
      <4>2. approvals'[i] # NoApproval /\ approvals'[i].request = r
        BY <4>1 DEF NewApproval, NoApproval
      <4> QED
        BY <2>3, <4>2 DEF Known
    <3> QED
      BY <3>1, <3>2
  <2> DEFINE s == Waiting(caller[c].call, r, i)
  <2>5. /\ s \in CallerStates /\ s.pc = "waiting" /\ s.pending = i /\ s.request = r
    BY <1>3, <2>2, <2>3
  <2>6. caller' = [caller EXCEPT ![c] = s]
    BY <2>1
  <2> HIDE DEF s
  <2> QED
    BY <2>4, <2>5, <2>6 DEF Moves
<1>11. ASSUME NEW c \in Callers, AskAgain(c) \/ KeepWaiting(c) \/ Read(c) \/ AdmitPending(c)
       PROVE  calls' \in 0 .. MaxCalls /\ aborted' \subseteq Callers
  BY <1>11 DEF AskAgain, KeepWaiting, Read, AdmitPending, TypeOK
<1>12. ASSUME NEW c \in Callers, Abort(c)
       PROVE  UNCHANGED <<caller, calls>> /\ aborted' \subseteq Callers
  BY <1>12 DEF Abort, TypeOK
<1>13. ASSUME NEW i \in Known, Decide(i) \/ Lapse(i)
       PROVE  UNCHANGED <<caller, calls>> /\ aborted' \subseteq Callers
  BY <1>13 DEF Decide, Lapse, TypeOK
<1>14. ASSUME List \/ SetRun
       PROVE  UNCHANGED <<caller, calls>> /\ aborted' \subseteq Callers
  BY <1>14 DEF List, SetRun, TypeOK
<1> QED
  BY <1>4, <1>5, <1>6, <1>7, <1>8, <1>9, <1>10, <1>11, <1>12, <1>13, <1>14
  DEF Next, Step, Admit, Act

LEMMA TypeStep ==
  ASSUME TypeOK, DecisionsRecorded, SnapshotsAge, LateIsLapsed, Next
  PROVE  TypeOK' /\ SnapshotsAge' /\ LateIsLapsed'
<1>1. running' \in BOOLEAN
  BY DEF TypeOK, Next, Step, Admit, Act, Call, Refuse, AdmitApproved, AdmitRejected,
         AdmitPending, Read, GiveUp, LeaveRun, Consume, AskAgain, LearnDecision, Expire,
         KeepWaiting, Break, Abort, Decide, Lapse, List, SetRun, Uses, Ends
<1>2. approvals' \in [Ids -> Approval \cup {NoApproval}]
  BY StepForms
<1>3. /\ caller' \in [Callers -> CallerStates]
      /\ \A b \in Callers :
           /\ Waits(b)' => /\ (caller[b].pending \in Known)'
                           /\ (approvals[caller[b].pending].request = caller[b].request)'
           /\ (caller[b].pc = "read" /\ caller[b].seen.status # "pending")' =>
                (approvals[caller[b].pending].status # "pending")'
           /\ (caller[b].pc = "asked")' =>
                \A i \in caller'[b].late : i \in Known' /\ approvals'[i].lapsed
      /\ calls' \in 0 .. MaxCalls /\ aborted' \subseteq Callers
  <2>1. ASSUME NEW b \in Callers, caller'[b] = caller[b]
        PROVE  /\ Waits(b)' => /\ (caller[b].pending \in Known)'
                               /\ (approvals[caller[b].pending].request = caller[b].request)'
               /\ (caller[b].pc = "read" /\ caller[b].seen.status # "pending")' =>
                    (approvals[caller[b].pending].status # "pending")'
               /\ (caller[b].pc = "asked")' =>
                    \A i \in caller'[b].late : i \in Known' /\ approvals'[i].lapsed
    BY <2>1, CallerFacts, Past DEF Waits, SnapshotsAge, LateIsLapsed
  <2>2. CASE UNCHANGED <<caller, calls>> /\ aborted' \subseteq Callers
    BY <2>1, <2>2 DEF TypeOK
  <2>3. ASSUME NEW c \in Callers, NEW s \in CallerStates, Moves(c, s),
               calls' \in 0 .. MaxCalls, aborted' \subseteq Callers
        PROVE  <1>3!1 /\ <1>3!2 /\ <1>3!3
    <3>1. /\ caller' \in [Callers -> CallerStates] /\ caller'[c] = s
          /\ \A b \in Callers \ {c} : caller'[b] = caller[b]
      BY <2>3 DEF Moves, TypeOK
    <3>2. s.pc = "read" /\ s.seen.status # "pending" =>
            approvals'[s.pending].status # "pending"
      BY <2>3 DEF Moves
    <3>3. s.pc = "asked" => \A i \in s.late : i \in Known' /\ approvals'[i].lapsed
      BY <2>3, Past DEF Moves
    <3> QED
      BY <2>1, <2>3, <3>1, <3>2, <3>3 DEF Moves, Waits
  <2> QED
    BY <2>2, <2>3, CallerMoves
<1>4. executions' \subseteq [call : 1 .. MaxCalls, request : Requests, approval : Ids]
  <2>1. CASE Executes
    BY <2>1, CallerFacts DEF Executes, TypeOK, Known
  <2> QED
    BY <2>1, StepForms DEF TypeOK, Closes, Opens, Decides, Ages
<1>5. abandoned' \subseteq Ids
  BY DEF TypeOK, Known, Next, Step, Admit, Act, Call, Refuse, AdmitApproved, AdmitRejected,
         AdmitPending, Read, GiveUp, LeaveRun, Consume, AskAgain, LearnDecision, Expire,
         KeepWaiting, Break, Abort, Decide, Lapse, List, SetRun, Uses
<1> QED
  BY <1>1, <1>2, <1>3, <1>4, <1>5 DEF TypeOK, SnapshotsAge, LateIsLapsed

-----------------------------------------------------------------------------
(* What was decided and what was executed *)

\* How an approval can come out of a step that executes nothing.
Outcome(old, new) ==
  \/ Closed(old, new)
  \/ ~running /\ new = WithStatus(old, "cancelled")
  \/ old.status = "pending" /\ \E d \in {"approved", "rejected"} : new = WithDecision(old, d)
  \/ new = [old EXCEPT !.lapsed = TRUE]

LEMMA Outcomes ==
  ASSUME TypeOK, Closes \/ Opens \/ Decides \/ Ages, NEW i \in Ids
  PROVE  /\ \/ i \in Known /\ Outcome(approvals[i], approvals'[i])
            \/ i \notin Known /\ i \notin Known'
            \/ i \notin Known /\ \E r \in Requests : approvals'[i] = NewApproval(r)
         /\ executions' = executions
<1>1. Closed(approvals[i], approvals'[i]) /\ i \notin Known => i \notin Known'
  BY KnownIsApproval DEF Closed, Known, TypeOK, ApprovalTypes
<1>2. approvals'[i] = approvals[i] => Closed(approvals[i], approvals'[i])
  BY DEF Closed
<1>3. Closed(approvals[i], approvals'[i]) => Outcome(approvals[i], approvals'[i])
  BY DEF Outcome
<1>4. CASE Closes
  BY <1>1, <1>3, <1>4 DEF Closes
<1>5. CASE Opens
  BY <1>1, <1>3, <1>5 DEF Opens
<1>6. CASE Decides
  <2>1. PICK j \in Known :
          /\ \/ ~running /\ approvals'[j] = WithStatus(approvals[j], "cancelled")
             \/ /\ approvals[j].status = "pending"
                /\ approvals'[j] \in {WithDecision(approvals[j], d) : d \in {"approved", "rejected"}}
          /\ \A k \in Ids \ {j} : approvals'[k] = approvals[k]
          /\ executions' = executions
    BY <1>6 DEF Decides
  <2>2. CASE i = j
    BY <2>1, <2>2 DEF Outcome
  <2>3. CASE i # j
    BY <1>1, <1>2, <1>3, <2>1, <2>3
  <2> QED
    BY <2>2, <2>3
<1>7. CASE Ages
  BY <1>1, <1>2, <1>3, <1>7 DEF Ages, Outcome
<1> QED
  BY <1>4, <1>5, <1>6, <1>7

LEMMA OutcomeKeeps ==
  ASSUME NEW old \in Approval, NEW new, Outcome(old, new)
  PROVE  new.consumed = old.consumed
BY DEF Outcome, Closed, WithStatus, WithDecision, Approval

LEMMA DecisionStep ==
  ASSUME TypeOK, DecisionsRecorded, Next
  PROVE  DecisionsRecorded'
<1> DEFINE Fits(a) == /\ a.status = "pending" => a.decision = "none" /\ ~a.consumed
                      /\ a.status \in {"approved", "rejected"} => a.decision = a.status
                      /\ a.consumed => a.decision = "approved"
<1>1. ASSUME NEW old \in Approval, NEW new, Fits(old), Outcome(old, new)
      PROVE  Fits(new)
  <2>1. CASE Closed(old, new)
    BY <1>1, <2>1 DEF Closed
  <2>2. CASE new = WithStatus(old, "cancelled")
    BY <1>1, <2>2 DEF WithStatus, Approval
  <2>3. ASSUME old.status = "pending", NEW d \in {"approved", "rejected"},
               new = WithDecision(old, d)
        PROVE  Fits(new)
    BY <1>1, <2>3 DEF WithDecision, Approval
  <2>4. CASE new = [old EXCEPT !.lapsed = TRUE]
    BY <1>1, <2>4 DEF Approval
  <2> QED
    BY <1>1, <2>1, <2>2, <2>3, <2>4 DEF Outcome
<1>2. ASSUME NEW r \in Requests
      PROVE  Fits(NewApproval(r))
  BY DEF NewApproval
<1>3. ASSUME NEW old \in Approval, Fits(old), old.status = "approved"
      PROVE  Fits(Consumed(old))
  BY <1>3 DEF Consumed, Approval
<1> HIDE DEF Fits
<1>4. \A i \in Known : approvals[i] \in Approval /\ Fits(approvals[i])
  BY KnownIsApproval DEF DecisionsRecorded, Fits, TypeOK, ApprovalTypes, Known
<1>5. \A i \in Known' : Fits(approvals'[i])
  <2>1. CASE Executes
    <3>1. PICK i \in Known :
            /\ approvals[i].status = "approved" /\ approvals'[i] = Consumed(approvals[i])
            /\ \A j \in Ids \ {i} : Closed(approvals[j], approvals'[j])
      BY <2>1 DEF Executes
    <3>2. Fits(approvals'[i])
      BY <1>3, <1>4, <3>1
    <3>3. ASSUME NEW j \in Known', j # i
          PROVE  Fits(approvals'[j])
      <4>1. Closed(approvals[j], approvals'[j]) /\ j \in Ids
        BY <3>1, <3>3 DEF Known
      <4>2. j \in Known
        BY <3>3, <4>1, KnownIsApproval DEF Closed, Known, TypeOK, ApprovalTypes
      <4> QED
        BY <1>1, <1>4, <4>1, <4>2 DEF Outcome
    <3> QED
      BY <3>2, <3>3
  <2> QED
    BY <1>1, <1>2, <1>4, <2>1, Outcomes, StepForms DEF Known
<1> QED
  BY <1>5 DEF DecisionsRecorded, Fits

LEMMA ExecutionStep ==
  ASSUME TypeOK, DecisionsRecorded, OneExecutionPerApproval, ExecutedWasApproved, Next
  PROVE  OneExecutionPerApproval' /\ ExecutedWasApproved'
<1>1. \A i \in Known : approvals[i] \in Approval /\ i \in Ids
  BY KnownIsApproval DEF Known, TypeOK, ApprovalTypes
<1>2. CASE Executes
  <2>1. PICK c \in Callers, i \in Known :
          /\ approvals[i].status = "approved" /\ ~approvals[i].consumed
          /\ approvals[i].request = caller[c].request
          /\ approvals'[i] = Consumed(approvals[i])
          /\ \A j \in Ids \ {i} : Closed(approvals[j], approvals'[j])
          /\ executions' = executions \cup
               {[call |-> caller[c].call, request |-> caller[c].request, approval |-> i]}
    BY <1>2 DEF Executes
  <2> DEFINE x == [call |-> caller[c].call, request |-> caller[c].request, approval |-> i]
  <2>2. x.approval = i /\ x.request = approvals[i].request
    BY <2>1
  <2>3. \A e \in executions : e.approval # i
    BY <2>1 DEF OneExecutionPerApproval
  <2>4. approvals'[i].consumed /\ approvals[i].decision = "approved"
    BY <1>1, <2>1 DEF Consumed, Approval, DecisionsRecorded
  <2>5. ASSUME NEW j \in Known', j # i
        PROVE  j \in Known /\ approvals'[j].consumed = approvals[j].consumed
    <3>1. Closed(approvals[j], approvals'[j]) /\ j \in Ids
      BY <2>1, <2>5 DEF Known
    <3> QED
      BY <2>5, <3>1, KnownIsApproval DEF Closed, Known, TypeOK, ApprovalTypes
  <2> HIDE DEF x
  <2>6. executions' = executions \cup {x}
    BY <2>1 DEF x
  <2>7. OneExecutionPerApproval'
    BY <2>2, <2>3, <2>4, <2>5, <2>6 DEF OneExecutionPerApproval
  <2>8. ExecutedWasApproved'
    BY <2>1, <2>2, <2>4, <2>6, Past DEF ExecutedWasApproved
  <2> QED
    BY <2>7, <2>8
<1>3. CASE Closes \/ Opens \/ Decides \/ Ages
  <2>1. executions' = executions
    BY <1>3 DEF Closes, Opens, Decides, Ages
  <2>2. ASSUME NEW i \in Known'
        PROVE  /\ i \in Known => approvals'[i].consumed = approvals[i].consumed
               /\ i \notin Known => ~approvals'[i].consumed
    <3>1. i \in Ids
      BY DEF Known
    <3>2. \/ i \in Known /\ Outcome(approvals[i], approvals'[i])
          \/ i \notin Known /\ \E r \in Requests : approvals'[i] = NewApproval(r)
      BY <1>3, <3>1, Outcomes
    <3>3. ASSUME NEW r \in Requests
          PROVE  ~NewApproval(r).consumed
      BY DEF NewApproval
    <3> QED
      BY <1>1, <3>2, <3>3, OutcomeKeeps
  <2>3. OneExecutionPerApproval'
    BY <2>1, <2>2 DEF OneExecutionPerApproval, ExecutedWasApproved
  <2>4. ExecutedWasApproved'
    BY <2>1, Past DEF ExecutedWasApproved
  <2> QED
    BY <2>3, <2>4
<1> QED
  BY <1>2, <1>3, StepForms

-----------------------------------------------------------------------------
(* Questions *)

LEMMA QuestionStep ==
  ASSUME TypeOK, DecisionsRecorded, OneQuestionPerTool, Next
  PROVE  OneQuestionPerTool'
<1>1. ASSUME NEW i \in Known, approvals'[i].status = "pending"
      PROVE  approvals[i].status = "pending" /\ approvals'[i].request = approvals[i].request
  BY <1>1, Past
<1>2. CASE Opens
  <2>1. PICK n \in Ids \ Known, r \in Requests :
          /\ approvals'[n] = NewApproval(r)
          /\ \A j \in Ids \ {n} :
               /\ Closed(approvals[j], approvals'[j])
               /\ approvals'[j].status = "pending" => ToolOf(approvals[j].request) # ToolOf(r)
    BY <1>2 DEF Opens
  <2>2. approvals'[n].request = r
    BY <2>1 DEF NewApproval
  <2>3. ASSUME NEW i \in Known', i # n
        PROVE  i \in Known /\ i \in Ids
    BY <2>1, <2>3, KnownIsApproval DEF Closed, Known, TypeOK, ApprovalTypes
  <2> QED
    BY <1>1, <2>1, <2>2, <2>3 DEF OneQuestionPerTool
<1>3. CASE ~Opens
  <2>1. Known' \subseteq Known
    <3>1. ASSUME NEW i \in Ids, i \notin Known
          PROVE  Closed(approvals[i], approvals'[i])
      BY <1>3, <3>1, StepForms DEF Closes, Executes, Decides, Ages, Closed
    <3> QED
      BY <3>1, KnownIsApproval DEF Closed, Known, TypeOK, ApprovalTypes
  <2> QED
    BY <1>1, <2>1 DEF OneQuestionPerTool
<1> QED
  BY <1>2, <1>3

\* A call that stops waiting for a pending approval settles it, or is lost.
LEMMA LeavesNoQuestion ==
  ASSUME TypeOK, DecisionsRecorded, SnapshotsAge, NEW c \in Callers, Waits(c), Next,
         Call(c) \/ Step(c) \/ Break(c),
         approvals'[caller[c].pending].status = "pending"
  PROVE  \/ Waits(c)' /\ caller'[c].pending = caller[c].pending
         \/ caller[c].pending \in abandoned'
<1> DEFINE i == caller[c].pending
<1>1. i \in Known /\ i \in Ids /\ approvals[i].status = "pending"
  BY CallerFacts, Past
<1>2. caller \in [Callers -> CallerStates] /\ ApprovalTypes
  BY DEF TypeOK, ApprovalTypes
<1>3. CASE Call(c) \/ Admit(c)
  BY <1>3 DEF Call, Admit, Refuse, AdmitApproved, AdmitRejected, AdmitPending, Waits, Idle
<1>4. CASE Read(c)
  BY <1>2, <1>4 DEF Read, Waits
<1>5. CASE GiveUp(c) \/ LeaveRun(c) \/ Expire(c)
  <2>1. approvals' = Settled(i, "cancelled") \/ approvals' = Settled(i, "expired")
    BY <1>5 DEF GiveUp, LeaveRun, Expire, TakenBack
  <2> QED
    BY <1>1, <1>2, <2>1, SettledCloses
<1>6. CASE Consume(c)
  BY <1>1, <1>6 DEF Consume, StillUsable
<1>7. CASE AskAgain(c) \/ LearnDecision(c)
  BY <1>1, <1>7 DEF AskAgain, LearnDecision, Reads, SnapshotsAge
<1>8. CASE KeepWaiting(c)
  BY <1>2, <1>8 DEF KeepWaiting, Waits, Waiting
<1>9. CASE Break(c)
  BY <1>1, <1>9 DEF Break
<1> QED
  BY <1>3, <1>4, <1>5, <1>6, <1>7, <1>8, <1>9 DEF Step, Act

LEMMA AttendedStep ==
  ASSUME TypeOK, DecisionsRecorded, SnapshotsAge, QuestionsAreAttended, Next
  PROVE  QuestionsAreAttended'
<1>1. abandoned \subseteq abandoned'
  BY DEF Next, Step, Admit, Act, Call, Refuse, AdmitApproved, AdmitRejected,
         AdmitPending, Read, GiveUp, LeaveRun, Consume, AskAgain, LearnDecision, Expire,
         KeepWaiting, Break, Abort, Decide, Lapse, List, SetRun, Uses
<1>2. ASSUME NEW i \in Known, approvals'[i].status = "pending"
      PROVE  i \in abandoned' \/ \E c \in Callers : Waits(c)' /\ caller'[c].pending = i
  <2>1. approvals[i].status = "pending"
    BY <1>2, Past
  <2>2. CASE i \in abandoned
    BY <1>1, <2>2
  <2>3. ASSUME NEW c \in Callers, Waits(c), caller[c].pending = i
        PROVE  i \in abandoned' \/ (Waits(c)' /\ caller'[c].pending = i)
    <3>1. CASE caller'[c] = caller[c]
      BY <2>3, <3>1 DEF Waits
    <3>2. CASE Call(c) \/ Step(c) \/ Break(c)
      BY <1>2, <2>3, <3>2, LeavesNoQuestion
    <3>3. CASE Abort(c) \/ List \/ SetRun \/ \E j \in Known : Decide(j) \/ Lapse(j)
      BY <3>1, <3>3 DEF Abort, List, SetRun, Decide, Lapse
    <3>4. ASSUME NEW b \in Callers, b # c, Call(b) \/ Step(b) \/ Break(b) \/ Abort(b)
          PROVE  caller'[c] = caller[c]
      BY <3>4 DEF TypeOK, Step, Admit, Act, Call, Refuse, AdmitApproved, AdmitRejected,
             AdmitPending, Read, GiveUp, LeaveRun, Consume, AskAgain, LearnDecision, Expire,
             KeepWaiting, Break, Abort, Uses, Ends
    <3> QED
      BY <3>1, <3>2, <3>3, <3>4 DEF Next
  <2> QED
    BY <2>1, <2>2, <2>3 DEF QuestionsAreAttended
<1>3. ASSUME NEW i \in Known', i \notin Known
      PROVE  \E c \in Callers : Waits(c)' /\ caller'[c].pending = i
  <2>1. ASSUME NEW c \in Callers, AdmitPending(c)
        PROVE  Waits(c)' /\ caller'[c].pending = i
    <3>1. PICK j \in Joinable(c) :
            /\ approvals' = [Swept(c) EXCEPT ![j] =
                             IF j \in Known THEN @ ELSE NewApproval(caller[c].request)]
            /\ caller' = [caller EXCEPT ![c] = Waiting(caller[c].call, caller[c].request, j)]
      BY <2>1 DEF AdmitPending
    <3>2. CASE i = j
      BY <3>1, <3>2 DEF TypeOK, Waits, Waiting
    <3>3. CASE i # j
      <4>1. i \in Ids /\ approvals'[i] = Swept(c)[i]
        BY <3>1, <3>3, SweptCloses DEF TypeOK, ApprovalTypes, Known
      <4>2. Closed(approvals[i], approvals'[i])
        BY <4>1, SweptCloses DEF TypeOK, ApprovalTypes
      <4> QED
        BY <1>3, <4>1, <4>2, KnownIsApproval DEF Closed, Known, TypeOK, ApprovalTypes
    <3> QED
      BY <3>2, <3>3
  <2>2. ASSUME \A c \in Callers : ~AdmitPending(c)
        PROVE  FALSE
    <3>1. Closes \/ Executes \/ Decides \/ Ages
      BY <2>2, StepForms
    <3>2. Closed(approvals[i], approvals'[i])
      BY <1>3, <3>1 DEF Closes, Executes, Decides, Ages, Closed, Known
    <3> QED
      BY <1>3, <3>2, KnownIsApproval DEF Closed, Known, TypeOK, ApprovalTypes
  <2> QED
    BY <2>1, <2>2
<1> QED
  BY <1>2, <1>3 DEF QuestionsAreAttended

-----------------------------------------------------------------------------
(* Rejections *)

LEMMA RejectionStep ==
  ASSUME TypeOK, DecisionsRecorded, OneQuestionPerTool, LateIsLapsed, RejectedAlone, Next
  PROVE  RejectedAlone'
<1> DEFINE Apart(a, b) ==
       /\ a.status = "pending" => b.status # "rejected"
       /\ /\ a.status = "approved" /\ ~a.consumed
          /\ b.status \in {"pending", "rejected"}
          => a.lapsed
\* A step that changes neither decision nor question of a leaves it apart from the others.
     Same(a, b) == /\ b.status = a.status \/ b.status \in {"expired", "cancelled"}
                   /\ a.consumed => b.consumed
                   /\ a.lapsed => b.lapsed
<1>1. ASSUME NEW i \in Known, NEW j \in Known, i # j,
             approvals[i].request = approvals[j].request,
             Same(approvals[i], approvals'[i]), Same(approvals[j], approvals'[j])
      PROVE  Apart(approvals'[i], approvals'[j])
  BY <1>1 DEF RejectedAlone
<1>2. ASSUME NEW i \in Ids, Closed(approvals[i], approvals'[i])
      PROVE  Same(approvals[i], approvals'[i]) /\ (i \in Known' => i \in Known)
  BY <1>2, KnownIsApproval DEF Closed, Known, TypeOK, ApprovalTypes
<1>3. \A i \in Known : /\ i \in Ids /\ approvals[i] \in Approval
                       /\ approvals'[i].request = approvals[i].request
  BY KnownIsApproval, Past DEF Known, TypeOK, ApprovalTypes
<1> SUFFICES ASSUME NEW i \in Known', NEW j \in Known', i # j,
                    approvals'[i].request = approvals'[j].request
             PROVE  Apart(approvals'[i], approvals'[j])
  BY DEF RejectedAlone
<1>4. i \in Ids /\ j \in Ids
  BY DEF Known
<1>5. CASE Closes
  BY <1>1, <1>2, <1>3, <1>4, <1>5 DEF Closes
<1>6. CASE Executes
  <2>1. PICK k \in Known : /\ approvals'[k] = Consumed(approvals[k])
                           /\ \A n \in Ids \ {k} : Closed(approvals[n], approvals'[n])
    BY <1>6 DEF Executes
  <2>2. Same(approvals[k], approvals'[k])
    BY <1>3, <2>1 DEF Consumed, Approval
  <2>3. /\ i \in Known /\ Same(approvals[i], approvals'[i])
        /\ j \in Known /\ Same(approvals[j], approvals'[j])
    BY <1>2, <1>4, <2>1, <2>2
  <2> QED
    BY <1>1, <1>3, <2>3
<1>7. CASE Ages
  <2>1. PICK k \in Known : /\ approvals'[k] = [approvals[k] EXCEPT !.lapsed = TRUE]
                           /\ \A n \in Ids \ {k} : approvals'[n] = approvals[n]
    BY <1>7 DEF Ages
  <2>2. Same(approvals[k], approvals'[k])
    BY <1>3, <2>1 DEF Approval
  <2>3. /\ i \in Known /\ Same(approvals[i], approvals'[i])
        /\ j \in Known /\ Same(approvals[j], approvals'[j])
    BY <1>2, <1>4, <2>1, <2>2 DEF Closed
  <2> QED
    BY <1>1, <1>3, <2>3
<1>8. CASE Opens
  <2>1. PICK n \in Ids \ Known, r \in Requests :
          /\ approvals'[n] = NewApproval(r)
          /\ \A k \in Ids \ {n} : Closed(approvals[k], approvals'[k])
          /\ \A k \in Known : approvals[k].request = r =>
               /\ approvals[k].status # "rejected"
               /\ approvals[k].status = "approved" /\ ~approvals[k].consumed =>
                    \E c \in Callers : caller[c].pc = "asked" /\ k \in caller[c].late
    BY <1>8 DEF Opens
  <2>2. approvals'[n].status = "pending" /\ approvals'[n].request = r
    BY <2>1 DEF NewApproval
  <2>3. \A k \in Known' \ {n} : k \in Known /\ Same(approvals[k], approvals'[k])
    BY <1>2, <2>1 DEF Known
  <2>4. CASE i # n /\ j # n
    BY <1>1, <1>3, <2>3, <2>4
  <2>5. CASE i = n
    <3>1. j \in Known /\ approvals[j].request = r /\ Same(approvals[j], approvals'[j])
      BY <1>3, <2>2, <2>3, <2>5
    <3> QED
      BY <2>1, <2>2, <2>5, <3>1
  <2>6. CASE j = n
    <3>1. i \in Known /\ approvals[i].request = r /\ Same(approvals[i], approvals'[i])
      BY <1>3, <2>2, <2>3, <2>6
    <3>2. approvals[i].status = "approved" /\ ~approvals[i].consumed => approvals[i].lapsed
      BY <2>1, <3>1 DEF LateIsLapsed
    <3> QED
      BY <2>2, <2>6, <3>1, <3>2
  <2> QED
    BY <2>4, <2>5, <2>6
<1>9. CASE Decides
  <2>1. PICK k \in Known :
          /\ \/ ~running /\ approvals'[k] = WithStatus(approvals[k], "cancelled")
             \/ /\ approvals[k].status = "pending"
                /\ approvals'[k] \in {WithDecision(approvals[k], d) : d \in {"approved", "rejected"}}
          /\ \A n \in Ids \ {k} : approvals'[n] = approvals[n]
    BY <1>9 DEF Decides
  <2>2. \A n \in Ids \ {k} : Same(approvals[n], approvals'[n]) /\ (n \in Known' => n \in Known)
    BY <2>1 DEF Known
  <2>3. i \in Known /\ j \in Known
    BY <1>4, <2>2
  <2>4. CASE approvals'[k] = WithStatus(approvals[k], "cancelled")
    <3>1. Same(approvals[k], approvals'[k])
      BY <1>3, <2>4 DEF WithStatus, Approval
    <3> QED
      BY <1>1, <1>3, <1>4, <2>2, <2>3, <3>1
  <2>5. ASSUME approvals[k].status = "pending", NEW d \in {"approved", "rejected"},
               approvals'[k] = WithDecision(approvals[k], d)
        PROVE  Apart(approvals'[i], approvals'[j])
    <3>1. approvals'[k].status = d /\ approvals'[k].consumed = approvals[k].consumed
      BY <1>3, <2>5 DEF WithDecision, Approval
    <3>2. ASSUME NEW n \in Known, n # k, approvals[n].request = approvals[k].request
          PROVE  /\ approvals[n].status \notin {"pending", "rejected"}
                 /\ approvals[n].status = "approved" /\ ~approvals[n].consumed =>
                      approvals[n].lapsed
      BY <2>5, <3>2 DEF OneQuestionPerTool, RejectedAlone
    <3>3. CASE i # k /\ j # k
      BY <1>1, <1>3, <1>4, <2>2, <2>3, <3>3
    <3>4. CASE i = k
      BY <1>3, <1>4, <2>1, <2>3, <3>1, <3>2, <3>4
    <3>5. CASE j = k
      BY <1>3, <1>4, <2>1, <2>3, <3>1, <3>2, <3>5
    <3> QED
      BY <3>3, <3>4, <3>5
  <2> QED
    BY <2>1, <2>4, <2>5
<1> QED
  BY <1>5, <1>6, <1>7, <1>8, <1>9, StepForms

-----------------------------------------------------------------------------
(* The theorems *)

LEMMA Initially ==
  Init => Inv
<1> SUFFICES ASSUME Init PROVE Inv
  OBVIOUS
<1>1. Known = {}
  BY DEF Init, Known
<1>2. \A c \in Callers : caller[c] = Idle /\ caller[c].pc = "idle"
  BY DEF Init, Idle
<1>3. TypeOK
  BY <1>2, ApprovalAssumption DEF Init, TypeOK, CallerStates, Waits, Idle
<1> QED
  BY <1>1, <1>2, <1>3 DEF Init, Inv, DecisionsRecorded, SnapshotsAge, OneExecutionPerApproval,
     ExecutedWasApproved, OneQuestionPerTool, QuestionsAreAttended, LateIsLapsed, RejectedAlone

LEMMA Inductive ==
  Inv /\ [Next]_vars => Inv'
<1> SUFFICES ASSUME Inv, [Next]_vars PROVE Inv'
  OBVIOUS
<1>1. CASE Next
  BY <1>1, TypeStep, DecisionStep, ExecutionStep, QuestionStep, AttendedStep, RejectionStep DEF Inv
<1>2. CASE UNCHANGED vars
  BY <1>2 DEF vars, Inv, TypeOK, CallerStates, Waits, Known, DecisionsRecorded, SnapshotsAge,
     OneExecutionPerApproval, ExecutedWasApproved, OneQuestionPerTool, QuestionsAreAttended,
     LateIsLapsed, RejectedAlone
<1> QED
  BY <1>1, <1>2

LEMMA Invariance == Spec => []Inv
BY Initially, Inductive, PTL DEF Spec

\* Every reachable state of calls and approvals is well typed, and no call ever waits for an
\* approval of something else than it is about to do (authorize, 60 and 89-90).
THEOREM ApprovalsTyped == Spec => []TypeOK
BY Invariance, PTL DEF Inv

\* One approval lets one call through, for any number of calls that wait for it, read it at
\* the same time or ask again (authorize, 56-57 and 91-100).
THEOREM OneExecution == Spec => []OneExecutionPerApproval
BY Invariance, PTL DEF Inv

\* What executes was approved with the arguments it executes with (authorize and
\* decideApproval).
THEOREM ExecutedApproved == Spec => []ExecutedWasApproved
BY Invariance, PTL DEF Inv

\* A human is asked one question per tool (the sweep of authorize, 53-55).
THEOREM OneQuestion == Spec => []OneQuestionPerTool
BY Invariance, PTL DEF Inv

\* No question survives the call that asked it, unless its process dies (authorize, 85-109).
THEOREM QuestionsAttended == Spec => []QuestionsAreAttended
BY Invariance, PTL DEF Inv

\* A running run changes no decision (decideApproval, 31).
THEOREM DecisionsFinal == Spec => DecisionsAreFinal
<1>1. Inv /\ [Next]_vars =>
        [ running => \A i \in Known : approvals[i].decision # "none" =>
            /\ approvals'[i].decision = approvals[i].decision
            /\ approvals'[i].status = approvals[i].status ]_vars
  BY Past DEF Inv
<1> QED
  BY <1>1, Invariance, PTL DEF Spec, DecisionsAreFinal

\* A rejected request is not executed any more, but by an approval that had expired when a
\* slow call still took it for valid (authorize, 47 and 56-59).
THEOREM RejectionFinal == Spec => RejectionIsFinal
<1>1. Inv /\ [Next]_vars =>
        [ \A e \in executions' \ executions : \A j \in Known :
            /\ approvals[j].request = e.request /\ approvals[j].status = "rejected"
            => approvals[e.approval].lapsed ]_vars
  <2> SUFFICES ASSUME Inv, Next,
                      NEW e \in executions' \ executions, NEW j \in Known,
                      approvals[j].request = e.request, approvals[j].status = "rejected"
               PROVE  approvals[e.approval].lapsed
    OBVIOUS
  <2>1. Executes
    BY StepForms DEF Inv, Closes, Opens, Decides, Ages
  <2>2. PICK c \in Callers, i \in Known :
          /\ approvals[i].status = "approved" /\ ~approvals[i].consumed
          /\ approvals[i].request = caller[c].request
          /\ executions' = executions \cup
               {[call |-> caller[c].call, request |-> caller[c].request, approval |-> i]}
    BY <2>1 DEF Executes
  <2>3. e = [call |-> caller[c].call, request |-> caller[c].request, approval |-> i]
    BY <2>2
  <2>4. e.approval = i /\ e.request = approvals[i].request
    BY <2>2, <2>3
  <2> QED
    BY <2>2, <2>4 DEF Inv, RejectedAlone
<1> QED
  BY <1>1, Invariance, PTL DEF Spec, RejectionIsFinal

\* What authorize promises of the calls it lets through.
THEOREM ApprovalUsedOnce == Spec => []ApprovedOnce
BY ApprovalsTyped, OneExecution, ExecutedApproved, PTL DEF ApprovedOnce

\* What it promises of the questions it asks.
THEOREM QuestionsCurrent == Spec => []QuestionsAreCurrent
BY OneQuestion, QuestionsAttended, PTL DEF QuestionsAreCurrent

\* What decideApproval promises of an answer.
THEOREM DecisionsHold == Spec => DecisionsStand
BY DecisionsFinal, RejectionFinal, PTL DEF DecisionsStand

=============================================================================
