---------------------------- MODULE AgentSessions ----------------------------
(***************************************************************************)
(* PiSessionRuntime in one process: an Agent session is used by one flow   *)
(* at a time.  A flow that executes, reviews or compacts first takes an    *)
(* Agent slot of the governor (ResourceGovernor) and then the lock of its  *)
(* session; a flow that only appends a message to a planning session takes *)
(* the lock alone and has no abort signal.                                 *)
(*                                                                         *)
(* The lock of a session is a chain of promises: tail is settled when the  *)
(* gates of all flows that joined before have opened.  The model keeps the *)
(* gates that are still closed, a tail as the set of those it waits for.   *)
(***************************************************************************)
EXTENDS ResourceGovernor

CONSTANTS
  Appenders,   \* flows that append to a session without a slot
  Sessions,    \* scope keys
  SessionOf    \* the session each flow works in

Users == Callers \cup Appenders

ASSUME SessionsAssumption ==
  /\ IsFiniteSet(Appenders) /\ Callers \cap Appenders = {}
  /\ SessionOf \in [Users -> Sessions]
  /\ "agent" \in Resources

VARIABLES
  locks,    \* locks[k]: the entry of this.locks, its tail and its waiting counter
  stage,    \* where each flow stands in its use of its session
  before    \* the closed gates its `previous` promise waits for

sessionVars == <<locks, stage, before>>
allVars == <<vars, sessionVars>>

\* "restoring": compact awaits the binding of its session; "ready": the promise
\* in lock() is resolved and its continuation has not run; "done": released
\* inside a governed call that has not returned yet.
SessionStages == {"out", "restoring", "waiting", "ready", "owner", "done"}

NoEntry == [tail |-> {}, waiting |-> 0]
Exists(k) == locks[k].waiting > 0

\* controller.signal of an executing flow follows the signal of its caller.
Cancelled(u) == u \in Callers /\ SignalAborted(u)

SessionsInit ==
  /\ Init
  /\ locks = [k \in Sessions |-> NoEntry]
  /\ stage = [u \in Users |-> "out"]
  /\ before = [u \in Users |-> {}]

-----------------------------------------------------------------------------
\* current.tail = previous.then(() => gate)
Joined(e, u) == [tail |-> e.tail \cup {u}, waiting |-> e.waiting + 1]

\* releaseGate(); the entry is deleted with its last user.
Left(e, u) ==
  IF e.waiting = 1 THEN NoEntry ELSE [tail |-> e.tail \ {u}, waiting |-> e.waiting - 1]

Lock(u, next) ==
  LET k == SessionOf[u] IN
  /\ locks' = [locks EXCEPT ![k] = Joined(@, u)]
  /\ before' = [before EXCEPT ![u] = locks[k].tail]
  /\ stage' = [stage EXCEPT ![u] = next]

Rest(u) == IF u \in Callers THEN "done" ELSE "out"

\* release(): the gate opens for whoever waits for it.
Unlock(u) ==
  /\ stage' = [stage EXCEPT ![u] = Rest(u)]
  /\ locks' = [locks EXCEPT ![SessionOf[u]] = Left(@, u)]
  /\ before' = [v \in Users |-> IF v = u THEN {} ELSE before[v] \ {u}]

-----------------------------------------------------------------------------
HasPermit(c) == pc[c] = "holding" /\ "agent" \in holds[c] /\ stage[c] = "out"

\* executeWithPermit, reviewWithPermit: the slot first, then the session.
AcquireSession(c) == HasPermit(c) /\ ~Cancelled(c) /\ Lock(c, "waiting")

\* appendPlanningTask, appendPlanningClarification, injectReviewCandidate.
AppendToSession(a) == stage[a] = "out" /\ Lock(a, "waiting")

\* compactWithPermit awaits the persisted binding of the session ...
BeginCompaction(c) ==
  /\ HasPermit(c) /\ ~Cancelled(c)
  /\ stage' = [stage EXCEPT ![c] = "restoring"]
  /\ UNCHANGED <<locks, before>>

\* Mutant: the session was idle before the binding was read.
AcquireUnchecked(c) == stage[c] = "restoring" /\ Lock(c, "owner")

\* ... and acquireIdle refuses a session that somebody uses or waits for.  The
\* lock of an idle session is taken at once, without looking at the signal.
AcquireIdle(c) ==
  /\ stage[c] = "restoring"
  /\ \/ ~Exists(SessionOf[c]) /\ Lock(c, "owner")
     \/ /\ Exists(SessionOf[c])
        /\ stage' = [stage EXCEPT ![c] = "done"]
        /\ UNCHANGED <<locks, before>>

\* previous is settled: the waiter's promise is resolved.
BecomeReady(u) ==
  /\ stage[u] = "waiting" /\ before[u] = {} /\ ~Cancelled(u)
  /\ stage' = [stage EXCEPT ![u] = "ready"]
  /\ UNCHANGED <<locks, before>>

\* The signal of a waiter aborts: only its own gate opens.
GiveUp(u) == stage[u] = "waiting" /\ Cancelled(u) /\ Unlock(u)

\* acquire goes on after lock(): throwIfAborted, or the lease.
Enter(u) ==
  /\ stage[u] = "ready"
  /\ \/ Cancelled(u) /\ Unlock(u)
     \/ /\ ~Cancelled(u)
        /\ stage' = [stage EXCEPT ![u] = "owner"]
        /\ UNCHANGED <<locks, before>>

\* lease.release() in the finally block.
ReleaseSession(u) == stage[u] = "owner" /\ Unlock(u)

WaiterStep(u) == BecomeReady(u) \/ GiveUp(u) \/ Enter(u)
SessionStep(u) == WaiterStep(u) \/ ReleaseSession(u)

\* The governed operation returns; it is over when its session is.
Return(c) ==
  /\ stage[c] \in {"out", "done"} /\ Complete(c)
  /\ stage' = [stage EXCEPT ![c] = "out"]
  /\ UNCHANGED <<locks, before>>

SessionsNext ==
  \/ GovernorStep /\ UNCHANGED sessionVars
  \/ \E c \in Callers : Return(c)
  \/ \E c \in Callers :
        (AcquireSession(c) \/ BeginCompaction(c) \/ AcquireIdle(c)) /\ UNCHANGED vars
  \/ \E a \in Appenders : AppendToSession(a) /\ UNCHANGED vars
  \/ \E u \in Users : SessionStep(u) /\ UNCHANGED vars

SessionsSpec == SessionsInit /\ [][SessionsNext]_allVars

\* What a flow does next without anybody else: promise continuations always run,
\* and Agent executions, probes and appends are bounded by their deadlines.
FlowStep(c) ==
  \/ (Acquire(c) \/ Resume(c)) /\ UNCHANGED sessionVars
  \/ (AcquireIdle(c) \/ SessionStep(c)) /\ UNCHANGED vars
  \/ Return(c)

SessionsFairness ==
  /\ \A c \in Callers : WF_allVars(FlowStep(c))
  /\ \A a \in Appenders : WF_allVars(SessionStep(a) /\ UNCHANGED vars)

FairSessionsSpec == SessionsSpec /\ SessionsFairness

-----------------------------------------------------------------------------
UsersOf(k) == {u \in Users : SessionOf[u] = k /\ stage[u] \in {"waiting", "ready", "owner"}}

SessionsTypeOK ==
  /\ locks \in [Sessions -> [tail : SUBSET Users, waiting : Nat]]
  /\ stage \in [Users -> SessionStages]
  /\ before \in [Users -> SUBSET Users]

\* Two flows never work in one session at the same time: their messages would
\* interleave in its history.
OneFlowPerSession ==
  \A u, v \in Users :
    u # v /\ stage[u] = "owner" /\ stage[v] = "owner" => SessionOf[u] # SessionOf[v]

\* The entry of a session is exactly about the flows that use it or wait: none
\* is left over that would make it busy for ever, none is dropped too early.
EntriesMatchUsers ==
  \A k \in Sessions :
    locks[k].tail = UsersOf(k) /\ locks[k].waiting = Cardinality(UsersOf(k))

\* Every governed call that waits for a slot ends, although whoever holds a slot
\* may be waiting for a session: slots are taken before sessions and never the
\* other way round, and no call waits for a second slot.
EveryCallEnds == \A c \in Callers : pc[c] \in {"queued", "granted"} ~> pc[c] = "idle"

\* Whoever has to append to a session that Agents are using gets its turn.
EveryAppendEnds == \A a \in Appenders : stage[a] = "waiting" ~> stage[a] = "out"

\* No flow waits for ever, neither for a slot nor for a session.
EveryWaitEnds == EveryCallEnds /\ EveryAppendEnds

\* Everything a flow relies on when it has entered a session.
SessionsAreExclusive == SessionsTypeOK /\ OneFlowPerSession /\ EntriesMatchUsers

\* The users of a session in the order of their gates.
InOrder(k) ==
  [i \in 1 .. Cardinality(UsersOf(k)) |->
     CHOOSE u \in UsersOf(k) : Cardinality(before[u]) = i - 1]

Line == INSTANCE SessionLine WITH
  line <- [k \in Sessions |-> InOrder(k)],
  using <- {u \in Users : stage[u] = "owner"}

\* First come, first served: whoever gives up in the middle of the line opens it
\* for nobody but those already first.
KeepsTheLine == Line!Spec

=============================================================================
