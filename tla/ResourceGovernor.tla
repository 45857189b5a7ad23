-------------------------- MODULE ResourceGovernor --------------------------
(***************************************************************************)
(* The process-local ExecutionResourceGovernor: two independent classes of *)
(* resource (Agent calls and Runner executions), each with a limit that a  *)
(* published configuration may raise or lower at any time and a bounded    *)
(* first-in first-out queue of abortable waiters.                          *)
(*                                                                         *)
(* JavaScript runs each synchronous stretch to its end, so an action is    *)
(* what withResource does between two awaits.  A waiter whose promise is   *)
(* resolved ("granted") has its slot but runs on only in a later step.     *)
(***************************************************************************)
EXTENDS Integers, FiniteSets

CONSTANTS
  Resources,   \* the resource classes: agent and runner
  Callers,     \* flows that call withResource, one call at a time each
  Calls,       \* the resource classes each flow calls it for
  Signals,     \* abort signals; several callers of one job share a signal
  SignalOf,    \* the signal each caller passes
  Limits,      \* the limits a configuration may set
  MaxQueue     \* maximumQueue

ASSUME GovernorAssumption ==
  /\ IsFiniteSet(Callers)
  /\ Resources # {}
  /\ SignalOf \in [Callers -> Signals]
  /\ Calls \in [Callers -> SUBSET Resources]
  /\ Limits \subseteq [Resources -> Nat \ {0}]
  /\ MaxQueue \in Nat \ {0}

VARIABLES
  limits,      \* [Resources -> Nat \ {0}]     this.limits
  active,      \* [Resources -> Nat]           this.active
  pc,          \* where each caller stands in withResource
  res,         \* the resource of its call
  holds,       \* the reservations a caller's async scope holds
  ahead,       \* the waiters in front of a queued caller: its queue prefix
  aborted,     \* the signals that have been aborted
  reading,     \* this.refreshing is a pending configuration read
  fresh        \* Date.now() < this.nextRefresh

vars == <<limits, active, pc, res, holds, ahead, aborted, reading, fresh>>

Places == {"idle", "refreshing", "acquiring", "queued", "granted", "holding"}

SignalAborted(c) == SignalOf[c] \in aborted
Waiting(p, r) == {c \in Callers : p[c] = "queued" /\ res[c] = r}
Queue(r) == Waiting(pc, r)
Holders(r) == {c \in Callers : r \in holds[c]}

Init ==
  /\ limits \in Limits
  /\ active = [r \in Resources |-> 0]
  /\ pc = [c \in Callers |-> "idle"]
  /\ res = [c \in Callers |-> CHOOSE r \in Resources : TRUE]
  /\ holds = [c \in Callers |-> {}]
  /\ ahead = [c \in Callers |-> {}]
  /\ aborted = {}
  /\ reading = FALSE
  /\ fresh = FALSE

-----------------------------------------------------------------------------
\* Mutant: the queue is served from its end.
StartedFromTheEnd(waiting, free, front) ==
  {c \in waiting : Cardinality(waiting \ front[c]) <= free}

\* The waiters of a queue that start when so many slots are free: its head.
Started(waiting, free, front) == {c \in waiting : Cardinality(front[c]) < free}

(***************************************************************************)
(* drain, for the resources in R: while a slot is free the head of the     *)
(* queue starts.  p, a, h and f are the places, the counters, the          *)
(* reservations and the queue prefixes the caller of drain leaves behind,  *)
(* lim the limits it sees.                                                 *)
(***************************************************************************)
Drain(R, lim, p, a, h, f) ==
  LET grant == [r \in Resources |->
                  IF r \in R THEN Started(Waiting(p, r), lim[r] - a[r], f) ELSE {}]
  IN
    /\ active' = [r \in Resources |-> a[r] + Cardinality(grant[r])]
    /\ pc' = [c \in Callers |-> IF c \in grant[res[c]] THEN "granted" ELSE p[c]]
    /\ holds' = [c \in Callers |->
                   IF c \in grant[res[c]] THEN h[c] \cup {res[c]} ELSE h[c]]
    /\ ahead' = [c \in Callers |->
                   IF c \in grant[res[c]] THEN {} ELSE f[c] \ grant[res[c]]]

-----------------------------------------------------------------------------
\* Mutant: the nested reservation of another resource is not refused.
NestedCall(c, r) ==
  /\ pc[c] \in {"idle", "holding"}
  /\ r \notin holds[c]
  /\ ~SignalAborted(c)
  /\ res' = [res EXCEPT ![c] = r]
  /\ pc' = [pc EXCEPT ![c] = IF fresh THEN "acquiring" ELSE "refreshing"]
  /\ reading' = (reading \/ ~fresh)
  /\ UNCHANGED <<limits, active, holds, ahead, aborted, fresh>>

(***************************************************************************)
(* withResource up to its first await.  A call inside an operation that    *)
(* already holds a reservation either runs on that reservation (the same   *)
(* resource) or is refused (RESOURCE_NESTED_RESERVATION_FORBIDDEN): in     *)
(* both cases the governor's state is untouched, hence the guard on holds. *)
(***************************************************************************)
Call(c, r) ==
  /\ pc[c] \in {"idle", "holding"}
  /\ holds[c] = {}
  /\ ~SignalAborted(c)
  /\ res' = [res EXCEPT ![c] = r]
  /\ pc' = [pc EXCEPT ![c] = IF fresh THEN "acquiring" ELSE "refreshing"]
  /\ reading' = (reading \/ ~fresh)
  /\ UNCHANGED <<limits, active, holds, ahead, aborted, fresh>>

\* A newcomer takes a slot at once only when nobody waits for one.
HasSlot(r) == Queue(r) = {} /\ active[r] < limits[r]

\* acquire: a free slot, or a full queue (RESOURCE_QUEUE_FULL), or a new waiter.
Acquire(c) ==
  /\ pc[c] = "acquiring"
  /\ \/ /\ ~SignalAborted(c) /\ HasSlot(res[c])
        /\ active' = [active EXCEPT ![res[c]] = @ + 1]
        /\ holds' = [holds EXCEPT ![c] = @ \cup {res[c]}]
        /\ pc' = [pc EXCEPT ![c] = "granted"]
        /\ UNCHANGED ahead
     \/ /\ \/ SignalAborted(c)
           \/ ~HasSlot(res[c]) /\ Cardinality(Queue(res[c])) >= MaxQueue
        /\ pc' = [pc EXCEPT ![c] = "idle"]
        /\ UNCHANGED <<active, holds, ahead>>
     \/ /\ ~SignalAborted(c) /\ ~HasSlot(res[c])
        /\ Cardinality(Queue(res[c])) < MaxQueue
        /\ ahead' = [ahead EXCEPT ![c] = Queue(res[c])]
        /\ pc' = [pc EXCEPT ![c] = "queued"]
        /\ UNCHANGED <<active, holds>>
  /\ UNCHANGED <<limits, res, aborted, reading, fresh>>

\* The finally block: the slot is returned and the queue drained.
Finish(c) ==
  \E r \in holds[c] :
    LET h == [holds EXCEPT ![c] = @ \ {r}] IN
    /\ Drain({r}, limits,
             [pc EXCEPT ![c] = IF h[c] = {} THEN "idle" ELSE "holding"],
             [active EXCEPT ![r] = @ - 1], h, ahead)
    /\ UNCHANGED <<limits, res, aborted, reading, fresh>>

\* The continuation after acquire: throwIfAborted inside the try block.
Resume(c) ==
  /\ pc[c] = "granted"
  /\ \/ SignalAborted(c) /\ Finish(c)
     \/ /\ ~SignalAborted(c)
        /\ pc' = [pc EXCEPT ![c] = "holding"]
        /\ UNCHANGED <<limits, active, res, holds, ahead, aborted, reading, fresh>>

\* The operation settles, with a value or an error.
Complete(c) == pc[c] = "holding" /\ Finish(c)

(***************************************************************************)
(* AbortController.abort(): the listeners of the signal run synchronously. *)
(* A waiter leaves its queue and drain runs; drain skips the waiters whose *)
(* signal is aborted even when their own listener has not run yet.  A      *)
(* caller waiting for the configuration read is rejected; one that already *)
(* has its slot notices at its next throwIfAborted.                        *)
(***************************************************************************)
RejectedBy(s) == {c \in Callers : SignalOf[c] = s /\ pc[c] \in {"queued", "refreshing"}}

Abort(s) ==
  LET out == RejectedBy(s)
      p == [c \in Callers |-> IF c \in out THEN "idle" ELSE pc[c]]
      f == [c \in Callers |-> IF c \in out THEN {} ELSE ahead[c] \ out]
      R == {res[c] : c \in {d \in out : pc[d] = "queued"}}
  IN /\ s \notin aborted
     /\ aborted' = aborted \cup {s}
     /\ Drain(R, limits, p, active, holds, f)
     /\ UNCHANGED <<limits, res, reading, fresh>>

\* The next job of these callers brings an AbortController of its own.
NewSignal(s) ==
  /\ s \in aborted
  /\ \A c \in Callers : SignalOf[c] = s => pc[c] = "idle"
  /\ aborted' = aborted \ {s}
  /\ UNCHANGED <<limits, active, pc, res, holds, ahead, reading, fresh>>

\* Mutant: a raised limit wakes nobody.
ConfigureOnly(lim) ==
  /\ limits' = lim
  /\ UNCHANGED <<active, pc, res, holds, ahead, aborted, reading, fresh>>

\* configure, called by the worker's poll.
Configure(lim) ==
  /\ limits' = lim
  /\ Drain(Resources, lim, pc, active, holds, ahead)
  /\ UNCHANGED <<res, aborted, reading, fresh>>

\* The shared configuration read settles: a value configures, a failure keeps
\* the limits; either way the callers that joined it go on to acquire.
ReadSettles(lim) ==
  /\ reading
  /\ reading' = FALSE
  /\ fresh' = TRUE
  /\ limits' = lim
  /\ Drain(IF lim = limits THEN {} ELSE Resources, lim,
           [c \in Callers |-> IF pc[c] = "refreshing" THEN "acquiring" ELSE pc[c]],
           active, holds, ahead)
  /\ UNCHANGED <<res, aborted>>

\* Five seconds pass since the last read.
RefreshDue ==
  /\ fresh
  /\ fresh' = FALSE
  /\ UNCHANGED <<limits, active, pc, res, holds, ahead, aborted, reading>>

\* Every step but the return of an operation, whose own steps are not the
\* governor's (AgentSessions has those of the Agent operations).
GovernorStep ==
  \/ \E c \in Callers : \E r \in Calls[c] : Call(c, r)
  \/ \E c \in Callers : Acquire(c) \/ Resume(c)
  \/ \E s \in Signals : Abort(s) \/ NewSignal(s)
  \/ \E lim \in Limits : Configure(lim) \/ ReadSettles(lim)
  \/ RefreshDue

Next == GovernorStep \/ \E c \in Callers : Complete(c)

Spec == Init /\ [][Next]_vars

-----------------------------------------------------------------------------
TypeOK ==
  /\ limits \in Limits
  /\ active \in [Resources -> Nat]
  /\ pc \in [Callers -> Places]
  /\ res \in [Callers -> Resources]
  /\ holds \in [Callers -> SUBSET Resources]
  /\ ahead \in [Callers -> SUBSET Callers]
  /\ aborted \subseteq Signals
  /\ reading \in BOOLEAN
  /\ fresh \in BOOLEAN

\* The counter of a resource is exactly the number of calls that own a slot of it,
\* whatever mix of completions, aborts and failed continuations came before: no
\* slot leaks and none is returned twice.
ActiveCountsHolders == \A r \in Resources : active[r] = Cardinality(Holders(r))

\* No lost wakeup: somebody waits only while every slot is taken.  Raising a
\* limit, returning a slot and aborting a waiter must each have drained.
NoLostWakeup == \A r \in Resources : Queue(r) # {} => active[r] >= limits[r]

\* No slot leaks, and none is free while somebody waits for it.
SlotsAreAccounted == TypeOK /\ ActiveCountsHolders /\ NoLostWakeup

\* Lowering a limit never interrupts work, but a slot is handed out only within
\* the limit in force at that moment.
GrantsWithinLimit ==
  [][\A r \in Resources : active'[r] > active[r] => active'[r] <= limits'[r]]_vars

\* First in, first out: whoever obtains a slot leaves no earlier waiter of the
\* same resource still waiting, neither one in front of it nor, for a newcomer
\* that never queued, anyone in the queue.
NoOvertaking ==
  [][\A c, d \in Callers :
       /\ pc'[c] = "granted" /\ pc[c] # "granted"
       /\ pc[d] = "queued" /\ res[d] = res[c]
       /\ d \in ahead[c] \/ pc[c] # "queued"
       => pc'[d] # "queued"]_vars

\* A call whose signal is aborted while it waits never obtains a slot, even when
\* the abort of its neighbours or a raised limit drains its queue.
AbortedWaiterNeverStarts ==
  [][\A c \in Callers :
       pc[c] = "queued" /\ pc'[c] = "granted" => SignalOf[c] \notin aborted']_vars

\* What no grant does, whether a newcomer takes it or a return, a raised limit or an
\* abort drains the queue.
GrantsAreFair == GrantsWithinLimit /\ NoOvertaking /\ AbortedWaiterNeverStarts

=============================================================================
