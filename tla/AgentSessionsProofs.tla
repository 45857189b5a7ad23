------------------------ MODULE AgentSessionsProofs ------------------------
(***************************************************************************)
(* The resource governor and the sessions of a process, for any number of  *)
(* callers, resources, limits and sessions: slots are counted exactly and  *)
(* handed out in order, a session never has two flows, and its line is kept. *)
(*                                                                         *)
(* Both queues are kept as prefixes (ahead, before).  What makes a prefix  *)
(* a place in a line is LineOn; that the length of a prefix then decides   *)
(* how many start (StartedFills) is the heart of the governor's proof, and *)
(* DrainKeeps the only place where it is used.                             *)
(***************************************************************************)
EXTENDS AgentSessions, TLAPS, FiniteSetTheorems, SequenceTheorems, WellFoundedInduction

\* The prefixes front make a line of the waiters W: total and transitive.
LineOn(W, front) ==
  /\ \A c \in W : front[c] \subseteq W \ {c}
  /\ \A c, d \in W : c # d => c \in front[d] \/ d \in front[c]
  /\ \A c, d \in W : c \in front[d] => front[c] \subseteq front[d]

LEMMA FrontIsFinite ==
  ASSUME NEW W, IsFiniteSet(W), NEW front, LineOn(W, front), NEW c \in W
  PROVE  IsFiniteSet(front[c]) /\ Cardinality(front[c]) \in Nat
<1>1. front[c] \subseteq W
  BY DEF LineOn
<1> QED BY <1>1, FS_Subset, FS_CardinalityType

\* Whoever stands further in front has the shorter prefix.
LEMMA FrontIsShorter ==
  ASSUME NEW W, IsFiniteSet(W), NEW front, LineOn(W, front),
         NEW c \in W, NEW d \in W, c \in front[d]
  PROVE  Cardinality(front[c]) < Cardinality(front[d])
<1>1. front[c] \cup {c} \subseteq front[d] /\ c \notin front[c]
  BY DEF LineOn
<1>2. Cardinality(front[c] \cup {c}) = Cardinality(front[c]) + 1
  BY <1>1, FrontIsFinite, FS_AddElement
<1>3. Cardinality(front[c] \cup {c}) <= Cardinality(front[d])
  BY <1>1, FrontIsFinite, FS_Subset
<1> QED BY <1>2, <1>3, FrontIsFinite

\* Among some of the waiters one has none of the others in front of it, and one is in
\* front of none of them.
LEMMA SomebodyIsFirst ==
  ASSUME NEW W, IsFiniteSet(W), NEW front, LineOn(W, front), NEW X, X \subseteq W, X # {}
  PROVE  \E c \in X : \A d \in X : d \notin front[c]
<1> DEFINE T == {front[c] : c \in X}
<1>1. T \subseteq SUBSET W /\ T # {}
  BY DEF LineOn
<1>2. IsWellFoundedOn(StrictSubsetOrdering(W), SUBSET W)
  BY FS_StrictSubsetOrderingWellFounded, FS_FiniteSubsetsOfFinite
<1>3. PICK t \in T : \A u \in T : <<u, t>> \notin StrictSubsetOrdering(W)
  <2> HIDE DEF T
  <2> QED BY <1>1, <1>2, WFMin
<1>4. PICK c \in X : t = front[c]
  OBVIOUS
<1>5. ASSUME NEW d \in X, d \in front[c] PROVE FALSE
  <2>1. c \in W /\ d \in W /\ front[d] \in T
    OBVIOUS
  <2>2. front[d] \subseteq front[c] /\ d \notin front[d]
    BY <1>5, <2>1 DEF LineOn
  <2>3. <<front[d], front[c]>> \in (SUBSET W) \X (SUBSET W)
    BY <1>1, <1>4, <2>1
  <2>4. <<front[d], front[c]>> \in StrictSubsetOrdering(W)
    BY <1>5, <2>2, <2>3 DEF StrictSubsetOrdering
  <2> QED BY <1>3, <1>4, <2>1, <2>4
<1> QED BY <1>5

LEMMA SomebodyIsLast ==
  ASSUME NEW W, IsFiniteSet(W), NEW front, LineOn(W, front), NEW X, X \subseteq W, X # {}
  PROVE  \E c \in X : \A d \in X : c \notin front[d]
<1> DEFINE T == {W \ front[c] : c \in X}
<1>1. T \subseteq SUBSET W /\ T # {}
  OBVIOUS
<1>2. IsWellFoundedOn(StrictSubsetOrdering(W), SUBSET W)
  BY FS_StrictSubsetOrderingWellFounded, FS_FiniteSubsetsOfFinite
<1>3. PICK t \in T : \A u \in T : <<u, t>> \notin StrictSubsetOrdering(W)
  <2> HIDE DEF T
  <2> QED BY <1>1, <1>2, WFMin
<1>4. PICK c \in X : t = W \ front[c]
  OBVIOUS
<1>5. ASSUME NEW d \in X, c \in front[d] PROVE FALSE
  <2>1. c \in W /\ d \in W /\ (W \ front[d]) \in T
    OBVIOUS
  <2>2. front[c] \subseteq front[d] /\ c \notin front[c]
    BY <1>5, <2>1 DEF LineOn
  <2>3. <<W \ front[d], W \ front[c]>> \in (SUBSET W) \X (SUBSET W)
    OBVIOUS
  <2>4. <<W \ front[d], W \ front[c]>> \in StrictSubsetOrdering(W)
    BY <1>5, <2>1, <2>2, <2>3 DEF StrictSubsetOrdering
  <2> QED BY <1>3, <1>4, <2>1, <2>4
<1> QED BY <1>5

\* drain starts the head of the queue, as many as there are free slots: never more, fewer
\* only if nobody is left, and nobody before those in front of it.
LEMMA StartedFills ==
  ASSUME NEW W, IsFiniteSet(W), NEW front, LineOn(W, front), NEW free \in Int
  PROVE  LET S == Started(W, free, front) IN
         /\ S \subseteq W /\ IsFiniteSet(S) /\ Cardinality(S) \in Nat
         /\ S # {} => Cardinality(S) <= free
         /\ W \ S # {} => Cardinality(S) >= free
         /\ \A c \in S : front[c] \subseteq S
<1> DEFINE S == Started(W, free, front)
<1>1. S \subseteq W /\ \A c \in W : c \in S <=> Cardinality(front[c]) < free
  BY DEF Started
<1>2. IsFiniteSet(S) /\ Cardinality(S) \in Nat
  BY <1>1, FS_Subset, FS_CardinalityType
<1> HIDE DEF S
<1>3. ASSUME NEW c \in S PROVE front[c] \subseteq S
  <2> SUFFICES ASSUME NEW d \in front[c] PROVE d \in S
    OBVIOUS
  <2>1. c \in W /\ d \in W
    BY <1>1 DEF LineOn
  <2>2. Cardinality(front[d]) < Cardinality(front[c])
    BY <2>1, FrontIsShorter
  <2> QED BY <1>1, <2>1, <2>2, FrontIsFinite
<1>4. ASSUME S # {} PROVE Cardinality(S) <= free
  <2>1. PICK c \in S : \A d \in S : c \notin front[d]
    BY <1>1, <1>4, SomebodyIsLast
  <2>2. c \in W /\ Cardinality(front[c]) < free /\ Cardinality(front[c]) \in Nat
    BY <1>1, FrontIsFinite
  <2>3. S \subseteq front[c] \cup {c}
    <3> SUFFICES ASSUME NEW d \in S, d # c, d \notin front[c] PROVE FALSE
      OBVIOUS
    <3>1. d \in W /\ c \in front[d]
      BY <1>1, <2>2 DEF LineOn
    <3> QED BY <2>1, <3>1
  <2>4. c \notin front[c] /\ IsFiniteSet(front[c])
    BY <2>2, FrontIsFinite DEF LineOn
  <2>5. /\ IsFiniteSet(front[c] \cup {c})
        /\ Cardinality(front[c] \cup {c}) = Cardinality(front[c]) + 1
    BY <2>4, FS_AddElement
  <2>6. Cardinality(S) <= Cardinality(front[c] \cup {c})
    BY <2>3, <2>5, FS_Subset
  <2> QED BY <1>2, <2>2, <2>5, <2>6
<1>5. ASSUME W \ S # {} PROVE Cardinality(S) >= free
  <2> DEFINE left == W \ S
  <2>0. left \subseteq W /\ left # {}
    BY <1>5
  <2>1. PICK c \in left : \A d \in left : d \notin front[c]
    <3> HIDE DEF left
    <3> QED BY <2>0, SomebodyIsFirst
  <2>2. Cardinality(front[c]) >= free /\ Cardinality(front[c]) \in Nat
    BY <1>1, FrontIsFinite
  <2>3. front[c] \subseteq S
    <3> SUFFICES ASSUME NEW d \in front[c], d \notin S PROVE FALSE
      OBVIOUS
    <3>1. d \in left
      BY DEF LineOn
    <3> QED BY <2>1, <3>1
  <2>4. Cardinality(front[c]) <= Cardinality(S)
    BY <1>2, <2>3, FS_Subset
  <2> QED BY <1>2, <2>2, <2>4
<1> QED BY <1>1, <1>2, <1>3, <1>4, <1>5 DEF S

-----------------------------------------------------------------------------
\* What drain expects of the places, counters, reservations and queue prefixes it is given
\* and what holds of them between any two steps.
Queued(p, rs, r) == {c \in Callers : p[c] = "queued" /\ rs[c] = r}

Orderly(p, rs, a, h, f) ==
  /\ p \in [Callers -> Places]
  /\ a \in [Resources -> Nat]
  /\ h \in [Callers -> SUBSET Resources]
  /\ f \in [Callers -> SUBSET Callers]
  /\ \A r \in Resources : LineOn(Queued(p, rs, r), f)
  /\ \A c \in Callers : p[c] # "queued" => f[c] = {}
  /\ \A c \in Callers : h[c] = IF p[c] \in {"granted", "holding"} THEN {rs[c]} ELSE {}
  /\ \A r \in Resources : a[r] = Cardinality({c \in Callers : r \in h[c]})

\* Waiting and Queue, as an operator of the state's parts.
LEMMA QueuesAreQueued ==
  ASSUME NEW r
  PROVE  /\ \A p : Waiting(p, r) = Queued(p, res, r)
         /\ Queue(r) = Queued(pc, res, r)
         /\ Queue(r)' = Queued(pc', res', r)
BY DEF Queued, Waiting, Queue

LEMMA LineWithout ==
  ASSUME NEW W, NEW f, NEW X, NEW g, LineOn(W, f), \A c \in W \ X : g[c] = f[c] \ X
  PROVE  LineOn(W \ X, g)
BY DEF LineOn

\* What a drain of R under the limits lim makes of places p and counters a: p2 and a2.
Drained(R, lim, rs, p, a, f, p2, a2) ==
  /\ \A r \in R : Queued(p2, rs, r) # {} => a2[r] >= lim[r]
  /\ \A r \in Resources \ R : Queued(p2, rs, r) = Queued(p, rs, r) /\ a2[r] = a[r]
  /\ \A r \in Resources : a2[r] > a[r] => a2[r] <= lim[r]
  /\ \A c \in Callers : \/ p2[c] = p[c]
                        \/ /\ p[c] = "queued" /\ p2[c] = "granted"
                           /\ \A d \in f[c] : p2[d] = "granted"

LEMMA SetsAreFinite ==
  ASSUME NEW X, X \subseteq Callers
  PROVE  IsFiniteSet(X) /\ Cardinality(X) \in Nat
BY GovernorAssumption, FS_Subset, FS_CardinalityType

\* One drain keeps the order, fills the slots of its resources and lets nobody pass.
LEMMA DrainKeeps ==
  ASSUME NEW R \in SUBSET Resources, NEW lim \in [Resources -> Nat \ {0}],
         NEW p, NEW a, NEW h, NEW f, Orderly(p, res, a, h, f),
         res \in [Callers -> Resources], res' = res, Drain(R, lim, p, a, h, f)
  PROVE  /\ Orderly(pc', res', active', holds', ahead')
         /\ Drained(R, lim, res, p, a, f, pc', active')
<1> DEFINE W(r) == Queued(p, res, r)
           G(r) == IF r \in R THEN Started(W(r), lim[r] - a[r], f) ELSE {}
<1>a. /\ p \in [Callers -> Places] /\ a \in [Resources -> Nat]
      /\ h \in [Callers -> SUBSET Resources] /\ f \in [Callers -> SUBSET Callers]
  BY DEF Orderly
<1>b. \A r \in Resources : LineOn(W(r), f)
  BY DEF Orderly
<1>c. \A c \in Callers : p[c] # "queued" => f[c] = {}
  BY DEF Orderly
<1>d. \A c \in Callers : h[c] = IF p[c] \in {"granted", "holding"} THEN {res[c]} ELSE {}
  BY DEF Orderly
<1>e. \A r \in Resources : a[r] = Cardinality({c \in Callers : r \in h[c]})
  BY DEF Orderly
<1>1. ASSUME NEW r \in Resources
      PROVE  /\ W(r) \subseteq Callers /\ G(r) \subseteq W(r)
             /\ IsFiniteSet(G(r)) /\ Cardinality(G(r)) \in Nat
             /\ G(r) # {} => Cardinality(G(r)) <= lim[r] - a[r]
             /\ r \in R /\ W(r) \ G(r) # {} => Cardinality(G(r)) >= lim[r] - a[r]
             /\ \A c \in G(r) : f[c] \subseteq G(r)
  <2>1. W(r) \subseteq Callers /\ IsFiniteSet(W(r)) /\ LineOn(W(r), f)
    BY <1>b, SetsAreFinite DEF Queued
  <2>2. lim[r] - a[r] \in Int
    BY <1>a
  <2>3. CASE r \in R
    <3> HIDE DEF W
    <3>1. G(r) = Started(W(r), lim[r] - a[r], f)
      BY <2>3
    <3>2. G(r) # {} => Cardinality(G(r)) <= lim[r] - a[r]
      BY <2>1, <2>2, <3>1, StartedFills
    <3> QED BY <2>1, <2>2, <3>1, <3>2, StartedFills
  <2>4. CASE r \notin R
    BY <2>1, <2>4, FS_EmptySet
  <2> QED BY <2>3, <2>4
<1>2. /\ active' = [r \in Resources |-> a[r] + Cardinality(G(r))]
      /\ pc' = [c \in Callers |-> IF c \in G(res[c]) THEN "granted" ELSE p[c]]
      /\ holds' = [c \in Callers |-> IF c \in G(res[c]) THEN h[c] \cup {res[c]} ELSE h[c]]
      /\ ahead' = [c \in Callers |-> IF c \in G(res[c]) THEN {} ELSE f[c] \ G(res[c])]
  BY QueuesAreQueued DEF Drain
<1>3. \A r \in Resources : \A c \in W(r) : c \in Callers /\ p[c] = "queued" /\ res[c] = r
  BY DEF Queued
<1> HIDE DEF G
<1>4. ASSUME NEW r \in Resources PROVE Queued(pc', res', r) = W(r) \ G(r)
  BY <1>1, <1>2, <1>3 DEF Queued
<1>5. ASSUME NEW r \in Resources
      PROVE  active'[r] = Cardinality({c \in Callers : r \in holds'[c]})
  <2> DEFINE H == {c \in Callers : r \in h[c]}
             K == {c \in Callers : r \in holds'[c]}
  <2>1. K = H \cup G(r)
    BY <1>1, <1>2, <1>3
  <2>2. H \cap G(r) = {}
    BY <1>1, <1>3, <1>d
  <2>3. IsFiniteSet(H) /\ IsFiniteSet(G(r)) /\ Cardinality(H) \in Nat
    BY <1>1, SetsAreFinite
  <2>4. Cardinality(H \cup G(r)) = Cardinality(H) + Cardinality(G(r)) - Cardinality(H \cap G(r))
    BY <2>3, FS_Union
  <2>5. Cardinality(H \cap G(r)) = 0
    BY <2>2, FS_EmptySet
  <2>6. active'[r] = a[r] + Cardinality(G(r)) /\ a[r] = Cardinality(H)
    BY <1>2, <1>e
  <2>7. Cardinality(G(r)) \in Nat
    BY <1>1
  <2> HIDE DEF H
  <2>8. Cardinality(H \cup G(r)) = a[r] + Cardinality(G(r))
    BY <2>3, <2>4, <2>5, <2>6, <2>7
  <2>9. active'[r] = Cardinality(K)
    <3> HIDE DEF K
    <3> QED BY <2>1, <2>6, <2>8
  <2> QED BY <2>9
<1>6. ASSUME NEW r \in Resources PROVE LineOn(Queued(pc', res', r), ahead')
  <2>1. Queued(pc', res', r) = W(r) \ G(r)
    BY <1>4
  <2>2. \A c \in W(r) \ G(r) : ahead'[c] = f[c] \ G(r)
    BY <1>1, <1>2, <1>3
  <2>3. LineOn(W(r), f)
    BY <1>b
  <2> HIDE DEF W
  <2>4. LineOn(W(r) \ G(r), ahead')
    BY <2>2, <2>3, LineWithout
  <2> QED BY <2>1, <2>4
<1>7. /\ pc' \in [Callers -> Places] /\ active' \in [Resources -> Nat]
      /\ holds' \in [Callers -> SUBSET Resources] /\ ahead' \in [Callers -> SUBSET Callers]
  BY <1>1, <1>2, <1>a DEF Places
<1>8. \A c \in Callers : pc'[c] # "queued" => ahead'[c] = {}
  BY <1>2, <1>c
<1>9. \A c \in Callers :
        holds'[c] = IF pc'[c] \in {"granted", "holding"} THEN {res[c]} ELSE {}
  <2> SUFFICES ASSUME NEW c \in Callers
               PROVE  holds'[c] = IF pc'[c] \in {"granted", "holding"} THEN {res[c]} ELSE {}
    OBVIOUS
  <2>1. CASE c \in G(res[c])
    <3>1. p[c] = "queued"
      BY <1>1, <1>3, <2>1
    <3> QED BY <1>2, <1>d, <2>1, <3>1
  <2>2. CASE c \notin G(res[c])
    BY <1>2, <1>d, <2>2
  <2> QED BY <2>1, <2>2
<1>10. Orderly(pc', res', active', holds', ahead')
  BY <1>5, <1>6, <1>7, <1>8, <1>9 DEF Orderly
<1>11. ASSUME NEW r \in R, Queued(pc', res', r) # {} PROVE active'[r] >= lim[r]
  <2>1. Cardinality(G(r)) >= lim[r] - a[r] /\ Cardinality(G(r)) \in Nat
    BY <1>1, <1>4, <1>11
  <2>2. active'[r] = a[r] + Cardinality(G(r)) /\ a[r] \in Nat /\ lim[r] \in Nat
    BY <1>2, <1>a
  <2> QED BY <2>1, <2>2
<1>12. ASSUME NEW r \in Resources \ R PROVE Queued(pc', res', r) = W(r) /\ active'[r] = a[r]
  <2>1. G(r) = {} /\ Cardinality(G(r)) = 0
    BY FS_EmptySet DEF G
  <2>2. active'[r] = a[r] + Cardinality(G(r)) /\ a[r] \in Nat
    BY <1>2, <1>a
  <2>3. Queued(pc', res', r) = W(r) \ G(r)
    BY <1>4
  <2> HIDE DEF W
  <2> QED BY <2>1, <2>2, <2>3
<1>13. ASSUME NEW r \in Resources, active'[r] > a[r] PROVE active'[r] <= lim[r]
  <2>1. active'[r] = a[r] + Cardinality(G(r)) /\ a[r] \in Nat /\ lim[r] \in Nat
    BY <1>2, <1>a
  <2>2. ASSUME G(r) = {} PROVE FALSE
    <3>1. Cardinality(G(r)) = 0
      BY <2>2, FS_EmptySet
    <3> QED BY <1>13, <2>1, <3>1
  <2>3. Cardinality(G(r)) <= lim[r] - a[r] /\ Cardinality(G(r)) \in Nat
    BY <1>1, <2>2
  <2> QED BY <2>1, <2>3
<1>14. ASSUME NEW c \in Callers, pc'[c] # p[c]
       PROVE  /\ p[c] = "queued" /\ pc'[c] = "granted"
              /\ \A d \in f[c] : pc'[d] = "granted"
  <2>1. c \in G(res[c]) /\ res[c] \in Resources
    BY <1>2, <1>14
  <2>2. f[c] \subseteq G(res[c])
    BY <1>1, <2>1
  <2>3. \A d \in G(res[c]) : d \in Callers /\ res[d] = res[c] /\ p[d] = "queued"
    BY <1>1, <1>3, <2>1
  <2> QED BY <1>2, <2>1, <2>2, <2>3
<1> QED BY <1>10, <1>11, <1>12, <1>13, <1>14 DEF Drained

-----------------------------------------------------------------------------
\* The inductive invariant of the governor.
GovernorInv ==
  /\ limits \in Limits
  /\ res \in [Callers -> Resources]
  /\ aborted \subseteq Signals
  /\ reading \in BOOLEAN
  /\ fresh \in BOOLEAN
  /\ Orderly(pc, res, active, holds, ahead)
  /\ \A c \in Callers : pc[c] = "queued" => ~SignalAborted(c)
  /\ NoLostWakeup

\* What GrantsAreFair says of one step.
FairStep ==
  /\ \A r \in Resources : active'[r] > active[r] => active'[r] <= limits'[r]
  /\ \A c, d \in Callers :
       /\ pc'[c] = "granted" /\ pc[c] # "granted"
       /\ pc[d] = "queued" /\ res[d] = res[c]
       /\ d \in ahead[c] \/ pc[c] # "queued"
       => pc'[d] # "queued"
  /\ \A c \in Callers :
       pc[c] = "queued" /\ pc'[c] = "granted" => SignalOf[c] \notin aborted'

\* Every step that drains: whatever it left behind for drain was orderly, took no slot and
\* moved nobody into a queue, and only queues of R can have got a free slot.
LEMMA DrainStep ==
  ASSUME GovernorInv,
         NEW R \in SUBSET Resources, NEW lim \in Limits, NEW p, NEW a, NEW h, NEW f,
         Orderly(p, res, a, h, f), Drain(R, lim, p, a, h, f),
         res' = res, limits' = lim, aborted' \subseteq Signals,
         reading' \in BOOLEAN, fresh' \in BOOLEAN,
         \A c \in Callers : p[c] = "queued" =>
           /\ pc[c] = "queued" /\ SignalOf[c] \notin aborted'
           /\ \A d \in ahead[c] : p[d] = "queued" => d \in f[c],
         \A c \in Callers : p[c] = "granted" => pc[c] = "granted",
         \A r \in Resources : a[r] <= active[r],
         \A r \in Resources \ R : Queued(p, res, r) # {} => a[r] >= lim[r]
  PROVE  GovernorInv' /\ FairStep
<1>1. lim \in [Resources -> Nat \ {0}]
  BY GovernorAssumption
<1>2. res \in [Callers -> Resources]
  BY DEF GovernorInv
<1>3. Orderly(pc', res', active', holds', ahead')
  BY <1>1, <1>2, DrainKeeps
<1>4. Drained(R, lim, res, p, a, f, pc', active')
  BY <1>1, <1>2, DrainKeeps
<1>5. \A r \in R : Queued(pc', res', r) # {} => active'[r] >= lim[r]
  BY <1>4 DEF Drained
<1>6. \A r \in Resources \ R : Queued(pc', res', r) = Queued(p, res, r) /\ active'[r] = a[r]
  BY <1>4 DEF Drained
<1>7. \A c \in Callers : \/ pc'[c] = p[c]
                         \/ /\ p[c] = "queued" /\ pc'[c] = "granted"
                            /\ \A d \in f[c] : pc'[d] = "granted"
  BY <1>4 DEF Drained
<1>8. NoLostWakeup'
  BY <1>5, <1>6, QueuesAreQueued DEF NoLostWakeup
<1>9. \A c \in Callers : pc'[c] = "queued" => p[c] = "queued" /\ ~SignalAborted(c)'
  BY <1>7 DEF SignalAborted
<1>10. GovernorInv'
  BY <1>2, <1>3, <1>8, <1>9 DEF GovernorInv
<1>11. ASSUME NEW r \in Resources, active'[r] > active[r] PROVE active'[r] <= limits'[r]
  <2>1. active'[r] \in Nat /\ active[r] \in Nat /\ a[r] \in Nat
    BY <1>3 DEF GovernorInv, Orderly
  <2>2. active'[r] > a[r]
    BY <1>11, <2>1
  <2> QED BY <1>4, <2>2 DEF Drained
<1>12. ASSUME NEW c \in Callers, NEW d \in Callers,
              pc'[c] = "granted", pc[c] # "granted", pc[d] = "queued", res[d] = res[c],
              d \in ahead[c] \/ pc[c] # "queued", pc'[d] = "queued"
       PROVE  FALSE
  <2>1. p[c] = "queued" /\ pc[c] = "queued"
    BY <1>7, <1>12
  <2>2. p[d] = "queued"
    BY <1>7, <1>12
  <2>3. d \in f[c] /\ pc'[c] # p[c]
    BY <1>12, <2>1, <2>2
  <2> QED BY <1>7, <1>12, <2>3
<1>13. \A c \in Callers : pc[c] = "queued" /\ pc'[c] = "granted" => SignalOf[c] \notin aborted'
  BY <1>7
<1> QED BY <1>10, <1>11, <1>12, <1>13 DEF FairStep

\* Steps that leave counters, reservations and queues alone.
LEMMA QuietStep ==
  ASSUME GovernorInv,
         limits' = limits, UNCHANGED <<active, holds, ahead>>,
         pc' \in [Callers -> Places], res' \in [Callers -> Resources],
         aborted' \subseteq aborted, reading' \in BOOLEAN, fresh' \in BOOLEAN,
         \A c \in Callers : pc'[c] = "queued" <=> pc[c] = "queued",
         \A c \in Callers : pc'[c] # pc[c] => pc'[c] # "granted",
         \A c \in Callers : pc[c] = "queued" => res'[c] = res[c],
         \A c \in Callers :
           holds[c] = IF pc'[c] \in {"granted", "holding"} THEN {res'[c]} ELSE {}
  PROVE  GovernorInv' /\ FairStep
<1>1. \A r \in Resources : Queued(pc', res', r) = Queued(pc, res, r)
  BY DEF Queued
<1>2. Orderly(pc, res, active, holds, ahead)
  BY DEF GovernorInv
<1>3. \A r \in Resources : LineOn(Queued(pc', res', r), ahead')
  BY <1>1, <1>2 DEF Orderly, LineOn
<1>4. Orderly(pc', res', active', holds', ahead')
  BY <1>2, <1>3 DEF Orderly
<1>5. NoLostWakeup'
  BY <1>1, QueuesAreQueued DEF GovernorInv, NoLostWakeup
<1>6. GovernorInv'
  BY <1>4, <1>5 DEF GovernorInv, SignalAborted
<1>7. FairStep
  <2>1. \A r \in Resources : ~(active'[r] > active[r])
    BY <1>2 DEF Orderly
  <2> QED BY <2>1 DEF FairStep
<1> QED BY <1>6, <1>7

LEMMA CallSteps ==
  ASSUME GovernorInv, NEW c \in Callers, NEW r \in Calls[c], Call(c, r)
  PROVE  GovernorInv' /\ FairStep
<1>1. r \in Resources
  BY GovernorAssumption
<1>2. Orderly(pc, res, active, holds, ahead) /\ res \in [Callers -> Resources]
  BY DEF GovernorInv
<1>3. /\ pc' \in [Callers -> Places] /\ pc'[c] \in {"acquiring", "refreshing"}
      /\ res' \in [Callers -> Resources] /\ reading' \in BOOLEAN
      /\ \A d \in Callers \ {c} : pc'[d] = pc[d] /\ res'[d] = res[d]
  BY <1>1, <1>2 DEF Call, Orderly, Places, GovernorInv
<1>4. /\ limits' = limits /\ UNCHANGED <<active, holds, ahead, aborted, fresh>>
      /\ pc[c] \in {"idle", "holding"} /\ holds[c] = {}
  BY DEF Call
<1>5. \A d \in Callers :
        holds[d] = IF pc'[d] \in {"granted", "holding"} THEN {res'[d]} ELSE {}
  BY <1>2, <1>3, <1>4 DEF Orderly
<1> QED BY <1>2, <1>3, <1>4, <1>5, QuietStep DEF GovernorInv

\* A free slot is taken: nobody waits for it.
LEMMA TakeSlotSteps ==
  ASSUME GovernorInv, NEW c \in Callers, pc[c] = "acquiring", HasSlot(res[c]),
         active' = [active EXCEPT ![res[c]] = @ + 1],
         holds' = [holds EXCEPT ![c] = @ \cup {res[c]}],
         pc' = [pc EXCEPT ![c] = "granted"],
         UNCHANGED <<ahead, limits, res, aborted, reading, fresh>>
  PROVE  GovernorInv' /\ FairStep
<1>1. Orderly(pc, res, active, holds, ahead) /\ res \in [Callers -> Resources]
  BY DEF GovernorInv
<1>2. res[c] \in Resources /\ holds[c] = {}
  BY <1>1 DEF Orderly
<1>3. \A r \in Resources : Queued(pc', res', r) = Queued(pc, res, r)
  BY <1>1 DEF Queued, Orderly
<1>4. \A r \in Resources : LineOn(Queued(pc', res', r), ahead')
  <2>1. \A r \in Resources : LineOn(Queued(pc, res, r), ahead)
    BY <1>1 DEF Orderly
  <2> QED BY <1>3, <2>1 DEF LineOn
<1>5. ASSUME NEW r \in Resources
      PROVE  active'[r] = Cardinality({d \in Callers : r \in holds'[d]})
  <2> DEFINE H == {d \in Callers : r \in holds[d]}
             K == {d \in Callers : r \in holds'[d]}
  <2>1. active[r] = Cardinality(H) /\ active[r] \in Nat
    BY <1>1 DEF Orderly
  <2>2. IsFiniteSet(H)
    BY SetsAreFinite
  <2>3. CASE r = res[c]
    <3>1. K = H \cup {c} /\ c \notin H
      BY <1>1, <1>2, <2>3 DEF Orderly
    <3>2. active'[r] = active[r] + 1
      BY <1>1, <1>2, <2>3 DEF Orderly
    <3>3. Cardinality(K) = Cardinality(H) + 1
      <4> HIDE DEF H, K
      <4> QED BY <2>2, <3>1, FS_AddElement
    <3> QED BY <2>1, <3>2, <3>3
  <2>4. CASE r # res[c]
    <3>1. K = H
      BY <1>1, <1>2, <2>4 DEF Orderly
    <3>2. active'[r] = active[r]
      BY <1>1, <2>4 DEF Orderly
    <3> QED BY <2>1, <3>1, <3>2
  <2> QED BY <2>3, <2>4
<1>6. Orderly(pc', res', active', holds', ahead')
  <2>1. /\ pc' \in [Callers -> Places] /\ active' \in [Resources -> Nat]
        /\ holds' \in [Callers -> SUBSET Resources] /\ ahead' \in [Callers -> SUBSET Callers]
    BY <1>1, <1>2 DEF Orderly, Places
  <2>2. \A d \in Callers : pc'[d] # "queued" => ahead'[d] = {}
    BY <1>1 DEF Orderly
  <2>3. \A d \in Callers :
          holds'[d] = IF pc'[d] \in {"granted", "holding"} THEN {res'[d]} ELSE {}
    BY <1>1, <1>2 DEF Orderly
  <2> QED BY <1>4, <1>5, <2>1, <2>2, <2>3 DEF Orderly
<1>7. \A r \in Resources : active[r] \in Nat /\ limits[r] \in Nat
  BY <1>1, GovernorAssumption DEF Orderly, GovernorInv
<1>8. \A r \in Resources : active'[r] = IF r = res[c] THEN active[r] + 1 ELSE active[r]
  BY <1>1 DEF Orderly
<1>9. GovernorInv'
  <2>1. NoLostWakeup'
    <3>1. \A r \in Resources : Queued(pc', res', r) = Queue(r) /\ Queue(r)' = Queue(r)
      BY <1>3, QueuesAreQueued
    <3>2. \A r \in Resources : Queue(r) # {} => active[r] >= limits[r] /\ r # res[c]
      BY DEF GovernorInv, NoLostWakeup, HasSlot
    <3> QED BY <1>7, <1>8, <3>1, <3>2 DEF NoLostWakeup
  <2>2. \A d \in Callers : pc'[d] = "queued" => ~SignalAborted(d)'
    BY <1>1 DEF GovernorInv, Orderly, SignalAborted
  <2> QED BY <1>6, <2>1, <2>2 DEF GovernorInv
<1>10. FairStep
  <2>1. \A r \in Resources : active'[r] > active[r] => active'[r] <= limits'[r]
    BY <1>2, <1>7, <1>8 DEF HasSlot
  <2>2. \A d \in Callers \ {c} : pc'[d] = pc[d]
    BY <1>1 DEF Orderly
  <2>3. \A d \in Callers : pc[d] = "queued" => res[d] # res[c]
    BY DEF HasSlot, Queue, Waiting
  <2> QED BY <2>1, <2>2, <2>3 DEF FairStep
<1> QED BY <1>9, <1>10

\* A new waiter stands behind everybody who waits.
LEMMA JoinQueueSteps ==
  ASSUME GovernorInv, NEW c \in Callers, pc[c] = "acquiring",
         ~SignalAborted(c), ~HasSlot(res[c]),
         ahead' = [ahead EXCEPT ![c] = Queue(res[c])],
         pc' = [pc EXCEPT ![c] = "queued"],
         UNCHANGED <<active, holds, limits, res, aborted, reading, fresh>>
  PROVE  GovernorInv' /\ FairStep
<1>1. Orderly(pc, res, active, holds, ahead) /\ res \in [Callers -> Resources]
  BY DEF GovernorInv
<1>2. /\ \A d \in Callers : pc'[d] = IF d = c THEN "queued" ELSE pc[d]
      /\ \A d \in Callers : ahead'[d] = IF d = c THEN Queued(pc, res, res[c]) ELSE ahead[d]
  BY <1>1, QueuesAreQueued DEF Orderly
<1>3. \A r \in Resources :
        Queued(pc', res', r) = Queued(pc, res, r) \cup (IF r = res[c] THEN {c} ELSE {})
  BY <1>1, <1>2 DEF Queued
<1>4. ASSUME NEW r \in Resources PROVE LineOn(Queued(pc', res', r), ahead')
  <2>1. LineOn(Queued(pc, res, r), ahead) /\ c \notin Queued(pc, res, r)
    BY <1>1 DEF Orderly, Queued
  <2>2. \A d \in Queued(pc, res, r) : ahead'[d] = ahead[d]
    BY <1>2, <2>1 DEF Queued
  <2>3. CASE r = res[c]
    <3>1. ahead'[c] = Queued(pc, res, r) /\ Queued(pc', res', r) = Queued(pc, res, r) \cup {c}
      BY <1>2, <1>3, <2>3
    <3> DEFINE Q == Queued(pc, res, r)
    <3>2. c \notin Q /\ ahead'[c] = Q
      BY <2>1, <3>1
    <3>3. LineOn(Q, ahead')
      BY <2>1, <2>2 DEF LineOn
    <3> HIDE DEF Q
    <3>4. \A d \in Q \cup {c} : ahead'[d] \subseteq (Q \cup {c}) \ {d}
      BY <3>2, <3>3 DEF LineOn
    <3>5. \A d, e \in Q \cup {c} : d # e => d \in ahead'[e] \/ e \in ahead'[d]
      BY <3>2, <3>3 DEF LineOn
    <3>6. \A d, e \in Q \cup {c} : d \in ahead'[e] => ahead'[d] \subseteq ahead'[e]
      BY <3>2, <3>3, <3>4 DEF LineOn
    <3>7. LineOn(Q \cup {c}, ahead')
      BY <3>4, <3>5, <3>6 DEF LineOn
    <3> QED BY <3>1, <3>7 DEF Q
  <2>4. CASE r # res[c]
    <3>1. Queued(pc', res', r) = Queued(pc, res, r)
      BY <1>3, <2>4
    <3> QED BY <2>1, <2>2, <3>1 DEF LineOn
  <2> QED BY <2>3, <2>4
<1>5. Orderly(pc', res', active', holds', ahead')
  <2>1. pc' \in [Callers -> Places] /\ ahead' \in [Callers -> SUBSET Callers]
    BY <1>1, QueuesAreQueued DEF Orderly, Places, Queued
  <2>2. \A d \in Callers : pc'[d] # "queued" => ahead'[d] = {}
    BY <1>1, <1>2 DEF Orderly
  <2>3. \A d \in Callers :
          holds'[d] = IF pc'[d] \in {"granted", "holding"} THEN {res'[d]} ELSE {}
    BY <1>1, <1>2 DEF Orderly
  <2>4. /\ active' \in [Resources -> Nat] /\ holds' \in [Callers -> SUBSET Resources]
        /\ \A r \in Resources : active'[r] = Cardinality({d \in Callers : r \in holds'[d]})
    BY <1>1 DEF Orderly
  <2> QED BY <1>4, <2>1, <2>2, <2>3, <2>4 DEF Orderly
<1>6. \A r \in Resources : active[r] \in Nat /\ limits[r] \in Nat
  BY <1>1, GovernorAssumption DEF Orderly, GovernorInv
<1>7. NoLostWakeup'
  <2>1. \A r \in Resources : Queue(r) # {} => active[r] >= limits[r]
    BY DEF GovernorInv, NoLostWakeup
  <2>2. res[c] \in Resources /\ active[res[c]] >= limits[res[c]]
    BY <1>1, <1>6, <2>1 DEF HasSlot
  <2>3. \A r \in Resources : r # res[c] => Queue(r)' = Queue(r)
    <3>1. \A r \in Resources : r # res[c] => Queued(pc', res', r) = Queued(pc, res, r)
      BY <1>3
    <3> QED BY <3>1, QueuesAreQueued
  <2> QED BY <2>1, <2>2, <2>3 DEF NoLostWakeup
<1>8. GovernorInv'
  BY <1>2, <1>5, <1>7 DEF GovernorInv, SignalAborted
<1>9. FairStep
  <2>1. \A r \in Resources : ~(active'[r] > active[r])
    BY <1>6
  <2> QED BY <1>2, <2>1 DEF FairStep
<1> QED BY <1>8, <1>9

LEMMA AcquireSteps ==
  ASSUME GovernorInv, NEW c \in Callers, Acquire(c)
  PROVE  GovernorInv' /\ FairStep
<1>1. /\ pc[c] = "acquiring"
      /\ UNCHANGED <<limits, res, aborted, reading, fresh>>
  BY DEF Acquire
<1>2. CASE /\ ~SignalAborted(c) /\ HasSlot(res[c])
           /\ active' = [active EXCEPT ![res[c]] = @ + 1]
           /\ holds' = [holds EXCEPT ![c] = @ \cup {res[c]}]
           /\ pc' = [pc EXCEPT ![c] = "granted"]
           /\ UNCHANGED ahead
  BY <1>1, <1>2, TakeSlotSteps
<1>3. CASE pc' = [pc EXCEPT ![c] = "idle"] /\ UNCHANGED <<active, holds, ahead>>
  <2>1. Orderly(pc, res, active, holds, ahead) /\ res \in [Callers -> Resources]
    BY DEF GovernorInv
  <2>2. /\ pc' \in [Callers -> Places]
        /\ \A d \in Callers : pc'[d] = IF d = c THEN "idle" ELSE pc[d]
    BY <1>3, <2>1 DEF Orderly, Places
  <2>3. \A d \in Callers :
          holds[d] = IF pc'[d] \in {"granted", "holding"} THEN {res'[d]} ELSE {}
    BY <1>1, <2>1, <2>2 DEF Orderly
  <2>4. \A d \in Callers : pc'[d] = "queued" <=> pc[d] = "queued"
    BY <1>1, <2>2
  <2>5. \A d \in Callers : pc'[d] # pc[d] => pc'[d] # "granted"
    BY <2>2
  <2>6. reading' \in BOOLEAN /\ fresh' \in BOOLEAN
    BY <1>1 DEF GovernorInv
  <2> QED BY <1>1, <1>3, <2>1, <2>2, <2>3, <2>4, <2>5, <2>6, QuietStep
<1>4. CASE /\ ~SignalAborted(c) /\ ~HasSlot(res[c])
           /\ ahead' = [ahead EXCEPT ![c] = Queue(res[c])]
           /\ pc' = [pc EXCEPT ![c] = "queued"]
           /\ UNCHANGED <<active, holds>>
  BY <1>1, <1>4, JoinQueueSteps
<1> QED BY <1>2, <1>3, <1>4 DEF Acquire

\* A slot is returned: counters and reservations stay together, nobody's place changes but
\* that of the caller, who was not waiting.
LEMMA FinishSteps ==
  ASSUME GovernorInv, NEW c \in Callers, Finish(c)
  PROVE  GovernorInv' /\ FairStep
<1>1. Orderly(pc, res, active, holds, ahead) /\ res \in [Callers -> Resources]
  BY DEF GovernorInv
<1>2. PICK r \in holds[c] :
        LET h == [holds EXCEPT ![c] = @ \ {r}] IN
        /\ Drain({r}, limits,
                 [pc EXCEPT ![c] = IF h[c] = {} THEN "idle" ELSE "holding"],
                 [active EXCEPT ![r] = @ - 1], h, ahead)
        /\ UNCHANGED <<limits, res, aborted, reading, fresh>>
  BY DEF Finish
<1>3. r = res[c] /\ r \in Resources /\ pc[c] \in {"granted", "holding"} /\ holds[c] = {r}
  BY <1>1, <1>2 DEF Orderly
<1> DEFINE h == [holds EXCEPT ![c] = @ \ {r}]
           p == [pc EXCEPT ![c] = "idle"]
           a == [active EXCEPT ![r] = @ - 1]
<1>4. Drain({r}, limits, p, a, h, ahead)
  <2>1. h[c] = {}
    BY <1>1, <1>3 DEF Orderly
  <2> QED BY <1>2, <2>1
<1>5. /\ \A d \in Callers : p[d] = IF d = c THEN "idle" ELSE pc[d]
      /\ \A d \in Callers : h[d] = IF d = c THEN {} ELSE holds[d]
      /\ \A q \in Resources : a[q] = IF q = r THEN active[q] - 1 ELSE active[q]
  BY <1>1, <1>3 DEF Orderly
<1>6. \A q \in Resources : Queued(p, res, q) = Queued(pc, res, q)
  BY <1>3, <1>5 DEF Queued
<1>7. ASSUME NEW q \in Resources
      PROVE  a[q] = Cardinality({d \in Callers : q \in h[d]}) /\ a[q] \in Nat
  <2> DEFINE H == {d \in Callers : q \in holds[d]}
             K == {d \in Callers : q \in h[d]}
  <2>1. active[q] = Cardinality(H) /\ active[q] \in Nat /\ IsFiniteSet(H)
    BY <1>1, SetsAreFinite DEF Orderly
  <2>2. CASE q = r
    <3>1. K = H \ {c} /\ c \in H
      BY <1>3, <1>5, <2>2
    <3>2. Cardinality(K) = Cardinality(H) - 1
      <4> HIDE DEF H, K
      <4> QED BY <2>1, <3>1, FS_RemoveElement
    <3>3. Cardinality(K) \in Nat
      BY SetsAreFinite
    <3> QED BY <1>5, <2>1, <2>2, <3>2, <3>3
  <2>3. CASE q # r
    <3>1. K = H
      BY <1>3, <1>5, <2>3
    <3> QED BY <1>5, <2>1, <2>3, <3>1
  <2> QED BY <2>2, <2>3
<1>8. Orderly(p, res, a, h, ahead)
  <2>1. /\ p \in [Callers -> Places] /\ a \in [Resources -> Nat]
        /\ h \in [Callers -> SUBSET Resources] /\ ahead \in [Callers -> SUBSET Callers]
    BY <1>1, <1>3, <1>7 DEF Orderly, Places
  <2>2. \A q \in Resources : LineOn(Queued(p, res, q), ahead)
    BY <1>1, <1>6 DEF Orderly
  <2>3. \A d \in Callers : p[d] # "queued" => ahead[d] = {}
    BY <1>1, <1>3, <1>5 DEF Orderly
  <2>4. \A d \in Callers : h[d] = IF p[d] \in {"granted", "holding"} THEN {res[d]} ELSE {}
    BY <1>1, <1>5 DEF Orderly
  <2> HIDE DEF p, a, h
  <2> QED BY <1>7, <2>1, <2>2, <2>3, <2>4 DEF Orderly
<1>9. \A d \in Callers : p[d] = "queued" =>
        /\ pc[d] = "queued" /\ SignalOf[d] \notin aborted'
        /\ \A e \in ahead[d] : p[e] = "queued" => e \in ahead[d]
  BY <1>2, <1>5 DEF GovernorInv, SignalAborted
<1>10. \A d \in Callers : p[d] = "granted" => pc[d] = "granted"
  BY <1>5
<1>11. \A q \in Resources : a[q] <= active[q]
  BY <1>1, <1>5 DEF Orderly
<1>12. \A q \in Resources \ {r} : Queued(p, res, q) # {} => a[q] >= limits[q]
  BY <1>5, <1>6, QueuesAreQueued DEF GovernorInv, NoLostWakeup
<1>13. /\ {r} \in SUBSET Resources /\ limits \in Limits /\ res' = res /\ limits' = limits
       /\ aborted' \subseteq Signals /\ reading' \in BOOLEAN /\ fresh' \in BOOLEAN
  BY <1>2, <1>3 DEF GovernorInv
<1> HIDE DEF p, a, h
<1> QED BY <1>4, <1>8, <1>9, <1>10, <1>11, <1>12, <1>13, DrainStep

LEMMA ResumeSteps ==
  ASSUME GovernorInv, NEW c \in Callers, Resume(c)
  PROVE  GovernorInv' /\ FairStep
<1>1. CASE Finish(c)
  BY <1>1, FinishSteps
<1>2. CASE /\ pc[c] = "granted" /\ pc' = [pc EXCEPT ![c] = "holding"]
           /\ UNCHANGED <<limits, active, res, holds, ahead, aborted, reading, fresh>>
  <2>1. Orderly(pc, res, active, holds, ahead) /\ res \in [Callers -> Resources]
    BY DEF GovernorInv
  <2>2. /\ pc' \in [Callers -> Places]
        /\ \A d \in Callers : pc'[d] = IF d = c THEN "holding" ELSE pc[d]
    BY <1>2, <2>1 DEF Orderly, Places
  <2>3. \A d \in Callers :
          holds[d] = IF pc'[d] \in {"granted", "holding"} THEN {res'[d]} ELSE {}
    BY <1>2, <2>1, <2>2 DEF Orderly
  <2>4. \A d \in Callers : pc'[d] = "queued" <=> pc[d] = "queued"
    BY <1>2, <2>2
  <2>5. \A d \in Callers : pc'[d] # pc[d] => pc'[d] # "granted"
    BY <2>2
  <2>6. reading' \in BOOLEAN /\ fresh' \in BOOLEAN
    BY <1>2 DEF GovernorInv
  <2> QED BY <1>2, <2>1, <2>2, <2>3, <2>4, <2>5, <2>6, QuietStep
<1> QED BY <1>1, <1>2 DEF Resume

\* Everybody whose signal aborts leaves the lines, the others keep their order.
LEMMA AbortSteps ==
  ASSUME GovernorInv, NEW s \in Signals, Abort(s)
  PROVE  GovernorInv' /\ FairStep
<1>1. Orderly(pc, res, active, holds, ahead) /\ res \in [Callers -> Resources]
  BY DEF GovernorInv
<1> DEFINE out == RejectedBy(s)
           p == [c \in Callers |-> IF c \in out THEN "idle" ELSE pc[c]]
           f == [c \in Callers |-> IF c \in out THEN {} ELSE ahead[c] \ out]
           R == {res[c] : c \in {d \in out : pc[d] = "queued"}}
<1>2. /\ aborted' = aborted \cup {s} /\ Drain(R, limits, p, active, holds, f)
      /\ UNCHANGED <<limits, res, reading, fresh>>
  BY DEF Abort
<1>3. out \subseteq Callers
      /\ \A c \in Callers : c \in out <=> SignalOf[c] = s /\ pc[c] \in {"queued", "refreshing"}
  BY DEF RejectedBy
<1> HIDE DEF out
<1>4. \A r \in Resources : Queued(p, res, r) = Queued(pc, res, r) \ out
  BY <1>3 DEF Queued
<1>5. ASSUME NEW r \in Resources PROVE LineOn(Queued(p, res, r), f)
  <2>1. LineOn(Queued(pc, res, r), ahead)
    BY <1>1 DEF Orderly
  <2>2. \A c \in Queued(pc, res, r) \ out : f[c] = ahead[c] \ out
    BY DEF Queued
  <2>3. LineOn(Queued(pc, res, r) \ out, f)
    <3> HIDE DEF f
    <3> QED BY <2>1, <2>2, LineWithout
  <2> QED BY <1>4, <2>3
<1>6. Orderly(p, res, active, holds, f)
  <2>1. p \in [Callers -> Places] /\ f \in [Callers -> SUBSET Callers]
    BY <1>1 DEF Orderly, Places
  <2>2. \A c \in Callers : p[c] # "queued" => f[c] = {}
    BY <1>1 DEF Orderly
  <2>3. \A c \in Callers : holds[c] = IF p[c] \in {"granted", "holding"} THEN {res[c]} ELSE {}
    BY <1>1, <1>3 DEF Orderly
  <2>4. /\ active \in [Resources -> Nat] /\ holds \in [Callers -> SUBSET Resources]
        /\ \A r \in Resources : active[r] = Cardinality({d \in Callers : r \in holds[d]})
    BY <1>1 DEF Orderly
  <2> HIDE DEF p, f
  <2> QED BY <1>5, <2>1, <2>2, <2>3, <2>4 DEF Orderly
<1>7. \A c \in Callers : p[c] = "queued" =>
        /\ pc[c] = "queued" /\ SignalOf[c] \notin aborted'
        /\ \A d \in ahead[c] : p[d] = "queued" => d \in f[c]
  <2>1. \A c \in Callers : p[c] = "queued" => pc[c] = "queued" /\ c \notin out
    OBVIOUS
  <2>2. \A c \in Callers : p[c] = "queued" => SignalOf[c] \notin aborted'
    BY <1>2, <1>3, <2>1 DEF GovernorInv, SignalAborted
  <2>3. \A c \in Callers : ahead[c] \subseteq Callers
    BY <1>1 DEF Orderly
  <2> QED BY <2>1, <2>2, <2>3
<1>8. \A c \in Callers : p[c] = "granted" => pc[c] = "granted"
  OBVIOUS
<1>9. \A r \in Resources : active[r] <= active[r]
  BY <1>1 DEF Orderly
<1>10. \A r \in Resources \ R : Queued(p, res, r) # {} => active[r] >= limits[r]
  <2>1. \A r \in Resources : Queued(p, res, r) # {} => Queue(r) # {}
    BY <1>4, QueuesAreQueued
  <2> QED BY <2>1 DEF GovernorInv, NoLostWakeup
<1>11. /\ R \in SUBSET Resources /\ limits \in Limits /\ res' = res /\ limits' = limits
       /\ aborted' \subseteq Signals /\ reading' \in BOOLEAN /\ fresh' \in BOOLEAN
  BY <1>1, <1>2, <1>3 DEF GovernorInv
<1> HIDE DEF p, f, R
<1> QED BY <1>2, <1>6, <1>7, <1>8, <1>9, <1>10, <1>11, DrainStep

\* New limits drain every queue; the callers that joined the read go on to acquire.
LEMMA LimitSteps ==
  ASSUME GovernorInv, NEW lim \in Limits, Configure(lim) \/ ReadSettles(lim)
  PROVE  GovernorInv' /\ FairStep
<1>1. Orderly(pc, res, active, holds, ahead) /\ res \in [Callers -> Resources]
  BY DEF GovernorInv
<1>2. PICK p \in [Callers -> Places], R \in SUBSET Resources :
        /\ Drain(R, lim, p, active, holds, ahead)
        /\ R = Resources \/ (R = {} /\ lim = limits)
        /\ \A c \in Callers : \/ p[c] = pc[c]
                              \/ pc[c] = "refreshing" /\ p[c] = "acquiring"
        /\ res' = res /\ limits' = lim /\ aborted' = aborted
        /\ reading' \in BOOLEAN /\ fresh' \in BOOLEAN
  <2>1. CASE Configure(lim)
    <3>1. /\ Drain(Resources, lim, pc, active, holds, ahead)
          /\ limits' = lim /\ UNCHANGED <<res, aborted, reading, fresh>>
      BY <2>1 DEF Configure
    <3>2. pc \in [Callers -> Places]
      BY <1>1 DEF Orderly
    <3> QED BY <3>1, <3>2 DEF GovernorInv
  <2>2. CASE ReadSettles(lim)
    <3> DEFINE p == [c \in Callers |-> IF pc[c] = "refreshing" THEN "acquiring" ELSE pc[c]]
               R == IF lim = limits THEN {} ELSE Resources
    <3>1. /\ Drain(R, lim, p, active, holds, ahead) /\ limits' = lim
          /\ reading' = FALSE /\ fresh' = TRUE /\ UNCHANGED <<res, aborted>>
      BY <2>2 DEF ReadSettles
    <3>2. /\ p \in [Callers -> Places]
          /\ \A c \in Callers : \/ p[c] = pc[c]
                                \/ pc[c] = "refreshing" /\ p[c] = "acquiring"
      BY <1>1 DEF Orderly, Places
    <3>3. R \in SUBSET Resources /\ (R = Resources \/ (R = {} /\ lim = limits))
      OBVIOUS
    <3> HIDE DEF p, R
    <3> QED BY <3>1, <3>2, <3>3
  <2> QED BY <2>1, <2>2
<1>3. \A r \in Resources : Queued(p, res, r) = Queued(pc, res, r)
  BY <1>2 DEF Queued
<1>4. Orderly(p, res, active, holds, ahead)
  <2>1. \A r \in Resources : LineOn(Queued(p, res, r), ahead)
    BY <1>1, <1>3 DEF Orderly
  <2>2. \A c \in Callers : p[c] # "queued" => ahead[c] = {}
    BY <1>1, <1>2 DEF Orderly
  <2>3. \A c \in Callers : holds[c] = IF p[c] \in {"granted", "holding"} THEN {res[c]} ELSE {}
    BY <1>1, <1>2 DEF Orderly
  <2>4. /\ active \in [Resources -> Nat] /\ holds \in [Callers -> SUBSET Resources]
        /\ ahead \in [Callers -> SUBSET Callers]
        /\ \A r \in Resources : active[r] = Cardinality({d \in Callers : r \in holds[d]})
    BY <1>1 DEF Orderly
  <2> QED BY <1>2, <2>1, <2>2, <2>3, <2>4 DEF Orderly
<1>5. \A c \in Callers : p[c] = "queued" =>
        /\ pc[c] = "queued" /\ SignalOf[c] \notin aborted'
        /\ \A d \in ahead[c] : p[d] = "queued" => d \in ahead[c]
  BY <1>2 DEF GovernorInv, SignalAborted
<1>6. \A c \in Callers : p[c] = "granted" => pc[c] = "granted"
  BY <1>2
<1>7. \A r \in Resources : active[r] <= active[r]
  BY <1>1 DEF Orderly
<1>8. \A r \in Resources \ R : Queued(p, res, r) # {} => active[r] >= lim[r]
  BY <1>2, <1>3, QueuesAreQueued DEF GovernorInv, NoLostWakeup
<1>9. aborted' \subseteq Signals
  BY <1>2 DEF GovernorInv
<1> QED BY <1>2, <1>4, <1>5, <1>6, <1>7, <1>8, <1>9, DrainStep

LEMMA SmallSteps ==
  ASSUME GovernorInv, RefreshDue \/ UNCHANGED vars \/ \E s \in Signals : NewSignal(s)
  PROVE  GovernorInv' /\ FairStep
<1>1. Orderly(pc, res, active, holds, ahead) /\ res \in [Callers -> Resources]
  BY DEF GovernorInv
<1>2. /\ UNCHANGED <<limits, active, pc, res, holds, ahead, reading>>
      /\ aborted' \subseteq aborted /\ fresh' \in BOOLEAN
  BY DEF RefreshDue, NewSignal, vars, GovernorInv
<1>3. /\ pc' \in [Callers -> Places] /\ res' \in [Callers -> Resources] /\ reading' \in BOOLEAN
      /\ \A c \in Callers :
           holds[c] = IF pc'[c] \in {"granted", "holding"} THEN {res'[c]} ELSE {}
  BY <1>1, <1>2 DEF Orderly, GovernorInv
<1> QED BY <1>2, <1>3, QuietStep

LEMMA GovernorSteps ==
  ASSUME GovernorInv, [Next]_vars
  PROVE  GovernorInv' /\ FairStep
<1>1. ASSUME NEW c \in Callers, NEW r \in Calls[c], Call(c, r) PROVE GovernorInv' /\ FairStep
  BY <1>1, CallSteps
<1>2. ASSUME NEW c \in Callers, Acquire(c) \/ Resume(c) PROVE GovernorInv' /\ FairStep
  BY <1>2, AcquireSteps, ResumeSteps
<1>3. ASSUME NEW c \in Callers, Complete(c) PROVE GovernorInv' /\ FairStep
  BY <1>3, FinishSteps DEF Complete
<1>4. ASSUME NEW s \in Signals, Abort(s) PROVE GovernorInv' /\ FairStep
  BY <1>4, AbortSteps
<1>5. ASSUME NEW lim \in Limits, Configure(lim) \/ ReadSettles(lim)
      PROVE  GovernorInv' /\ FairStep
  BY <1>5, LimitSteps
<1>6. CASE RefreshDue \/ UNCHANGED vars \/ \E s \in Signals : NewSignal(s)
  BY <1>6, SmallSteps
<1> QED BY <1>1, <1>2, <1>3, <1>4, <1>5, <1>6 DEF Next, GovernorStep

LEMMA GovernorInit ==
  ASSUME Init
  PROVE  GovernorInv
<1>1. /\ limits \in Limits /\ res \in [Callers -> Resources]
      /\ pc = [c \in Callers |-> "idle"] /\ active = [r \in Resources |-> 0]
      /\ holds = [c \in Callers |-> {}] /\ ahead = [c \in Callers |-> {}]
      /\ aborted = {} /\ reading = FALSE /\ fresh = FALSE
  BY GovernorAssumption DEF Init
<1>2. \A r \in Resources : Queued(pc, res, r) = {}
  BY <1>1 DEF Queued
<1>3. \A r \in Resources : active[r] = Cardinality({c \in Callers : r \in holds[c]})
  <2>1. ASSUME NEW r \in Resources PROVE {c \in Callers : r \in holds[c]} = {}
    BY <1>1
  <2> QED BY <1>1, <2>1, FS_EmptySet
<1>4. \A r \in Resources : LineOn(Queued(pc, res, r), ahead)
  BY <1>2 DEF LineOn
<1>5. Orderly(pc, res, active, holds, ahead)
  BY <1>1, <1>3, <1>4 DEF Orderly, Places
<1>6. NoLostWakeup
  BY <1>2, QueuesAreQueued DEF NoLostWakeup
<1> QED BY <1>1, <1>5, <1>6 DEF GovernorInv

LEMMA GovernorInvIsEnough == GovernorInv => SlotsAreAccounted
<1> SUFFICES ASSUME GovernorInv PROVE SlotsAreAccounted
  OBVIOUS
<1>1. Orderly(pc, res, active, holds, ahead)
  BY DEF GovernorInv
<1>2. TypeOK
  BY <1>1 DEF GovernorInv, Orderly, TypeOK
<1>3. ActiveCountsHolders
  BY <1>1 DEF Orderly, ActiveCountsHolders, Holders
<1> QED BY <1>2, <1>3 DEF GovernorInv, SlotsAreAccounted

LEMMA FairStepIsEnough ==
  (GovernorInv /\ [FairStep]_vars) =>
     /\ [\A r \in Resources : active'[r] > active[r] => active'[r] <= limits'[r]]_vars
     /\ [\A c, d \in Callers :
           /\ pc'[c] = "granted" /\ pc[c] # "granted"
           /\ pc[d] = "queued" /\ res[d] = res[c]
           /\ d \in ahead[c] \/ pc[c] # "queued"
           => pc'[d] # "queued"]_vars
     /\ [\A c \in Callers :
           pc[c] = "queued" /\ pc'[c] = "granted" => SignalOf[c] \notin aborted']_vars
BY DEF FairStep

-----------------------------------------------------------------------------
\* Every step of a process is a step of its governor, or none of its business.
LEMMA SessionsStepTheGovernor == [SessionsNext]_allVars => [Next]_vars
BY DEF SessionsNext, allVars, Next, Return

\* Slots are counted exactly and none is free while somebody waits, for any number of
\* callers, resources and limits, whatever is completed, aborted or reconfigured.
THEOREM SlotsAccounted == SessionsSpec => []SlotsAreAccounted
<1>1. SessionsInit => GovernorInv
  BY GovernorInit DEF SessionsInit
<1>2. GovernorInv /\ [SessionsNext]_allVars => GovernorInv'
  BY GovernorSteps, SessionsStepTheGovernor
<1> QED BY <1>1, <1>2, GovernorInvIsEnough, PTL DEF SessionsSpec

\* Slots are granted within the limit of the moment, first come first served, and never to
\* a call that was aborted while it waited.
THEOREM GrantsFair == SessionsSpec => GrantsAreFair
<1>1. SessionsInit => GovernorInv
  BY GovernorInit DEF SessionsInit
<1>2. GovernorInv /\ [SessionsNext]_allVars => GovernorInv' /\ [FairStep]_vars
  BY GovernorSteps, SessionsStepTheGovernor
<1> QED BY <1>1, <1>2, FairStepIsEnough, PTL
        DEF SessionsSpec, GrantsAreFair, GrantsWithinLimit, NoOvertaking,
            AbortedWaiterNeverStarts

-----------------------------------------------------------------------------
\* The flows that use session k or wait for it, as an operator of the stages.
InLine(st, k) == {u \in Users : SessionOf[u] = k /\ st[u] \in {"waiting", "ready", "owner"}}

\* The inductive invariant of the sessions: entries are about the flows in their line, and
\* what a flow waits for is its place in it.
Lined(lk, st, bf) ==
  /\ lk \in [Sessions -> [tail : SUBSET Users, waiting : Nat]]
  /\ st \in [Users -> SessionStages]
  /\ bf \in [Users -> SUBSET Users]
  /\ \A k \in Sessions :
       lk[k].tail = InLine(st, k) /\ lk[k].waiting = Cardinality(InLine(st, k))
  /\ \A u \in Users : bf[u] \subseteq InLine(st, SessionOf[u]) \ {u}
  /\ \A u \in Users : st[u] # "waiting" => bf[u] = {}
  /\ \A k \in Sessions : LineOn(InLine(st, k), bf)

LEMMA LinesAreFinite ==
  ASSUME NEW st, NEW k
  PROVE  IsFiniteSet(InLine(st, k)) /\ Cardinality(InLine(st, k)) \in Nat
<1>1. IsFiniteSet(Users)
  BY GovernorAssumption, SessionsAssumption, FS_Union DEF Users
<1>2. InLine(st, k) \subseteq Users
  BY DEF InLine
<1> QED BY <1>1, <1>2, FS_Subset, FS_CardinalityType

\* Steps within the line, or outside it, that open no gate.
LEMMA StageSteps ==
  ASSUME Lined(locks, stage, before), NEW u \in Users, NEW next \in SessionStages,
         stage' = [stage EXCEPT ![u] = next], UNCHANGED <<locks, before>>,
         stage[u] \in {"waiting", "ready", "owner"} <=> next \in {"waiting", "ready", "owner"},
         next # "waiting", before[u] = {}
  PROVE  Lined(locks', stage', before')
<1>1. \A v \in Users : stage'[v] = IF v = u THEN next ELSE stage[v]
  BY DEF Lined
<1>2. \A k \in Sessions : InLine(stage', k) = InLine(stage, k)
  BY <1>1 DEF InLine
<1>3. \A v \in Users : SessionOf[v] \in Sessions
  BY SessionsAssumption
<1>4. stage' \in [Users -> SessionStages] /\ \A v \in Users : stage'[v] # "waiting" => before'[v] = {}
  BY <1>1 DEF Lined
<1> QED BY <1>2, <1>3, <1>4 DEF Lined

\* lock(): behind everybody, or alone.
LEMMA LockSteps ==
  ASSUME Lined(locks, stage, before), NEW u \in Users, NEW next \in {"waiting", "owner"},
         stage[u] \in {"out", "restoring"},
         next = "waiting" \/ ~Exists(SessionOf[u]), Lock(u, next)
  PROVE  Lined(locks', stage', before')
<1> DEFINE k == SessionOf[u]
           Q == InLine(stage, k)
<1>1. k \in Sessions /\ \A v \in Users : SessionOf[v] \in Sessions
  BY SessionsAssumption
<1>2. locks[k].tail = Q /\ locks[k].waiting = Cardinality(Q) /\ u \notin Q
  BY <1>1 DEF Lined, InLine
<1>3. /\ locks' = [locks EXCEPT ![k] = Joined(@, u)]
      /\ before' = [before EXCEPT ![u] = Q]
      /\ stage' = [stage EXCEPT ![u] = next]
  BY <1>2 DEF Lock
<1>4. /\ \A v \in Users : stage'[v] = IF v = u THEN next ELSE stage[v]
      /\ \A v \in Users : before'[v] = IF v = u THEN Q ELSE before[v]
      /\ \A j \in Sessions : locks'[j] = IF j = k THEN Joined(locks[k], u) ELSE locks[j]
  BY <1>1, <1>3 DEF Lined
<1>5. \A j \in Sessions : InLine(stage', j) = IF j = k THEN Q \cup {u} ELSE InLine(stage, j)
  BY <1>4 DEF InLine
<1>6. Cardinality(Q \cup {u}) = Cardinality(Q) + 1 /\ Cardinality(Q) \in Nat
  BY <1>2, LinesAreFinite, FS_AddElement
<1>7. next = "owner" => Q = {}
  <2>1. next = "owner" => Cardinality(Q) = 0
    BY <1>2, <1>6 DEF Exists
  <2> QED BY <2>1, LinesAreFinite, FS_EmptySet
<1>8. Q \subseteq Users
  BY DEF InLine
<1>9. /\ locks' \in [Sessions -> [tail : SUBSET Users, waiting : Nat]]
      /\ stage' \in [Users -> SessionStages] /\ before' \in [Users -> SUBSET Users]
  <2>1. Joined(locks[k], u) \in [tail : SUBSET Users, waiting : Nat]
    BY <1>2, <1>6, <1>8 DEF Joined
  <2>2. locks' = [locks EXCEPT ![k] = Joined(locks[k], u)]
    BY <1>3
  <2>3. next \in SessionStages
    BY DEF SessionStages
  <2>4. Q \in SUBSET Users /\ before \in [Users -> SUBSET Users] /\ stage \in [Users -> SessionStages]
        /\ locks \in [Sessions -> [tail : SUBSET Users, waiting : Nat]]
    BY <1>8 DEF Lined
  <2> HIDE DEF k, Q
  <2>5. before' \in [Users -> SUBSET Users]
    BY <1>3, <2>4
  <2>6. stage' \in [Users -> SessionStages]
    BY <1>3, <2>3, <2>4
  <2>7. locks' \in [Sessions -> [tail : SUBSET Users, waiting : Nat]]
    BY <2>1, <2>2, <2>4
  <2> QED BY <2>5, <2>6, <2>7
<1>10. ASSUME NEW j \in Sessions
       PROVE  locks'[j].tail = InLine(stage', j) /\ locks'[j].waiting = Cardinality(InLine(stage', j))
  <2>1. CASE j = k
    <3>0. locks'[j] = Joined(locks[k], u)
      BY <1>1, <1>4, <2>1
    <3>1. locks'[j] = [tail |-> Q \cup {u}, waiting |-> Cardinality(Q) + 1]
      BY <1>2, <3>0 DEF Joined
    <3>2. InLine(stage', j) = Q \cup {u}
      BY <1>1, <1>5, <2>1
    <3> HIDE DEF Q
    <3> QED BY <1>6, <3>1, <3>2
  <2>2. CASE j # k
    BY <1>4, <1>5, <2>2 DEF Lined
  <2> QED BY <2>1, <2>2
<1>11. \A v \in Users : before[v] \subseteq InLine(stage, SessionOf[v]) \ {v}
  BY DEF Lined
<1>12. \A v \in Users : before'[v] \subseteq InLine(stage', SessionOf[v]) \ {v}
  BY <1>1, <1>2, <1>4, <1>5, <1>11
<1>13. \A v \in Users : stage'[v] # "waiting" => before'[v] = {}
  BY <1>4, <1>7 DEF Lined
<1>14. ASSUME NEW j \in Sessions PROVE LineOn(InLine(stage', j), before')
  <2>1. LineOn(InLine(stage, j), before) /\ InLine(stage, j) \subseteq Users
    BY DEF Lined, InLine
  <2>2. CASE j = k
    <3>1. InLine(stage', j) = Q \cup {u} /\ LineOn(Q, before)
      BY <1>5, <2>1, <2>2
    <3>2. /\ before'[u] = Q /\ u \notin Q
          /\ \A v \in Q : before'[v] = before[v]
      BY <1>2, <1>4, <1>8
    <3> HIDE DEF Q, k
    <3> QED BY <3>1, <3>2 DEF LineOn
  <2>3. CASE j # k
    <3>1. InLine(stage', j) = InLine(stage, j) /\ u \notin InLine(stage, j)
      BY <1>5, <2>3 DEF InLine
    <3>2. \A v \in InLine(stage, j) : before'[v] = before[v]
      BY <1>4, <2>1, <3>1
    <3> QED BY <2>1, <3>1, <3>2 DEF LineOn
  <2> QED BY <2>2, <2>3
<1> QED BY <1>9, <1>10, <1>12, <1>13, <1>14 DEF Lined

\* release(): the line closes up behind whoever leaves, wherever it stood.
LEMMA UnlockSteps ==
  ASSUME Lined(locks, stage, before), NEW u \in Users,
         stage[u] \in {"waiting", "ready", "owner"}, Unlock(u)
  PROVE  Lined(locks', stage', before')
<1> DEFINE k == SessionOf[u]
           Q == InLine(stage, k)
<1>1. k \in Sessions /\ \A v \in Users : SessionOf[v] \in Sessions
  BY SessionsAssumption
<1>2. locks[k].tail = Q /\ locks[k].waiting = Cardinality(Q) /\ u \in Q
  BY <1>1 DEF Lined, InLine
<1>3. /\ \A v \in Users : stage'[v] = IF v = u THEN Rest(u) ELSE stage[v]
      /\ \A v \in Users : before'[v] = IF v = u THEN {} ELSE before[v] \ {u}
      /\ \A j \in Sessions : locks'[j] = IF j = k THEN Left(locks[k], u) ELSE locks[j]
  BY <1>1 DEF Lined, Unlock
<1>4. Rest(u) \in {"out", "done"}
  BY DEF Rest
<1>5. \A j \in Sessions : InLine(stage', j) = InLine(stage, j) \ {u}
  BY <1>3, <1>4 DEF InLine
<1>6. \A j \in Sessions : j # k => InLine(stage, j) \ {u} = InLine(stage, j)
  BY DEF InLine
<1>7. /\ Cardinality(Q \ {u}) = Cardinality(Q) - 1
      /\ Cardinality(Q) \in Nat /\ Cardinality(Q \ {u}) \in Nat
  <2>1. IsFiniteSet(Q) /\ Cardinality(Q) \in Nat
    BY LinesAreFinite
  <2> HIDE DEF Q
  <2> QED BY <1>2, <2>1, FS_RemoveElement, FS_CardinalityType
<1>8. Left(locks[k], u) = [tail |-> Q \ {u}, waiting |-> Cardinality(Q \ {u})]
  <2>1. CASE locks[k].waiting = 1
    <3>1. Cardinality(Q \ {u}) = 0 /\ IsFiniteSet(Q \ {u})
      BY <1>2, <1>7, <2>1, LinesAreFinite, FS_RemoveElement
    <3>2. Q \ {u} = {}
      BY <3>1, FS_EmptySet
    <3> QED BY <2>1, <3>1, <3>2 DEF Left, NoEntry
  <2>2. CASE locks[k].waiting # 1
    BY <1>2, <1>7, <2>2 DEF Left
  <2> QED BY <2>1, <2>2
<1>9. Q \ {u} \subseteq Users
  BY DEF InLine
<1>10. locks' \in [Sessions -> [tail : SUBSET Users, waiting : Nat]]
  <2>1. DOMAIN locks' = Sessions /\ locks' = [locks EXCEPT ![k] = Left(locks[k], u)]
    BY <1>1 DEF Lined, Unlock
  <2>2. Left(locks[k], u) \in [tail : SUBSET Users, waiting : Nat]
    BY <1>7, <1>8, <1>9
  <2> HIDE DEF k
  <2> QED BY <2>1, <2>2 DEF Lined
<1>11. stage' \in [Users -> SessionStages] /\ before' \in [Users -> SUBSET Users]
  BY <1>3, <1>4 DEF Lined, Unlock, SessionStages
<1>12. ASSUME NEW j \in Sessions
       PROVE  locks'[j].tail = InLine(stage', j) /\ locks'[j].waiting = Cardinality(InLine(stage', j))
  <2>1. CASE j = k
    <3>1. locks'[j] = [tail |-> Q \ {u}, waiting |-> Cardinality(Q \ {u})]
      BY <1>1, <1>3, <1>8, <2>1
    <3>2. InLine(stage', j) = Q \ {u}
      BY <1>1, <1>5, <2>1
    <3> HIDE DEF Q
    <3> QED BY <3>1, <3>2
  <2>2. CASE j # k
    BY <1>3, <1>5, <1>6, <2>2 DEF Lined
  <2> QED BY <2>1, <2>2
<1>13. \A v \in Users : before'[v] \subseteq InLine(stage', SessionOf[v]) \ {v}
  <2>1. \A v \in Users : before[v] \subseteq InLine(stage, SessionOf[v]) \ {v}
    BY DEF Lined
  <2> QED BY <1>1, <1>3, <1>5, <2>1
<1>14. \A v \in Users : stage'[v] # "waiting" => before'[v] = {}
  <2>1. \A v \in Users : stage[v] # "waiting" => before[v] = {}
    BY DEF Lined
  <2> QED BY <1>3, <2>1
<1>15. ASSUME NEW j \in Sessions PROVE LineOn(InLine(stage', j), before')
  <2>1. LineOn(InLine(stage, j), before)
    BY DEF Lined
  <2>2. /\ InLine(stage', j) = InLine(stage, j) \ {u}
        /\ \A v \in InLine(stage', j) : before'[v] = before[v] \ {u}
    BY <1>3, <1>5 DEF InLine
  <2> QED BY <2>1, <2>2 DEF LineOn
<1> QED BY <1>10, <1>11, <1>12, <1>13, <1>14, <1>15 DEF Lined

LEMMA SessionsInitLined ==
  ASSUME SessionsInit
  PROVE  Lined(locks, stage, before)
<1>1. /\ locks = [k \in Sessions |-> NoEntry]
      /\ stage = [u \in Users |-> "out"] /\ before = [u \in Users |-> {}]
  BY DEF SessionsInit
<1>2. \A k \in Sessions : InLine(stage, k) = {}
  BY <1>1 DEF InLine
<1>3. NoEntry \in [tail : SUBSET Users, waiting : Nat]
  BY DEF NoEntry
<1>4. locks \in [Sessions -> [tail : SUBSET Users, waiting : Nat]]
  BY <1>1, <1>3
<1>5. stage \in [Users -> SessionStages] /\ before \in [Users -> SUBSET Users]
  BY <1>1 DEF SessionStages
<1>6. \A k \in Sessions :
        locks[k].tail = InLine(stage, k) /\ locks[k].waiting = Cardinality(InLine(stage, k))
  BY <1>1, <1>2, FS_EmptySet DEF NoEntry
<1>7. \A u \in Users : before[u] = {}
  BY <1>1
<1> QED BY <1>2, <1>4, <1>5, <1>6, <1>7 DEF Lined, LineOn

\* A flow joins the line of its session, or decides not to.
LEMMA JoiningSteps ==
  ASSUME Lined(locks, stage, before), NEW u \in Users,
         \/ u \in Callers /\ (AcquireSession(u) \/ BeginCompaction(u) \/ AcquireIdle(u))
         \/ AppendToSession(u)
  PROVE  Lined(locks', stage', before')
<1>1. before[u] = {} /\ stage[u] \in {"out", "restoring"}
  BY DEF Lined, AcquireSession, BeginCompaction, AcquireIdle, AppendToSession, HasPermit
<1>2. CASE Lock(u, "waiting")
  BY <1>1, <1>2, LockSteps
<1>3. CASE Lock(u, "owner") /\ ~Exists(SessionOf[u])
  BY <1>1, <1>3, LockSteps
<1>4. CASE BeginCompaction(u)
  BY <1>1, <1>4, StageSteps DEF BeginCompaction, SessionStages
<1>5. CASE stage' = [stage EXCEPT ![u] = "done"] /\ UNCHANGED <<locks, before>>
  BY <1>1, <1>5, StageSteps DEF SessionStages
<1> QED BY <1>2, <1>3, <1>4, <1>5 DEF AcquireSession, AcquireIdle, AppendToSession

\* A flow in the line moves up, or leaves it.
LEMMA LineSteps ==
  ASSUME Lined(locks, stage, before), NEW u \in Users, SessionStep(u)
  PROVE  Lined(locks', stage', before')
<1>1. stage[u] \in {"waiting", "ready", "owner"}
  BY DEF SessionStep, WaiterStep, BecomeReady, GiveUp, Enter, ReleaseSession
<1>2. CASE Unlock(u)
  BY <1>1, <1>2, UnlockSteps
<1>3. CASE BecomeReady(u)
  BY <1>3, StageSteps DEF BecomeReady, SessionStages
<1>4. CASE /\ stage[u] = "ready" /\ stage' = [stage EXCEPT ![u] = "owner"]
           /\ UNCHANGED <<locks, before>>
  <2>1. before[u] = {}
    BY <1>4 DEF Lined
  <2> QED BY <1>4, <2>1, StageSteps DEF SessionStages
<1> QED BY <1>2, <1>3, <1>4 DEF SessionStep, WaiterStep, GiveUp, Enter, ReleaseSession

LEMMA LinedNext ==
  ASSUME Lined(locks, stage, before), [SessionsNext]_allVars
  PROVE  Lined(locks', stage', before')
<1>1. CASE UNCHANGED sessionVars
  BY <1>1 DEF sessionVars
<1>2. ASSUME NEW c \in Callers, Return(c) PROVE Lined(locks', stage', before')
  <2>1. c \in Users /\ stage[c] \in {"out", "done"}
    BY <1>2 DEF Return, Users
  <2>2. before[c] = {}
    BY <2>1 DEF Lined
  <2> QED BY <1>2, <2>1, <2>2, StageSteps DEF Return, SessionStages
<1>3. ASSUME NEW c \in Callers, AcquireSession(c) \/ BeginCompaction(c) \/ AcquireIdle(c)
      PROVE  Lined(locks', stage', before')
  <2>1. c \in Users
    BY DEF Users
  <2> QED BY <1>3, <2>1, JoiningSteps
<1>4. ASSUME NEW a \in Appenders, AppendToSession(a) PROVE Lined(locks', stage', before')
  <2>1. a \in Users
    BY DEF Users
  <2> QED BY <1>4, <2>1, JoiningSteps
<1>5. ASSUME NEW u \in Users, SessionStep(u) PROVE Lined(locks', stage', before')
  BY <1>5, LineSteps
<1> QED BY <1>1, <1>2, <1>3, <1>4, <1>5 DEF SessionsNext, allVars, sessionVars

\* Of two flows in a line one waits for the other, and an owner waits for nobody.
LEMMA LinedIsEnough == Lined(locks, stage, before) => SessionsAreExclusive
<1> SUFFICES ASSUME Lined(locks, stage, before) PROVE SessionsAreExclusive
  OBVIOUS
<1>1. SessionsTypeOK
  BY DEF Lined, SessionsTypeOK
<1>2. EntriesMatchUsers
  BY DEF Lined, EntriesMatchUsers, UsersOf, InLine
<1>3. ASSUME NEW u \in Users, NEW v \in Users, u # v, stage[u] = "owner", stage[v] = "owner",
             SessionOf[u] = SessionOf[v]
      PROVE  FALSE
  <2>1. /\ SessionOf[u] \in Sessions
        /\ u \in InLine(stage, SessionOf[u]) /\ v \in InLine(stage, SessionOf[u])
    BY <1>3, SessionsAssumption DEF InLine
  <2>2. before[u] = {} /\ before[v] = {}
    BY <1>3 DEF Lined
  <2>3. u \in before[v] \/ v \in before[u]
    BY <1>3, <2>1 DEF Lined, LineOn
  <2> QED BY <2>2, <2>3
<1> QED BY <1>1, <1>2, <1>3 DEF OneFlowPerSession, SessionsAreExclusive

\* No two flows of a process work in one session at the same time, and the entry of a
\* session is about exactly the flows that use it or wait for it: for any number of flows and
\* sessions, whoever gives up where it stands in the line.
THEOREM SessionsExclusive == SessionsSpec => []SessionsAreExclusive
<1>1. SessionsInit => Lined(locks, stage, before)
  BY SessionsInitLined
<1>2. Lined(locks, stage, before) /\ [SessionsNext]_allVars => Lined(locks, stage, before)'
  BY LinedNext
<1> QED BY <1>1, <1>2, LinedIsEnough, PTL DEF SessionsSpec

-----------------------------------------------------------------------------
\* A line as a sequence: each flow stands behind as many as it has in front.
Ordered(W, front) ==
  [i \in 1 .. Cardinality(W) |-> CHOOSE c \in W : Cardinality(front[c]) = i - 1]

\* Every place in a line is taken, by one flow.
LEMMA PlacesAreTaken ==
  ASSUME NEW W, IsFiniteSet(W), NEW front, LineOn(W, front), NEW i \in 1 .. Cardinality(W)
  PROVE  \E c \in W : Cardinality(front[c]) = i - 1
<1> DEFINE S == Started(W, i, front)
           T == Started(W, i - 1, front)
<1>1. /\ Cardinality(W) \in Nat
      /\ S \subseteq W /\ T \subseteq W
      /\ \A c \in W : c \in S <=> Cardinality(front[c]) < i
      /\ \A c \in W : c \in T <=> Cardinality(front[c]) < i - 1
  BY FS_CardinalityType DEF Started
<1>2. /\ Cardinality(S) \in Nat /\ (W \ S # {} => Cardinality(S) >= i)
      /\ Cardinality(T) \in Nat /\ (T # {} => Cardinality(T) <= i - 1)
      /\ IsFiniteSet(T)
  <2>1. i \in Int /\ i - 1 \in Int
    BY <1>1
  <2> QED BY <2>1, StartedFills
<1> HIDE DEF S, T
<1>3. Cardinality(S) >= i
  <2>1. W \ S = {} => S = W
    BY <1>1
  <2> QED BY <1>1, <1>2, <2>1
<1>4. Cardinality(T) <= i - 1
  BY <1>1, <1>2, FS_EmptySet
<1>5. S # T
  BY <1>1, <1>2, <1>3, <1>4
<1>6. PICK c \in W : ~(c \in S <=> c \in T)
  BY <1>1, <1>5
<1>7. Cardinality(front[c]) \in Nat
  BY FrontIsFinite
<1> QED BY <1>1, <1>6, <1>7

LEMMA PlacesDiffer ==
  ASSUME NEW W, IsFiniteSet(W), NEW front, LineOn(W, front), NEW c \in W, NEW d \in W,
         Cardinality(front[c]) = Cardinality(front[d])
  PROVE  c = d
<1> SUFFICES ASSUME c # d PROVE FALSE
  OBVIOUS
<1>1. c \in front[d] \/ d \in front[c]
  BY DEF LineOn
<1> QED BY <1>1, FrontIsShorter, FrontIsFinite

LEMMA OrderedIsTheLine ==
  ASSUME NEW W, IsFiniteSet(W), NEW front, LineOn(W, front)
  PROVE  /\ Ordered(W, front) \in Seq(W)
         /\ Len(Ordered(W, front)) = Cardinality(W)
         /\ \A i \in 1 .. Cardinality(W) :
              /\ Ordered(W, front)[i] \in W
              /\ Cardinality(front[Ordered(W, front)[i]]) = i - 1
         /\ \A c \in W :
              /\ Cardinality(front[c]) + 1 \in 1 .. Cardinality(W)
              /\ Ordered(W, front)[Cardinality(front[c]) + 1] = c
<1> DEFINE s == Ordered(W, front)
           n == Cardinality(W)
<1>1. n \in Nat
  BY FS_CardinalityType
<1>2. ASSUME NEW i \in 1 .. n
      PROVE  s[i] \in W /\ Cardinality(front[s[i]]) = i - 1
  <2>1. \E c \in W : Cardinality(front[c]) = i - 1
    BY PlacesAreTaken
  <2>2. s[i] = CHOOSE c \in W : Cardinality(front[c]) = i - 1
    BY DEF Ordered
  <2> HIDE DEF s
  <2> QED BY <2>1, <2>2
<1>3. s \in Seq(W) /\ Len(s) = n
  <2>1. s = [i \in 1 .. n |-> s[i]]
    BY DEF Ordered
  <2> HIDE DEF s, n
  <2>2. s \in [1 .. n -> W]
    BY <1>2, <2>1
  <2> QED BY <1>1, <2>2
<1>4. ASSUME NEW c \in W
      PROVE  Cardinality(front[c]) + 1 \in 1 .. n /\ s[Cardinality(front[c]) + 1] = c
  <2>1. IsFiniteSet(front[c]) /\ Cardinality(front[c]) \in Nat
    BY FrontIsFinite
  <2>2. front[c] \cup {c} \subseteq W /\ c \notin front[c]
    BY DEF LineOn
  <2>3. Cardinality(front[c]) + 1 <= n
    <3>1. Cardinality(front[c] \cup {c}) = Cardinality(front[c]) + 1
      BY <2>1, <2>2, FS_AddElement
    <3>2. Cardinality(front[c] \cup {c}) <= n
      BY <2>2, FS_Subset
    <3> QED BY <3>1, <3>2
  <2>4. Cardinality(front[c]) + 1 \in 1 .. n
    BY <1>1, <2>1, <2>3
  <2> DEFINE d == s[Cardinality(front[c]) + 1]
  <2>5. d \in W /\ Cardinality(front[d]) = Cardinality(front[c])
    <3>1. d \in W /\ Cardinality(front[d]) = (Cardinality(front[c]) + 1) - 1
      BY <1>2, <2>4
    <3> HIDE DEF d
    <3> QED BY <2>1, <3>1
  <2> HIDE DEF d, n
  <2>6. d = c
    BY <2>5, PlacesDiffer
  <2> QED BY <2>4, <2>6 DEF d
<1> QED BY <1>2, <1>3, <1>4

\* Whoever joins behind everybody is appended.
LEMMA JoiningAppends ==
  ASSUME NEW W, IsFiniteSet(W), NEW front, LineOn(W, front), NEW u, u \notin W,
         NEW V, V = W \cup {u},
         NEW front2, front2[u] = W, \A c \in W : front2[c] = front[c]
  PROVE  Ordered(V, front2) = Append(Ordered(W, front), u)
<1> DEFINE s == Ordered(W, front)
           t == Ordered(V, front2)
           n == Cardinality(W)
<1>1. IsFiniteSet(V) /\ Cardinality(V) = n + 1 /\ n \in Nat
  BY FS_AddElement, FS_CardinalityType
<1>2. LineOn(V, front2)
  BY DEF LineOn
<1>3. /\ s \in Seq(W) /\ Len(s) = n
      /\ \A i \in 1 .. n : s[i] \in W /\ Cardinality(front[s[i]]) = i - 1
  BY OrderedIsTheLine
<1>4. /\ t \in Seq(V) /\ Len(t) = n + 1
      /\ \A c \in V : t[Cardinality(front2[c]) + 1] = c
  <2>1. ASSUME NEW X, IsFiniteSet(X), LineOn(X, front2)
        PROVE  /\ Ordered(X, front2) \in Seq(X) /\ Len(Ordered(X, front2)) = Cardinality(X)
               /\ \A c \in X : Ordered(X, front2)[Cardinality(front2[c]) + 1] = c
    BY <2>1, OrderedIsTheLine
  <2> QED BY <1>1, <1>2, <2>1
<1> HIDE DEF s, t, n
<1>5. s \in Seq(V)
  BY <1>3, SeqMonotonic
<1>6. u \in V
  OBVIOUS
<1>7. /\ Append(s, u) \in Seq(V) /\ Len(Append(s, u)) = n + 1
      /\ \A i \in 1 .. n : Append(s, u)[i] = s[i]
      /\ Append(s, u)[n + 1] = u
  BY <1>3, <1>5, <1>6, AppendProperties
<1>8. ASSUME NEW i \in 1 .. n + 1 PROVE t[i] = Append(s, u)[i]
  <2>1. CASE i = n + 1
    <3>1. t[Cardinality(front2[u]) + 1] = u
      BY <1>4, <1>6
    <3> QED BY <1>7, <2>1, <3>1 DEF n
  <2>2. CASE i # n + 1
    <3>1. i \in 1 .. n
      BY <1>1, <2>2
    <3>2. s[i] \in V /\ Cardinality(front2[s[i]]) = i - 1
      BY <1>3, <3>1
    <3>3. t[(i - 1) + 1] = s[i] /\ (i - 1) + 1 = i
      BY <1>1, <1>4, <3>1, <3>2
    <3> QED BY <1>7, <3>1, <3>3
  <2> QED BY <2>1, <2>2
<1>9. t = Append(s, u)
  BY <1>4, <1>7, <1>8, SeqEqual
<1> QED BY <1>9 DEF s, t

\* Wherever somebody leaves, the others keep their order.
LEMMA LeavingRemoves ==
  ASSUME NEW W, IsFiniteSet(W), NEW front, LineOn(W, front), NEW u \in W,
         NEW front2, \A c \in W \ {u} : front2[c] = front[c] \ {u}
  PROVE  LET s == Ordered(W, front) IN
         \E i \in DOMAIN s : s[i] = u /\ Ordered(W \ {u}, front2) = Line!RemoveAt(s, i)
<1> DEFINE V == W \ {u}
           s == Ordered(W, front)
           t == Ordered(V, front2)
           n == Cardinality(W)
           p == Cardinality(front[u]) + 1
           r == Line!RemoveAt(s, p)
<1>1. IsFiniteSet(V) /\ Cardinality(V) = n - 1 /\ n \in Nat
  BY FS_RemoveElement, FS_CardinalityType
<1>2. LineOn(V, front2)
  BY DEF LineOn
<1>3. /\ s \in Seq(W) /\ Len(s) = n
      /\ \A i \in 1 .. n : s[i] \in W /\ Cardinality(front[s[i]]) = i - 1
      /\ p \in 1 .. n /\ s[p] = u
  BY OrderedIsTheLine
<1>4. /\ t \in Seq(V) /\ Len(t) = n - 1
      /\ \A c \in V : t[Cardinality(front2[c]) + 1] = c
  <2> HIDE DEF V
  <2> QED BY <1>1, <1>2, OrderedIsTheLine
<1>5. \A c \in V : IsFiniteSet(front[c]) /\ Cardinality(front[c]) \in Nat /\ c \in W
  BY FrontIsFinite
<1>6. ASSUME NEW c \in V
      PROVE  Cardinality(front2[c]) = IF Cardinality(front[c]) < p - 1
                                      THEN Cardinality(front[c]) ELSE Cardinality(front[c]) - 1
  <2>1. front2[c] = front[c] \ {u} /\ c \in W /\ c # u
    OBVIOUS
  <2>2. Cardinality(front[u]) \in Nat
    BY FrontIsFinite
  <2>3. CASE u \in front[c]
    <3>1. Cardinality(front[u]) < Cardinality(front[c])
      BY <2>1, <2>3, FrontIsShorter
    <3>2. Cardinality(front[c] \ {u}) = Cardinality(front[c]) - 1
      BY <1>5, <2>3, FS_RemoveElement
    <3> QED BY <1>5, <2>1, <2>2, <3>1, <3>2
  <2>4. CASE u \notin front[c]
    <3>1. c \in front[u] /\ front[c] \ {u} = front[c]
      BY <2>1, <2>4 DEF LineOn
    <3>2. Cardinality(front[c]) < Cardinality(front[u])
      BY <2>1, <3>1, FrontIsShorter
    <3>3. Cardinality(front2[c]) = Cardinality(front[c])
      BY <2>1, <3>1
    <3>4. Cardinality(front[c]) < p - 1
      BY <2>2, <3>2
    <3> QED BY <3>3, <3>4
  <2> QED BY <2>3, <2>4
<1>7. V \subseteq W /\ \A i \in 1 .. n : i # p => s[i] \in V
  <2>1. \A i \in 1 .. n : s[i] = u => i - 1 = p - 1
    BY <1>1, <1>3, FrontIsFinite
  <2> HIDE DEF s
  <2> QED BY <1>1, <1>3, <2>1
<1> HIDE DEF s, t, n, p, V
<1>8. \A i \in 1 .. n - 1 :
         t[i] = IF i < p THEN s[i] ELSE s[i + 1]
  <2> SUFFICES ASSUME NEW i \in 1 .. n - 1
               PROVE  t[i] = IF i < p THEN s[i] ELSE s[i + 1]
    OBVIOUS
  <2> DEFINE j == IF i < p THEN i ELSE i + 1
  <2>1. j \in 1 .. n /\ j # p
    BY <1>1, <1>3
  <2>2. s[j] \in V /\ Cardinality(front[s[j]]) = j - 1
    BY <1>3, <1>7, <2>1
  <2>3. Cardinality(front2[s[j]]) = IF j - 1 < p - 1 THEN j - 1 ELSE (j - 1) - 1
    BY <1>6, <2>2
  <2>4. Cardinality(front2[s[j]]) + 1 = i
    BY <1>1, <1>3, <2>3
  <2>5. t[i] = s[j]
    BY <1>4, <2>2, <2>4
  <2> QED BY <2>5
<1>9. /\ r \in Seq(W) /\ Len(r) = n - 1
      /\ \A i \in 1 .. n - 1 : r[i] = IF i < p THEN s[i] ELSE s[i + 1]
  <2> DEFINE a == SubSeq(s, 1, p - 1)
             b == SubSeq(s, p + 1, n)
  <2>1. /\ a \in Seq(W) /\ Len(a) = p - 1
        /\ \A i \in 1 .. p - 1 : a[i] = s[i]
    <3>1. p - 1 \in Int /\ \A i \in 1 .. p - 1 : s[i] \in W
      BY <1>1, <1>3
    <3>2. /\ a \in Seq(W) /\ Len(a) = IF 1 <= p - 1 THEN p - 1 - 1 + 1 ELSE 0
          /\ \A i \in 1 .. p - 1 - 1 + 1 : a[i] = s[1 + i - 1]
      <4> HIDE DEF a
      <4> QED BY <3>1, SubSeqProperties DEF a
    <3> HIDE DEF a
    <3> QED BY <1>1, <1>3, <3>2
  <2>2. /\ b \in Seq(W) /\ Len(b) = n - p
        /\ \A i \in 1 .. n - p : b[i] = s[p + i]
    <3>1. p + 1 \in Int /\ n \in Int /\ \A i \in p + 1 .. n : s[i] \in W
      BY <1>1, <1>3
    <3>2. /\ b \in Seq(W) /\ Len(b) = IF p + 1 <= n THEN n - (p + 1) + 1 ELSE 0
          /\ \A i \in 1 .. n - (p + 1) + 1 : b[i] = s[(p + 1) + i - 1]
      <4> HIDE DEF b
      <4> QED BY <3>1, SubSeqProperties DEF b
    <3> HIDE DEF b
    <3>3. \A i \in 1 .. n - p : (p + 1) + i - 1 = p + i /\ i \in 1 .. n - (p + 1) + 1
      BY <1>1, <1>3
    <3> QED BY <1>1, <1>3, <3>2, <3>3
  <2>3. r = a \o b
    BY <1>3 DEF Line!RemoveAt
  <2> HIDE DEF a, b, r
  <2>4. /\ r \in Seq(W) /\ Len(r) = (p - 1) + (n - p)
        /\ \A i \in 1 .. (p - 1) + (n - p) :
              r[i] = IF i <= p - 1 THEN a[i] ELSE b[i - (p - 1)]
    BY <2>1, <2>2, <2>3, ConcatProperties
  <2>5. (p - 1) + (n - p) = n - 1 /\ p \in Int /\ n \in Int
    BY <1>1, <1>3
  <2>6. ASSUME NEW i \in 1 .. n - 1 PROVE r[i] = IF i < p THEN s[i] ELSE s[i + 1]
    <3>1. CASE i < p
      BY <2>1, <2>4, <2>5, <3>1
    <3>2. CASE ~(i < p)
      <4>1. i - (p - 1) \in 1 .. n - p /\ p + (i - (p - 1)) = i + 1
        BY <2>5, <3>2
      <4> QED BY <2>2, <2>4, <2>5, <3>2, <4>1
    <3> QED BY <3>1, <3>2
  <2> QED BY <2>4, <2>5, <2>6
<1> HIDE DEF r
<1>10. t = r
  <2>1. t \in Seq(W)
    BY <1>4, <1>7, SeqMonotonic
  <2>2. \A i \in 1 .. Len(t) : t[i] = r[i]
    BY <1>4, <1>8, <1>9
  <2> QED BY <1>4, <1>9, <2>1, <2>2, SeqEqual
<1>11. DOMAIN s = 1 .. n
  BY <1>3, LenProperties
<1> QED BY <1>3, <1>10, <1>11 DEF s, t, r, V

\* The line of a session as SessionLine sees it.
Lines(st, bf) == [k \in Sessions |-> Ordered(InLine(st, k), bf)]
Using(st) == {u \in Users : st[u] = "owner"}

LEMMA LinesAreMapped ==
  /\ [k \in Sessions |-> InOrder(k)] = Lines(stage, before)
  /\ {u \in Users : stage[u] = "owner"} = Using(stage)
  /\ [k \in Sessions |-> InOrder(k)]' = Lines(stage', before')
  /\ {u \in Users : stage[u] = "owner"}' = Using(stage')
<1>1. /\ \A k \in Sessions : InOrder(k) = Ordered(InLine(stage, k), before)
      /\ \A k \in Sessions : InOrder(k)' = Ordered(InLine(stage', k), before')
  BY DEF InOrder, Ordered, UsersOf, InLine
<1> QED BY <1>1 DEF Lines, Using

\* Who is in the line of its session, and where.
LEMMA PlacesInLine ==
  ASSUME Lined(locks, stage, before), NEW u \in Users
  PROVE  LET s == Lines(stage, before)[SessionOf[u]] IN
         /\ u \in Line!ToSet(s) <=> u \in InLine(stage, SessionOf[u])
         /\ u \in InLine(stage, SessionOf[u]) /\ before[u] = {} => Head(s) = u
<1> DEFINE k == SessionOf[u]
           W == InLine(stage, k)
           s == Ordered(W, before)
<1>1. k \in Sessions /\ Lines(stage, before)[k] = s
  BY SessionsAssumption DEF Lines
<1>2. IsFiniteSet(W) /\ LineOn(W, before)
  BY <1>1, LinesAreFinite DEF Lined
<1>3. /\ s \in Seq(W) /\ Len(s) = Cardinality(W)
      /\ \A i \in 1 .. Cardinality(W) : s[i] \in W
      /\ \A c \in W :
           /\ Cardinality(before[c]) + 1 \in 1 .. Cardinality(W)
           /\ s[Cardinality(before[c]) + 1] = c
  <2> HIDE DEF W
  <2> QED BY <1>2, OrderedIsTheLine
<1>4. DOMAIN s = 1 .. Cardinality(W)
  <2> HIDE DEF W, s
  <2> QED BY <1>3, LenProperties
<1> HIDE DEF W, s
<1>5. u \in Line!ToSet(s) <=> u \in W
  BY <1>3, <1>4 DEF Line!ToSet
<1>6. u \in W /\ before[u] = {} => Head(s) = u
  <2>1. before[u] = {} => Cardinality(before[u]) + 1 = 1
    BY FS_EmptySet
  <2>2. u \in W /\ before[u] = {} => s[1] = u
    BY <1>3, <2>1
  <2>3. u \in W => s # <<>>
    BY <1>3, EmptySeq
  <2> QED BY <1>3, <2>2, <2>3, HeadTailProperties
<1> QED BY <1>1, <1>5, <1>6 DEF W, k

\* A flow that joins, one that starts and one that leaves, as steps of SessionLine.
LEMMA JoinMaps ==
  ASSUME Lined(locks, stage, before), NEW u \in Users, NEW next \in {"waiting", "owner"},
         stage[u] \in {"out", "restoring"},
         next = "waiting" \/ ~Exists(SessionOf[u]), Lock(u, next)
  PROVE  Line!Join(u)
<1> DEFINE k == SessionOf[u]
           Q == InLine(stage, k)
<1>1. k \in Sessions /\ locks[k].tail = Q /\ locks[k].waiting = Cardinality(Q) /\ u \notin Q
  BY SessionsAssumption DEF Lined, InLine
<1>2. /\ \A v \in Users : stage'[v] = IF v = u THEN next ELSE stage[v]
      /\ \A v \in Users : before'[v] = IF v = u THEN Q ELSE before[v]
  BY <1>1 DEF Lined, Lock
<1>3. \A j \in Sessions : InLine(stage', j) = IF j = k THEN Q \cup {u} ELSE InLine(stage, j)
  BY <1>2 DEF InLine
<1>4. Lines(stage', before')[k] = Append(Lines(stage, before)[k], u)
  <2>1. IsFiniteSet(Q) /\ Q \subseteq Users
    BY LinesAreFinite DEF InLine
  <2>0. LineOn(Q, before)
    BY <1>1 DEF Lined
  <2>2. before'[u] = Q /\ \A c \in Q : before'[c] = before[c]
    BY <1>1, <1>2, <2>1
  <2>3. Lines(stage', before')[k] = Ordered(Q \cup {u}, before')
    BY <1>1, <1>3 DEF Lines
  <2>4. Lines(stage, before)[k] = Ordered(Q, before)
    BY <1>1 DEF Lines
  <2> HIDE DEF Q, k
  <2>5. Ordered(Q \cup {u}, before') = Append(Ordered(Q, before), u)
    BY <1>1, <2>0, <2>1, <2>2, JoiningAppends
  <2> QED BY <2>3, <2>4, <2>5
<1>5. \A j \in Sessions : j # k => Lines(stage', before')[j] = Lines(stage, before)[j]
  <2> SUFFICES ASSUME NEW j \in Sessions, j # k
               PROVE  Ordered(InLine(stage', j), before') = Ordered(InLine(stage, j), before)
    BY DEF Lines
  <2>1. InLine(stage', j) = InLine(stage, j) /\ \A c \in InLine(stage, j) : before'[c] = before[c]
    BY <1>2, <1>3 DEF InLine
  <2>2. ASSUME NEW i PROVE (CHOOSE c \in InLine(stage, j) : Cardinality(before'[c]) = i - 1)
                         = (CHOOSE c \in InLine(stage, j) : Cardinality(before[c]) = i - 1)
    BY <2>1
  <2> QED BY <2>1, <2>2 DEF Ordered
<1>6. Lines(stage', before') = [Lines(stage, before) EXCEPT ![k] = Append(@, u)]
  BY <1>1, <1>4, <1>5 DEF Lines
<1>7. /\ Using(stage') \in {Using(stage), Using(stage) \cup {u}}
      /\ u \in Using(stage') => Lines(stage, before)[k] = <<>>
  <2>1. next = "owner" => Q = {}
    <3>1. next = "owner" => Cardinality(Q) = 0
      BY <1>1, LinesAreFinite DEF Exists
    <3> QED BY <3>1, LinesAreFinite, FS_EmptySet
  <2>2. u \in Using(stage') => next = "owner"
    BY <1>2 DEF Using
  <2>3. Q = {} => Lines(stage, before)[k] = <<>>
    <3> SUFFICES ASSUME Q = {} PROVE Lines(stage, before)[k] = <<>>
      OBVIOUS
    <3>1. /\ Lines(stage, before)[k] \in Seq(Q)
          /\ Len(Lines(stage, before)[k]) = Cardinality(Q)
      BY <1>1, LinesAreFinite, OrderedIsTheLine DEF Lines, Lined
    <3>2. Len(Lines(stage, before)[k]) = 0
      BY <3>1, FS_EmptySet
    <3> QED BY <3>1, <3>2, EmptySeq
  <2>4. Using(stage') \in {Using(stage), Using(stage) \cup {u}}
    <3>1. u \notin Using(stage)
      BY DEF Using
    <3> QED BY <1>2, <3>1 DEF Using
  <2> QED BY <2>1, <2>2, <2>3, <2>4
<1>8. u \notin Line!ToSet(Lines(stage, before)[k])
  BY <1>1, PlacesInLine
<1>9. /\ [j \in Sessions |-> InOrder(j)] = Lines(stage, before)
      /\ {v \in Users : stage[v] = "owner"} = Using(stage)
      /\ [j \in Sessions |-> InOrder(j)]' = Lines(stage', before')
      /\ {v \in Users : stage[v] = "owner"}' = Using(stage')
  BY LinesAreMapped
<1> QED BY <1>6, <1>7, <1>8, <1>9 DEF Line!Join, Line!InLine

LEMMA StartMaps ==
  ASSUME Lined(locks, stage, before), NEW u \in Users, stage[u] = "ready",
         stage' = [stage EXCEPT ![u] = "owner"], UNCHANGED before
  PROVE  Line!Start(u)
<1>1. \A v \in Users : stage'[v] = IF v = u THEN "owner" ELSE stage[v]
  BY DEF Lined
<1>2. \A k \in Sessions : InLine(stage', k) = InLine(stage, k)
  BY <1>1 DEF InLine
<1>3. Lines(stage', before') = Lines(stage, before)
  BY <1>2 DEF Lines
<1>4. Using(stage') = Using(stage) \cup {u}
  BY <1>1 DEF Using
<1>5. u \in InLine(stage, SessionOf[u]) /\ before[u] = {}
  BY DEF Lined, InLine
<1>6. LET s == Lines(stage, before)[SessionOf[u]] IN u \in Line!ToSet(s) /\ Head(s) = u
  BY <1>5, PlacesInLine
<1> QED BY <1>3, <1>4, <1>6, LinesAreMapped DEF Line!Start, Line!InLine

LEMMA LeaveMaps ==
  ASSUME Lined(locks, stage, before), NEW u \in Users,
         stage[u] \in {"waiting", "ready", "owner"}, Unlock(u)
  PROVE  Line!Leave(u)
<1> DEFINE k == SessionOf[u]
           Q == InLine(stage, k)
<1>1. k \in Sessions /\ u \in Q
  BY SessionsAssumption DEF InLine
<1>2. /\ \A v \in Users : stage'[v] = IF v = u THEN Rest(u) ELSE stage[v]
      /\ \A v \in Users : before'[v] = IF v = u THEN {} ELSE before[v] \ {u}
      /\ Rest(u) \in {"out", "done"}
  BY DEF Lined, Unlock, Rest
<1>3. \A j \in Sessions : InLine(stage', j) = InLine(stage, j) \ {u}
  BY <1>2 DEF InLine
<1>4. LET s == Lines(stage, before)[k] IN
      \E i \in DOMAIN s : s[i] = u /\ Lines(stage', before')[k] = Line!RemoveAt(s, i)
  <2>1. IsFiniteSet(Q) /\ Q \subseteq Users
    BY LinesAreFinite DEF InLine
  <2>2. LineOn(Q, before)
    BY <1>1 DEF Lined
  <2>3. \A c \in Q \ {u} : before'[c] = before[c] \ {u}
    BY <1>2, <2>1
  <2>4. Lines(stage', before')[k] = Ordered(Q \ {u}, before')
    BY <1>1, <1>3 DEF Lines
  <2>5. Lines(stage, before)[k] = Ordered(Q, before)
    BY <1>1 DEF Lines
  <2> HIDE DEF Q, k
  <2>6. ASSUME NEW bf, \A c \in Q \ {u} : bf[c] = before[c] \ {u}
        PROVE  LET s == Ordered(Q, before) IN
               \E i \in DOMAIN s : s[i] = u /\ Ordered(Q \ {u}, bf) = Line!RemoveAt(s, i)
    BY <1>1, <2>1, <2>2, <2>6, LeavingRemoves
  <2>7. LET s == Ordered(Q, before) IN
        \E i \in DOMAIN s : s[i] = u /\ Ordered(Q \ {u}, before') = Line!RemoveAt(s, i)
    BY <2>3, <2>6
  <2> QED BY <2>4, <2>5, <2>7
<1>5. \A j \in Sessions : j # k => Lines(stage', before')[j] = Lines(stage, before)[j]
  <2> SUFFICES ASSUME NEW j \in Sessions, j # k
               PROVE  Ordered(InLine(stage', j), before') = Ordered(InLine(stage, j), before)
    BY DEF Lines
  <2>1. InLine(stage', j) = InLine(stage, j) /\ u \notin InLine(stage, j)
    BY <1>3 DEF InLine
  <2>2. \A c \in InLine(stage, j) : before'[c] = before[c]
    <3>1. \A c \in InLine(stage, j) : c \in Users /\ c # u /\ SessionOf[c] = j
      BY <2>1 DEF InLine
    <3>2. \A c \in InLine(stage, j) : u \notin before[c]
      BY <2>1, <3>1 DEF Lined
    <3> QED BY <1>2, <3>1, <3>2
  <2>3. ASSUME NEW i PROVE (CHOOSE c \in InLine(stage, j) : Cardinality(before'[c]) = i - 1)
                         = (CHOOSE c \in InLine(stage, j) : Cardinality(before[c]) = i - 1)
    BY <2>2
  <2> QED BY <2>1, <2>3 DEF Ordered
<1>6. \E i \in DOMAIN Lines(stage, before)[k] :
         /\ Lines(stage, before)[k][i] = u
         /\ Lines(stage', before') = [Lines(stage, before) EXCEPT ![k] = Line!RemoveAt(@, i)]
  <2>1. PICK i \in DOMAIN Lines(stage, before)[k] :
          /\ Lines(stage, before)[k][i] = u
          /\ Lines(stage', before')[k] = Line!RemoveAt(Lines(stage, before)[k], i)
    BY <1>4
  <2>2. Lines(stage', before') = [Lines(stage, before) EXCEPT ![k] = Line!RemoveAt(@, i)]
    BY <1>1, <1>5, <2>1 DEF Lines
  <2> QED BY <2>1, <2>2
<1>7. Using(stage') = Using(stage) \ {u}
  BY <1>2 DEF Using
<1>8. u \in Line!ToSet(Lines(stage, before)[k])
  BY <1>1, PlacesInLine
<1> QED BY <1>6, <1>7, <1>8, LinesAreMapped DEF Line!Leave, Line!InLine

\* Whatever happens around the lines leaves them alone.
LEMMA StageStutters ==
  ASSUME Lined(locks, stage, before), NEW u \in Users, NEW next \in SessionStages,
         stage' = [stage EXCEPT ![u] = next], UNCHANGED before,
         stage[u] \in {"waiting", "ready"} <=> next \in {"waiting", "ready"},
         stage[u] # "owner", next # "owner"
  PROVE  UNCHANGED Line!vars
<1>1. \A v \in Users : stage'[v] = IF v = u THEN next ELSE stage[v]
  BY DEF Lined
<1>2. \A k \in Sessions : InLine(stage', k) = InLine(stage, k)
  BY <1>1 DEF InLine
<1>3. Lines(stage', before') = Lines(stage, before)
  BY <1>2 DEF Lines
<1>4. Using(stage') = Using(stage)
  BY <1>1 DEF Using
<1> QED BY <1>3, <1>4, LinesAreMapped DEF Line!vars

LEMMA LinesFollow ==
  ASSUME Lined(locks, stage, before), [SessionsNext]_allVars
  PROVE  [Line!Next]_(Line!vars)
<1>1. CASE UNCHANGED sessionVars
  BY <1>1, LinesAreMapped DEF sessionVars, Line!vars
<1>2. ASSUME NEW u \in Users, Line!Join(u) \/ Line!Start(u) \/ Line!Leave(u)
      PROVE  [Line!Next]_(Line!vars)
  BY <1>2 DEF Line!Next
<1>3. ASSUME NEW u \in Users, stage[u] \in {"waiting", "ready", "owner"}, Unlock(u)
      PROVE  [Line!Next]_(Line!vars)
  BY <1>2, <1>3, LeaveMaps
<1>4. ASSUME NEW u \in Users, NEW next \in {"waiting", "owner"},
             stage[u] \in {"out", "restoring"},
             next = "waiting" \/ ~Exists(SessionOf[u]), Lock(u, next)
      PROVE  [Line!Next]_(Line!vars)
  BY <1>2, <1>4, JoinMaps
<1>5. ASSUME NEW c \in Callers, Return(c) PROVE [Line!Next]_(Line!vars)
  <2>1. c \in Users /\ stage[c] \in {"out", "done"}
    BY <1>5 DEF Return, Users
  <2> QED BY <1>5, <2>1, StageStutters DEF Return, SessionStages
<1>6. ASSUME NEW c \in Callers, AcquireSession(c) \/ BeginCompaction(c) \/ AcquireIdle(c)
      PROVE  [Line!Next]_(Line!vars)
  <2>1. c \in Users
    BY DEF Users
  <2>2. CASE AcquireSession(c)
    BY <1>4, <2>1, <2>2 DEF AcquireSession, HasPermit
  <2>3. CASE BeginCompaction(c)
    BY <2>1, <2>3, StageStutters DEF BeginCompaction, HasPermit, SessionStages
  <2>4. CASE AcquireIdle(c)
    BY <1>4, <2>1, <2>4, StageStutters DEF AcquireIdle, SessionStages
  <2> QED BY <1>6, <2>2, <2>3, <2>4
<1>7. ASSUME NEW a \in Appenders, AppendToSession(a) PROVE [Line!Next]_(Line!vars)
  <2>1. a \in Users
    BY DEF Users
  <2> QED BY <1>4, <1>7, <2>1 DEF AppendToSession
<1>8. ASSUME NEW u \in Users, SessionStep(u) PROVE [Line!Next]_(Line!vars)
  <2>1. CASE Unlock(u)
    BY <1>3, <1>8, <2>1
       DEF SessionStep, WaiterStep, BecomeReady, GiveUp, Enter, ReleaseSession
  <2>2. CASE BecomeReady(u)
    BY <2>2, StageStutters DEF BecomeReady, SessionStages
  <2>3. CASE /\ stage[u] = "ready" /\ stage' = [stage EXCEPT ![u] = "owner"]
             /\ UNCHANGED <<locks, before>>
    BY <1>2, <2>3, StartMaps
  <2> QED BY <1>8, <2>1, <2>2, <2>3
          DEF SessionStep, WaiterStep, GiveUp, Enter, ReleaseSession
<1> QED BY <1>1, <1>5, <1>6, <1>7, <1>8 DEF SessionsNext, allVars, sessionVars

LEMMA LinesStart ==
  ASSUME SessionsInit
  PROVE  Line!Init
<1>1. Lined(locks, stage, before)
  BY SessionsInitLined
<1>2. stage = [u \in Users |-> "out"]
  BY DEF SessionsInit
<1>3. \A k \in Sessions : InLine(stage, k) = {}
  BY <1>2 DEF InLine
<1>4. \A k \in Sessions : Ordered(InLine(stage, k), before) = <<>>
  <2> SUFFICES ASSUME NEW k \in Sessions
               PROVE  Ordered(InLine(stage, k), before) = <<>>
    OBVIOUS
  <2> DEFINE W == InLine(stage, k)
             s == Ordered(W, before)
  <2>1. IsFiniteSet(W) /\ Cardinality(W) = 0 /\ LineOn(W, before)
    BY <1>1, <1>3, FS_EmptySet DEF Lined
  <2> HIDE DEF W
  <2>2. s \in Seq(W) /\ Len(s) = 0
    BY <2>1, OrderedIsTheLine
  <2> HIDE DEF s
  <2>3. s = <<>>
    BY <2>2, EmptySeq
  <2> QED BY <2>3 DEF s, W
<1>5. Lines(stage, before) = [k \in Sessions |-> <<>>] /\ Using(stage) = {}
  BY <1>2, <1>4 DEF Lines, Using
<1> QED BY <1>5, LinesAreMapped DEF Line!Init

\* First come, first served, for any number of flows and sessions: with the flows of a
\* session ordered by the gates they wait for, every step of the locks is a step of
\* SessionLine or none.  Whoever joins joins at the end, only the first of a line starts, and
\* a flow that gives up in the middle (an aborted signal opens its own gate only) leaves the
\* others in their order.  The heart is that a prefix is a place: the flows in front of a flow
\* are as many as its place says (OrderedIsTheLine), whoever has left.
THEOREM LinesKept == SessionsSpec => KeepsTheLine
<1>1. SessionsInit => Lined(locks, stage, before) /\ Line!Init
  BY SessionsInitLined, LinesStart
<1>2. Lined(locks, stage, before) /\ [SessionsNext]_allVars
        => Lined(locks, stage, before)' /\ [Line!Next]_(Line!vars)
  BY LinedNext, LinesFollow
<1> QED BY <1>1, <1>2, PTL DEF SessionsSpec, KeepsTheLine, Line!Spec

=============================================================================
