----------------------- MODULE WorkspaceBindingProofs -----------------------
(***************************************************************************)
(* The safety of WorkspaceBinding, for any number of cases, helper files,  *)
(* contents and concurrent claims.                                         *)
(*                                                                         *)
(* TypeInv and LockHeld are inductive together: removing the holder from   *)
(* the chain presupposes that there is one.  SafetyInv is inductive        *)
(* relative to them.  It adds to the two invariants what a publication     *)
(* and a promotion know between their check and their last write; claims   *)
(* outside the lock matter only in that they can make a binding unusable.  *)
(***************************************************************************)
EXTENDS WorkspaceBinding, TLAPS

Built == {"generated", "publish", "write", "execute", "passed", "validate", "confirm"}

\* What a claim remembers fits the place where it stands.
Fits(r) ==
  /\ r.pc # "idle" => r.case \in Cases
  /\ r.pc \in Built => r.pack \in PackagesOf(r.case)
  /\ r.pc \in {"check", "drifted", "rejecting", "confirm"} =>
       r.read \in Bindings /\ r.read.deps \in PackagesOf(r.case)
  /\ r.pc \in {"generated", "publish", "write"} => DOMAIN r.base = DOMAIN r.pack
  /\ r.pc = "write" =>
       /\ r.todo \subseteq DOMAIN r.pack
       /\ DOMAIN r.hit \subseteq Cases \ {r.case}
       /\ \A d \in DOMAIN r.hit :
            r.hit[d] # None /\ r.hit[d] \in Bindings /\ r.hit[d].deps \in PackagesOf(d)

TypeInv ==
  /\ TypeOK
  /\ \A b \in Actors : Fits(actor[b])
  /\ \A c \in Cases : passed[c] \subseteq PackagesOf(c)

\* Publications and promotions exclude each other.
LockHeld == \A b \in Actors : actor[b].pc \in {"write", "confirm"} => Holds(b)

\* A publication in progress: the files it has written and those it has yet to write, the
\* bindings it still has to rebase, and the other ones, which it does not concern.
PublicationOnTrack(b) ==
  LET r == actor[b] IN
  r.pc = "write" =>
    /\ \A p \in DOMAIN r.pack \ r.todo : files[p] = r.pack[p]
    /\ \A p \in r.todo : r.base[p] = files[p]
    /\ \A d \in DOMAIN r.hit : Usable(r.hit[d]) =>
         \A p \in DOMAIN r.hit[d].deps \ DOMAIN r.pack :
           files[p] = r.hit[d].deps[p] \/ p \in torn
    /\ \A d \in Cases \ ({r.case} \cup DOMAIN r.hit) : Usable(binding[d]) =>
         \A p \in DOMAIN binding[d].deps \cap DOMAIN r.pack : binding[d].deps[p] = r.pack[p]

\* A promotion about to be written is still justified.
PromotionJustified(b) ==
  LET r == actor[b] IN
  /\ r.pc \in {"passed", "validate", "confirm"} => r.pack \in passed[r.case]
  /\ r.pc = "confirm" => r.read.deps = r.pack /\ OnDisk(r.pack)

SafetyInv ==
  /\ \A b \in Actors : PublicationOnTrack(b)
  /\ \A b \in Actors : PromotionJustified(b)
  /\ ValidatedWasExecuted
  /\ BindingsDescribeFiles

-----------------------------------------------------------------------------
\* What packages, bindings and the record of an idle claim are.
LEMMA PackageFacts ==
  ASSUME NEW c \in Cases, NEW pack \in PackagesOf(c)
  PROVE  /\ pack \in Packages
         /\ DOMAIN pack \subseteq Paths
         /\ c \in DOMAIN pack
         /\ \A p \in DOMAIN pack : pack[p] \in Contents
         /\ pack = [p \in DOMAIN pack |-> pack[p]]
<1>1. PICK H \in SUBSET Helpers : pack \in [{c} \cup H -> Contents]
  BY DEF PackagesOf
<1>2. pack \in Packages
  BY DEF Packages
<1> QED BY <1>1, <1>2 DEF Paths

LEMMA RebasedFits ==
  ASSUME NEW d \in Cases, NEW b \in Bindings, b.deps \in PackagesOf(d),
         NEW c \in Cases, NEW pack \in PackagesOf(c)
  PROVE  Rebased(b, pack) \in Bindings /\ Rebased(b, pack).deps \in PackagesOf(d)
<1>1. PICK H \in SUBSET Helpers : b.deps \in [{d} \cup H -> Contents]
  BY DEF PackagesOf
<1>2. Rebased(b, pack).deps \in [{d} \cup H -> Contents]
  BY <1>1, PackageFacts DEF Rebased
<1>3. Rebased(b, pack).deps \in PackagesOf(d)
  BY <1>2 DEF PackagesOf
<1>4. Rebased(b, pack).deps \in Packages
  BY <1>3 DEF Packages
<1>5. Rebased(b, pack).status \in Statuses
  BY DEF Rebased, Statuses
<1> QED BY <1>3, <1>4, <1>5 DEF Rebased, Bindings

LEMMA BaselineFacts ==
  ASSUME TypeOK, NEW P \in SUBSET Paths
  PROVE  [p \in P |-> files[p]] \in Baselines
<1>1. [p \in P |-> files[p]] \in [P -> Contents \cup {None}]
  BY DEF TypeOK
<1> QED BY <1>1 DEF Baselines

LEMMA SelectionFacts ==
  ASSUME NEW D \in SUBSET Cases, NEW f \in [D -> Bindings]
  PROVE  f \in Selections
BY DEF Selections

LEMMA IdleFits ==
  IdleActor \in ActorRecords /\ Fits(IdleActor)
<1>1. <<>> \in Baselines
  <2>1. <<>> \in [{} -> Contents \cup {None}]
    OBVIOUS
  <2> QED BY <2>1 DEF Baselines
<1>2. <<>> \in Selections
  <2>1. <<>> \in [{} -> Bindings]
    OBVIOUS
  <2> QED BY <2>1, SelectionFacts
<1> QED BY <1>1, <1>2 DEF IdleActor, ActorRecords, Fits, Places, Built

\* A step of one claim.
LEMMA StepFits ==
  ASSUME TypeInv, NEW a \in Actors, NEW r \in ActorRecords, Fits(r), Become(a, r)
  PROVE  /\ actor' \in [Actors -> ActorRecords]
         /\ \A b \in Actors : Fits(actor'[b])
BY DEF TypeInv, TypeOK, Become

-----------------------------------------------------------------------------
\* TypeInv is kept, one lemma per group of actions.
LEMMA ClaimTypes ==
  ASSUME TypeInv, NEW a \in Actors, NEW c \in Cases, Start(a, c) \/ Resume(a, c)
  PROVE  TypeInv'
<1>1. CASE Start(a, c)
  <2> DEFINE r == [IdleActor EXCEPT !.pc = "resolve", !.case = c]
  <2>1. r \in ActorRecords /\ Fits(r)
    BY IdleFits DEF IdleActor, ActorRecords, Fits, Places, Built
  <2>2. Become(a, r)
    BY <1>1 DEF Start
  <2> HIDE DEF r
  <2>3. actor' \in [Actors -> ActorRecords] /\ \A b \in Actors : Fits(actor'[b])
    BY <2>1, <2>2, StepFits
  <2> QED BY <1>1, <2>3, WorkspaceAssumption DEF Start, TypeInv, TypeOK
<1>2. CASE Resume(a, c)
  <2>1. PICK pack \in passed[c] : Become(a, [IdleActor EXCEPT !.pc = "passed", !.case = c, !.pack = pack])
    BY <1>2 DEF Resume
  <2> DEFINE r == [IdleActor EXCEPT !.pc = "passed", !.case = c, !.pack = pack]
  <2>2. pack \in PackagesOf(c)
    BY DEF TypeInv
  <2>3. r \in ActorRecords /\ Fits(r)
    BY IdleFits, <2>2, PackageFacts DEF IdleActor, ActorRecords, Fits, Places, Built
  <2>4. Become(a, r)
    BY <2>1
  <2> HIDE DEF r
  <2>5. actor' \in [Actors -> ActorRecords] /\ \A b \in Actors : Fits(actor'[b])
    BY <2>3, <2>4, StepFits
  <2>6. tasks < MaxTasks /\ tasks' = tasks + 1 /\ UNCHANGED <<files, binding, mutations, passed, torn>>
    BY <1>2 DEF Resume
  <2> QED BY <2>5, <2>6, WorkspaceAssumption DEF TypeInv, TypeOK
<1> QED BY <1>1, <1>2

\* Steps that write nothing but the record of the claim.
LEMMA ReadTypes ==
  ASSUME TypeInv, NEW a \in Actors,
         ResolveRead(a) \/ ResolveCheck(a) \/ Reject(a) \/ RejectRead(a) \/ ValidateCheck(a) \/ Repair(a)
  PROVE  TypeInv'
<1> DEFINE s == actor[a]
<1>1. s \in ActorRecords /\ Fits(s) /\ UNCHANGED <<files, binding, mutations, passed, torn, tasks>>
  BY DEF TypeInv, TypeOK, ResolveRead, ResolveCheck, Reject, RejectRead, ValidateCheck, Repair
<1>2. s.pc # "idle"
  BY DEF ResolveRead, ResolveCheck, Reject, RejectRead, ValidateCheck, Repair
<1>3. s.case \in Cases
  BY <1>1, <1>2 DEF Fits
<1>4. /\ binding[s.case] \in Bindings \cup {None}
      /\ binding[s.case] # None => binding[s.case].deps \in PackagesOf(s.case)
  BY <1>3 DEF TypeInv, TypeOK
<1>5. ASSUME NEW r \in ActorRecords, Fits(r), Become(a, r)
      PROVE  TypeInv'
  <2>1. actor' \in [Actors -> ActorRecords] /\ \A b \in Actors : Fits(actor'[b])
    BY <1>5, StepFits
  <2> QED BY <2>1, <1>1 DEF TypeInv, TypeOK
<1>6. CASE ResolveRead(a)
  <2> DEFINE r == [s EXCEPT !.pc = IF binding[s.case] = None THEN "generate" ELSE "check",
                            !.read = binding[s.case]]
  <2>1. r \in ActorRecords /\ Fits(r)
    BY <1>1, <1>3, <1>4 DEF ActorRecords, Fits, Places, Built
  <2>2. Become(a, r)
    BY <1>6 DEF ResolveRead
  <2> QED BY <2>1, <2>2, <1>5
<1>7. CASE ResolveCheck(a)
  <2> DEFINE r == IF ~Usable(s.read) THEN [s EXCEPT !.pc = "generate", !.read = None]
                  ELSE IF OnDisk(s.read.deps) THEN [s EXCEPT !.pc = "resolved", !.read = None]
                  ELSE [s EXCEPT !.pc = "drifted"]
  <2>1. r \in ActorRecords /\ Fits(r)
    BY <1>1, <1>3, <1>7 DEF ResolveCheck, ActorRecords, Fits, Places, Built
  <2>2. Become(a, r)
    BY <1>7 DEF ResolveCheck
  <2> QED BY <2>1, <2>2, <1>5
<1>8. CASE Reject(a)
  <2> DEFINE r == [s EXCEPT !.pc = "reject"]
  <2>1. r \in ActorRecords /\ Fits(r)
    BY <1>1, <1>3 DEF ActorRecords, Fits, Places, Built
  <2>2. Become(a, r)
    BY <1>8 DEF Reject, Move
  <2> QED BY <2>1, <2>2, <1>5
<1>9. CASE RejectRead(a)
  <2> DEFINE r == IF Usable(binding[s.case])
                  THEN [s EXCEPT !.pc = "rejecting", !.read = binding[s.case]]
                  ELSE [s EXCEPT !.pc = "generate"]
  <2>1. r \in ActorRecords /\ Fits(r)
    BY <1>1, <1>3, <1>4, <1>9 DEF RejectRead, ActorRecords, Fits, Places, Built
  <2>2. Become(a, r)
    BY <1>9 DEF RejectRead
  <2> QED BY <2>1, <2>2, <1>5
<1>10. CASE ValidateCheck(a)
  <2> DEFINE r == [s EXCEPT !.pc = "confirm", !.read = binding[s.case]]
  <2>0. binding[s.case] # None
    BY <1>10 DEF ValidateCheck, Validates, Usable
  <2>1. r \in ActorRecords /\ Fits(r)
    BY <1>1, <1>3, <1>4, <1>10, <2>0 DEF ValidateCheck, ActorRecords, Fits, Places, Built
  <2>2. Become(a, r)
    BY <1>10 DEF ValidateCheck
  <2> QED BY <2>1, <2>2, <1>5
<1>11. CASE Repair(a)
  <2> DEFINE r == [s EXCEPT !.pc = "generate", !.pack = <<>>]
  <2>1. r \in ActorRecords /\ Fits(r)
    BY <1>1, <1>3 DEF ActorRecords, Fits, Places, Built
  <2>2. Become(a, r)
    BY <1>11 DEF Repair
  <2> QED BY <2>1, <2>2, <1>5
<1> QED BY <1>6, <1>7, <1>8, <1>9, <1>10, <1>11

\* Resolving and rejecting write back what they have read, as invalid.
LEMMA WriteBackTypes ==
  ASSUME TypeInv, NEW a \in Actors, WriteDrifted(a) \/ RejectWrite(a)
  PROVE  TypeInv'
<1> DEFINE s == actor[a]
           r == [s EXCEPT !.pc = "generate", !.read = None]
<1>1. s \in ActorRecords /\ Fits(s)
  BY DEF TypeInv, TypeOK
<1>2. /\ s.case \in Cases /\ s.read \in Bindings /\ s.read.deps \in PackagesOf(s.case)
      /\ Become(a, r) /\ binding' = [binding EXCEPT ![s.case] = Invalidated(s.read)]
      /\ UNCHANGED <<files, mutations, passed, torn, tasks>>
  BY <1>1 DEF WriteDrifted, RejectWrite, Fits
<1>3. r \in ActorRecords /\ Fits(r)
  BY <1>1, <1>2 DEF ActorRecords, Fits, Places, Built
<1>4. Invalidated(s.read) \in Bindings /\ Invalidated(s.read).deps \in PackagesOf(s.case)
  BY <1>2 DEF Invalidated, Bindings, Statuses
<1> HIDE DEF r
<1>5. actor' \in [Actors -> ActorRecords] /\ \A b \in Actors : Fits(actor'[b])
  BY <1>2, <1>3, StepFits
<1> QED BY <1>2, <1>4, <1>5 DEF TypeInv, TypeOK

\* Building a package, from the files or by an Agent.
LEMMA BuildTypes ==
  ASSUME TypeInv, NEW a \in Actors, Reuse(a) \/ Generate(a)
  PROVE  TypeInv'
<1> DEFINE s == actor[a]
<1>1. s \in ActorRecords /\ Fits(s) /\ UNCHANGED <<files, binding, mutations, passed, torn, tasks>>
  BY DEF TypeInv, TypeOK, Reuse, Generate
<1>2. s.case \in Cases
  BY <1>1 DEF Fits, Reuse, Generate
<1>3. ASSUME NEW r \in ActorRecords, Fits(r), Become(a, r)
      PROVE  TypeInv'
  <2>1. actor' \in [Actors -> ActorRecords] /\ \A b \in Actors : Fits(actor'[b])
    BY <1>3, StepFits
  <2> QED BY <2>1, <1>1 DEF TypeInv, TypeOK
<1>4. CASE Reuse(a)
  <2>1. files[s.case] # None
    BY <1>4 DEF Reuse
  <2>2. PICK H \in SUBSET {p \in Helpers : files[p] # None} :
          Become(a, [s EXCEPT !.pc = "execute", !.pack = [p \in {s.case} \cup H |-> files[p]]])
    BY <1>4 DEF Reuse
  <2> DEFINE pack == [p \in {s.case} \cup H |-> files[p]]
             r == [s EXCEPT !.pc = "execute", !.pack = pack]
  <2>3. pack \in PackagesOf(s.case)
    <3>1. \A p \in {s.case} \cup H : files[p] \in Contents
      BY <1>2, <2>1 DEF TypeInv, TypeOK, Paths
    <3>2. pack \in [{s.case} \cup H -> Contents]
      BY <3>1
    <3> QED BY <3>2 DEF PackagesOf
  <2>4. pack \in Packages
    BY <2>3, <1>2, PackageFacts
  <2>5. Become(a, r)
    BY <2>2
  <2> HIDE DEF pack
  <2>6. r \in ActorRecords /\ Fits(r)
    BY <1>1, <1>2, <2>3, <2>4 DEF ActorRecords, Fits, Places, Built
  <2> QED BY <2>5, <2>6, <1>3
<1>5. CASE Generate(a)
  <2>1. PICK pack \in PackagesOf(s.case) :
          Become(a, [s EXCEPT !.pc = "generated", !.pack = pack, !.base = [p \in DOMAIN pack |-> files[p]]])
    BY <1>5 DEF Generate
  <2> DEFINE base == [p \in DOMAIN pack |-> files[p]]
             r == [s EXCEPT !.pc = "generated", !.pack = pack, !.base = base]
  <2>2. base \in Baselines /\ DOMAIN base = DOMAIN pack
    BY <1>2, PackageFacts, BaselineFacts DEF TypeInv
  <2>3. Become(a, r)
    BY <2>1
  <2> HIDE DEF base
  <2>4. r \in ActorRecords /\ Fits(r)
    BY <1>1, <1>2, <2>2, PackageFacts DEF ActorRecords, Fits, Places, Built
  <2> QED BY <2>3, <2>4, <1>3
<1> QED BY <1>4, <1>5

\* Executing a package and asking for the lock.
LEMMA RequestTypes ==
  ASSUME TypeInv, NEW a \in Actors, RequestPublish(a) \/ RequestValidation(a) \/ Pass(a)
  PROVE  TypeInv'
<1> DEFINE s == actor[a]
<1>1. s \in ActorRecords /\ Fits(s)
  BY DEF TypeInv, TypeOK
<1>2. s.case \in Cases /\ s.pack \in PackagesOf(s.case)
  BY <1>1 DEF Fits, RequestPublish, RequestValidation, Pass, Built
<1>3. CASE RequestPublish(a)
  <2> DEFINE r == [s EXCEPT !.pc = "publish"]
  <2>1. r \in ActorRecords /\ Fits(r)
    BY <1>1, <1>2, <1>3 DEF RequestPublish, ActorRecords, Fits, Places, Built
  <2>2. Become(a, r) /\ mutations' = Append(mutations, a) /\ UNCHANGED <<files, binding, passed, torn, tasks>>
    BY <1>3 DEF RequestPublish, Move, Enqueue
  <2> HIDE DEF r
  <2>3. actor' \in [Actors -> ActorRecords] /\ \A b \in Actors : Fits(actor'[b])
    BY <2>1, <2>2, StepFits
  <2> QED BY <2>2, <2>3 DEF TypeInv, TypeOK
<1>4. CASE RequestValidation(a)
  <2> DEFINE r == [s EXCEPT !.pc = "validate"]
  <2>1. r \in ActorRecords /\ Fits(r)
    BY <1>1, <1>2 DEF ActorRecords, Fits, Places, Built
  <2>2. Become(a, r) /\ mutations' = Append(mutations, a) /\ UNCHANGED <<files, binding, passed, torn, tasks>>
    BY <1>4 DEF RequestValidation, Move, Enqueue
  <2> HIDE DEF r
  <2>3. actor' \in [Actors -> ActorRecords] /\ \A b \in Actors : Fits(actor'[b])
    BY <2>1, <2>2, StepFits
  <2> QED BY <2>2, <2>3 DEF TypeInv, TypeOK
<1>5. CASE Pass(a)
  <2> DEFINE r == [s EXCEPT !.pc = "passed"]
  <2>1. r \in ActorRecords /\ Fits(r)
    BY <1>1, <1>2 DEF ActorRecords, Fits, Places, Built
  <2>2. /\ Become(a, r) /\ UNCHANGED <<files, binding, mutations, torn, tasks>>
        /\ passed' = [passed EXCEPT ![s.case] = @ \cup {s.pack}]
    BY <1>5 DEF Pass, Move
  <2> HIDE DEF r
  <2>3. actor' \in [Actors -> ActorRecords] /\ \A b \in Actors : Fits(actor'[b])
    BY <2>1, <2>2, StepFits
  <2>4. \A c \in Cases : passed'[c] \subseteq PackagesOf(c)
    BY <1>2, <2>2 DEF TypeInv, TypeOK
  <2>5. passed' \in [Cases -> SUBSET Packages]
    BY <1>2, <2>2, PackageFacts DEF TypeInv, TypeOK
  <2> QED BY <2>2, <2>3, <2>4, <2>5 DEF TypeInv, TypeOK
<1> QED BY <1>3, <1>4, <1>5

\* The steps of a publication.
LEMMA PublishTypes ==
  ASSUME TypeInv, LockHeld, NEW a \in Actors, Publish(a)
  PROVE  TypeInv'
<1> DEFINE s == actor[a]
<1>1. s \in ActorRecords /\ Fits(s) /\ s.pc \in {"publish", "write"}
  BY DEF TypeInv, TypeOK, Publish, PublishCheck, WriteFile, RebaseOther, PublishBinding
<1>2. s.case \in Cases /\ s.pack \in PackagesOf(s.case)
  BY <1>1 DEF Fits, Built
<1>3. s.pack \in Packages /\ DOMAIN s.pack \subseteq Paths /\ s.pack = [p \in DOMAIN s.pack |-> s.pack[p]]
      /\ \A p \in DOMAIN s.pack : s.pack[p] \in Contents
  BY <1>2, PackageFacts
<1>4. CASE PublishCheck(a)
  <2> DEFINE D == Affected(s.case, s.pack)
             hit == [d \in D |-> binding[d]]
             r == [s EXCEPT !.pc = "write", !.todo = DOMAIN s.pack, !.hit = hit]
  <2>1. D \subseteq Cases \ {s.case}
        /\ \A d \in D : binding[d] # None /\ binding[d] \in Bindings /\ binding[d].deps \in PackagesOf(d)
    BY DEF Affected, TypeInv, TypeOK
  <2>2. Become(a, r) /\ s.pc = "publish" /\ UNCHANGED <<files, binding, mutations, passed, torn, tasks>>
    BY <1>4 DEF PublishCheck
  <2> HIDE DEF D
  <2>3. hit \in Selections
    BY <2>1, SelectionFacts
  <2>4. DOMAIN hit = D /\ \A d \in D : hit[d] = binding[d]
    OBVIOUS
  <2> HIDE DEF hit
  <2>5. r \in ActorRecords
    BY <1>1, <1>3, <2>3 DEF ActorRecords, Places
  <2>6. Fits(r)
    BY <1>1, <1>2, <2>1, <2>2, <2>4 DEF ActorRecords, Fits, Built
  <2> HIDE DEF r
  <2>7. actor' \in [Actors -> ActorRecords] /\ \A b \in Actors : Fits(actor'[b])
    BY <2>2, <2>5, <2>6, StepFits
  <2> QED BY <2>2, <2>7 DEF TypeInv, TypeOK
<1>5. CASE \E p \in Paths : WriteFile(a, p)
  <2>1. PICK p \in Paths : WriteFile(a, p)
    BY <1>5
  <2> DEFINE r == [s EXCEPT !.todo = @ \ {p}]
  <2>2. /\ p \in s.todo /\ s.pc = "write" /\ Become(a, r) /\ files' = [files EXCEPT ![p] = s.pack[p]]
        /\ UNCHANGED <<binding, mutations, passed, torn, tasks>>
    BY <2>1 DEF WriteFile
  <2>3. r \in ActorRecords /\ Fits(r)
    BY <1>1, <2>2 DEF ActorRecords, Fits, Built
  <2>4. s.pack[p] \in Contents
    BY <1>1, <1>3, <2>2 DEF Fits
  <2> HIDE DEF r
  <2>5. actor' \in [Actors -> ActorRecords] /\ \A b \in Actors : Fits(actor'[b])
    BY <2>2, <2>3, StepFits
  <2>6. files' \in [Paths -> Contents \cup {None}]
    BY <2>2, <2>4 DEF TypeInv, TypeOK
  <2> QED BY <2>2, <2>5, <2>6 DEF TypeInv, TypeOK
<1>6. CASE \E d \in Cases : RebaseOther(a, d)
  <2>1. PICK d \in Cases : RebaseOther(a, d)
    BY <1>6
  <2> DEFINE hit == [e \in DOMAIN s.hit \ {d} |-> s.hit[e]]
             r == [s EXCEPT !.hit = hit]
             rebased == Rebased(s.hit[d], s.pack)
  <2>2. /\ d \in DOMAIN s.hit /\ s.pc = "write" /\ Become(a, r) /\ binding' = [binding EXCEPT ![d] = rebased]
        /\ UNCHANGED <<files, mutations, passed, torn, tasks>>
    BY <2>1 DEF RebaseOther
  <2>3. /\ DOMAIN s.hit \subseteq Cases \ {s.case}
        /\ \A e \in DOMAIN s.hit :
             s.hit[e] # None /\ s.hit[e] \in Bindings /\ s.hit[e].deps \in PackagesOf(e)
    BY <1>1, <2>2 DEF Fits
  <2>4. hit \in Selections
    BY <2>3, SelectionFacts
  <2>5. DOMAIN hit = DOMAIN s.hit \ {d} /\ \A e \in DOMAIN hit : hit[e] = s.hit[e]
    OBVIOUS
  <2>6. rebased \in Bindings /\ rebased.deps \in PackagesOf(d)
    BY <1>2, <2>2, <2>3, RebasedFits
  <2> HIDE DEF hit, rebased
  <2>7. r \in ActorRecords
    BY <1>1, <2>4 DEF ActorRecords
  <2>8. Fits(r)
    BY <1>1, <2>2, <2>3, <2>5 DEF ActorRecords, Fits, Built
  <2> HIDE DEF r
  <2>9. actor' \in [Actors -> ActorRecords] /\ \A b \in Actors : Fits(actor'[b])
    BY <2>2, <2>7, <2>8, StepFits
  <2> QED BY <2>2, <2>6, <2>9 DEF TypeInv, TypeOK
<1>7. CASE PublishBinding(a)
  <2> DEFINE r == [s EXCEPT !.pc = "execute", !.base = <<>>]
             new == [deps |-> s.pack, status |-> "needs_validation"]
  <2>1. /\ Become(a, r) /\ binding' = [binding EXCEPT ![s.case] = new]
        /\ mutations' = Tail(mutations) /\ torn' = torn \ DOMAIN s.pack
        /\ UNCHANGED <<files, passed, tasks>>
    BY <1>7 DEF PublishBinding
  <2>2. <<>> \in Baselines
    BY IdleFits DEF ActorRecords, IdleActor
  <2>3. r \in ActorRecords /\ Fits(r)
    BY <1>1, <1>2, <2>2 DEF ActorRecords, Fits, Places, Built
  <2>4. new \in Bindings /\ new.deps \in PackagesOf(s.case)
    BY <1>2, <1>3 DEF Bindings, Statuses
  <2> HIDE DEF r, new
  <2>5. actor' \in [Actors -> ActorRecords] /\ \A b \in Actors : Fits(actor'[b])
    BY <2>1, <2>3, StepFits
  <2>6. mutations' \in Seq(Actors)
    <3>1. mutations # <<>>
      BY <1>7 DEF PublishBinding, LockHeld, Holds
    <3> QED BY <2>1, <3>1 DEF TypeInv, TypeOK
  <2> QED BY <1>2, <2>1, <2>4, <2>5, <2>6 DEF TypeInv, TypeOK
<1> QED BY <1>4, <1>5, <1>6, <1>7 DEF Publish

LEMMA ConfirmTypes ==
  ASSUME TypeInv, LockHeld, NEW a \in Actors, Confirm(a)
  PROVE  TypeInv'
<1> DEFINE s == actor[a]
           new == [s.read EXCEPT !.status = "validated"]
<1>1. s \in ActorRecords /\ Fits(s) /\ s.pc = "confirm"
  BY DEF TypeInv, TypeOK, Confirm
<1>2. s.case \in Cases /\ s.read \in Bindings /\ s.read.deps \in PackagesOf(s.case)
  BY <1>1 DEF Fits
<1>3. new \in Bindings /\ new.deps \in PackagesOf(s.case)
  BY <1>2 DEF Bindings, Statuses
<1>4. /\ binding' = binding \/ binding' = [binding EXCEPT ![s.case] = new]
      /\ mutations' = Tail(mutations) /\ Become(a, IdleActor) /\ UNCHANGED <<files, passed, torn, tasks>>
  BY DEF Confirm
<1>5. mutations # <<>>
  BY <1>1 DEF LockHeld, Holds
<1>6. mutations' \in Seq(Actors)
  BY <1>4, <1>5 DEF TypeInv, TypeOK
<1>7. actor' \in [Actors -> ActorRecords] /\ \A b \in Actors : Fits(actor'[b])
  BY <1>4, IdleFits, StepFits
<1> HIDE DEF new
<1>8. binding' \in [Cases -> Bindings \cup {None}]
      /\ \A c \in Cases : binding'[c] # None => binding'[c].deps \in PackagesOf(c)
  BY <1>2, <1>3, <1>4 DEF TypeInv, TypeOK
<1> QED BY <1>4, <1>6, <1>7, <1>8 DEF TypeInv, TypeOK

LEMMA WrittenType ==
  ASSUME TypeInv, NEW a \in Actors
  PROVE  Written(a) \subseteq Paths
<1>1. CASE actor[a].pc = "write"
  <2>1. actor[a].case \in Cases /\ actor[a].pack \in PackagesOf(actor[a].case)
    BY <1>1 DEF TypeInv, Fits, Built
  <2> QED BY <2>1, PackageFacts DEF Written
<1>2. CASE actor[a].pc # "write"
  BY <1>2 DEF Written
<1> QED BY <1>1, <1>2

\* A claim that ends, or all of them.
LEMMA EndTypes ==
  ASSUME TypeInv, Crash \/ \E a \in Actors : GiveUp(a)
  PROVE  TypeInv'
<1>1. CASE Crash
  <2>1. actor' \in [Actors -> ActorRecords] /\ \A b \in Actors : Fits(actor'[b])
    BY <1>1, IdleFits DEF Crash
  <2>2. torn' \in SUBSET Paths
    BY <1>1, WrittenType DEF Crash, TypeInv, TypeOK
  <2> QED BY <1>1, <2>1, <2>2 DEF Crash, TypeInv, TypeOK
<1>2. CASE \E a \in Actors : GiveUp(a)
  <2>1. PICK a \in Actors : GiveUp(a)
    BY <1>2
  <2>2. actor' \in [Actors -> ActorRecords] /\ \A b \in Actors : Fits(actor'[b])
    BY <2>1, IdleFits, StepFits DEF GiveUp
  <2>3. torn' \in SUBSET Paths
    BY <2>1, WrittenType DEF GiveUp, TypeInv, TypeOK
  <2>4. mutations' \in Seq(Actors)
    BY <2>1 DEF GiveUp, ReleaseLock, Holds, TypeInv, TypeOK
  <2> QED BY <2>1, <2>2, <2>3, <2>4 DEF GiveUp, TypeInv, TypeOK
<1> QED BY <1>1, <1>2

-----------------------------------------------------------------------------
\* Waiting at the end of the chain does not change who is first.
LEMMA AppendKeepsHead ==
  ASSUME TypeInv, NEW a \in Actors, NEW b \in Actors, Holds(b), Enqueue(a)
  PROVE  Holds(b)'
<1>1. mutations \in Seq(Actors) /\ mutations # <<>> /\ Head(mutations) = b
  BY DEF TypeInv, TypeOK, Holds
<1>2. mutations' = Append(mutations, a)
  BY DEF Enqueue
<1> QED BY <1>1, <1>2 DEF Holds

LEMMA LockStep ==
  ASSUME TypeInv, LockHeld, Next
  PROVE  LockHeld'
<1> SUFFICES ASSUME NEW b \in Actors, actor'[b].pc \in {"write", "confirm"}
             PROVE  Holds(b)'
  BY DEF LockHeld
<1>0. \A c \in Actors : actor[c] \in ActorRecords
  BY DEF TypeInv, TypeOK
<1>1. ASSUME NEW a \in Actors, NEW c \in Cases, Start(a, c) \/ Resume(a, c)
      PROVE  Holds(b)'
  <2>1. mutations' = mutations /\ actor'[a].pc \in {"resolve", "passed"}
    BY <1>1 DEF Start, Resume, IdleActor, Become, TypeInv, TypeOK
  <2>2. b # a /\ actor'[b] = actor[b]
    BY <1>1, <2>1 DEF Start, Resume, Become, TypeInv, TypeOK
  <2> QED BY <2>1, <2>2 DEF LockHeld, Holds
<1>2. ASSUME NEW a \in Actors,
             \/ ResolveRead(a) \/ ResolveCheck(a) \/ WriteDrifted(a) \/ Reuse(a)
             \/ Reject(a) \/ RejectRead(a) \/ RejectWrite(a)
             \/ Generate(a) \/ Pass(a) \/ Repair(a)
      PROVE  Holds(b)'
  <2>1. mutations' = mutations
    BY <1>2 DEF ResolveRead, ResolveCheck, WriteDrifted, Reuse, Reject, RejectRead, RejectWrite,
                Generate, Pass, Repair
  <2>2. \E r : r.pc \notin {"write", "confirm"} /\ Become(a, r)
    BY <1>2, <1>0 DEF ResolveRead, ResolveCheck, WriteDrifted, Reuse, Reject, RejectRead, RejectWrite,
                Generate, Pass, Repair, Move, ActorRecords
  <2>3. b # a /\ actor'[b] = actor[b]
    BY <2>2 DEF Become, TypeInv, TypeOK
  <2> QED BY <2>1, <2>3 DEF LockHeld, Holds
<1>3. ASSUME NEW a \in Actors, RequestPublish(a) \/ RequestValidation(a)
      PROVE  Holds(b)'
  <2>1. b # a /\ actor'[b] = actor[b] /\ Enqueue(a)
    BY <1>3, <1>0 DEF RequestPublish, RequestValidation, Move, Become, ActorRecords, TypeInv, TypeOK
  <2>2. Holds(b)
    BY <2>1 DEF LockHeld
  <2> QED BY <2>1, <2>2, AppendKeepsHead
<1>4. ASSUME NEW a \in Actors,
             \/ PublishCheck(a) \/ ValidateCheck(a)
             \/ \E p \in Paths : WriteFile(a, p)
             \/ \E d \in Cases : RebaseOther(a, d)
      PROVE  Holds(b)'
  <2>1. mutations' = mutations /\ Holds(a) /\ \E r : Become(a, r)
    BY <1>4 DEF PublishCheck, ValidateCheck, WriteFile, RebaseOther, LockHeld
  <2>2. CASE b = a
    BY <2>1, <2>2 DEF Holds
  <2>3. CASE b # a
    BY <2>1, <2>3 DEF LockHeld, Holds, Become, TypeInv, TypeOK
  <2> QED BY <2>2, <2>3
<1>5. ASSUME NEW a \in Actors, PublishBinding(a) \/ Confirm(a)
      PROVE  Holds(b)'
  <2>1. Holds(a)
    BY <1>5 DEF PublishBinding, Confirm, LockHeld
  <2>2. actor'[a].pc \in {"execute", "idle"}
    <3>1. CASE PublishBinding(a)
      BY <3>1, <1>0 DEF PublishBinding, ActorRecords, Become, TypeInv, TypeOK
    <3>2. CASE Confirm(a)
      BY <3>2 DEF Confirm, IdleActor, Become, TypeInv, TypeOK
    <3> QED BY <1>5, <3>1, <3>2
  <2>3. b # a /\ actor'[b] = actor[b]
    BY <1>5, <2>2 DEF PublishBinding, Confirm, Become, TypeInv, TypeOK
  <2> QED BY <2>1, <2>3 DEF LockHeld, Holds
<1>6. ASSUME NEW a \in Actors, GiveUp(a)
      PROVE  Holds(b)'
  <2>1. b # a /\ actor'[b] = actor[b] /\ mutations' = ReleaseLock(a)
    BY <1>6 DEF GiveUp, Become, IdleActor, TypeInv, TypeOK
  <2> QED BY <2>1 DEF LockHeld, Holds, ReleaseLock
<1>7. CASE Crash
  BY <1>7 DEF Crash, IdleActor
<1> QED BY <1>1, <1>2, <1>3, <1>4, <1>5, <1>6, <1>7 DEF Next, Prepare, Publish, Validate

LEMMA TypeStep ==
  ASSUME TypeInv, LockHeld, [Next]_vars
  PROVE  TypeInv' /\ LockHeld'
<1>1. CASE Next
  BY <1>1, LockStep, ClaimTypes, ReadTypes, WriteBackTypes, BuildTypes, RequestTypes,
     PublishTypes, ConfirmTypes, EndTypes DEF Next, Prepare, Validate
<1>2. CASE UNCHANGED vars
  BY <1>2 DEF vars, TypeInv, TypeOK, LockHeld, Holds
<1> QED BY <1>1, <1>2

LEMMA TypeInit ==
  ASSUME Init
  PROVE  TypeInv /\ LockHeld
<1>1. actor \in [Actors -> ActorRecords] /\ \A b \in Actors : Fits(actor[b])
  BY IdleFits DEF Init
<1>2. TypeOK
  BY <1>1, WorkspaceAssumption DEF Init, TypeOK
<1>3. LockHeld
  BY DEF Init, LockHeld, IdleActor
<1> QED BY <1>1, <1>2, <1>3 DEF Init, TypeInv

\* Every reachable state of the workspace is well typed; in particular a binding always
\* describes an implementation of its own case.
THEOREM WorkspaceTypes == Spec => []TypeOK
<1>1. TypeInv => TypeOK
  BY DEF TypeInv
<1> QED BY <1>1, TypeInit, TypeStep, PTL DEF Spec

-----------------------------------------------------------------------------
\* The lock excludes.
LEMMA OneHolder ==
  ASSUME LockHeld, NEW a \in Actors, Holds(a), NEW b \in Actors \ {a}
  PROVE  actor[b].pc \notin {"write", "confirm"} /\ Written(b) = {}
BY DEF LockHeld, Holds, Written

\* What Become does, in terms of application.
LEMMA BecomeFacts ==
  ASSUME TypeInv, NEW a \in Actors, NEW r, Become(a, r)
  PROVE  actor'[a] = r /\ \A b \in Actors \ {a} : actor'[b] = actor[b]
BY DEF Become, TypeInv, TypeOK

\* A step that neither enters nor leaves nor disturbs a critical section, and at most
\* makes the binding of one case unusable.
LEMMA QuietSafety ==
  ASSUME TypeInv, SafetyInv, NEW a \in Actors,
         \A b \in Actors \ {a} : actor'[b] = actor[b],
         actor[a].pc \notin {"write", "confirm"}, actor'[a].pc \notin {"write", "confirm"},
         PromotionJustified(a)',
         UNCHANGED <<files, torn>>, \A c \in Cases : passed[c] \subseteq passed'[c],
         \A c \in Cases : binding'[c] = binding[c] \/ ~Usable(binding'[c]),
         \A c \in Cases : binding'[c] # None /\ binding'[c] # binding[c] => binding'[c].status # "validated"
  PROVE  SafetyInv'
<1>1. \A b \in Actors : Written(b)' = Written(b)
  BY DEF Written
<1>2. \A b \in Actors : PublicationOnTrack(b)'
  <2> SUFFICES ASSUME NEW b \in Actors, actor'[b].pc = "write"
               PROVE  PublicationOnTrack(b)'
    BY DEF PublicationOnTrack
  <2>1. actor'[b] = actor[b] /\ PublicationOnTrack(b)
    BY DEF SafetyInv
  <2> QED BY <2>1 DEF PublicationOnTrack, Usable
<1>3. \A b \in Actors : PromotionJustified(b)'
  <2> SUFFICES ASSUME NEW b \in Actors, b # a, actor'[b].pc \in {"passed", "validate", "confirm"}
               PROVE  PromotionJustified(b)'
    BY DEF PromotionJustified
  <2>1. actor'[b] = actor[b] /\ PromotionJustified(b)
    BY DEF SafetyInv
  <2>2. actor[b].case \in Cases
    BY <2>1 DEF TypeInv, Fits
  <2> QED BY <2>1, <2>2 DEF PromotionJustified, OnDisk
<1>4. ValidatedWasExecuted'
  BY DEF SafetyInv, ValidatedWasExecuted, Usable
<1>5. BindingsDescribeFiles'
  BY <1>1 DEF SafetyInv, BindingsDescribeFiles, Usable
<1> QED BY <1>2, <1>3, <1>4, <1>5 DEF SafetyInv

LEMMA QuietActions ==
  ASSUME TypeInv, SafetyInv, NEW a \in Actors,
         \/ \E c \in Cases : Start(a, c) \/ Resume(a, c)
         \/ Prepare(a) \/ Generate(a) \/ RequestPublish(a) \/ Pass(a) \/ Repair(a)
         \/ RequestValidation(a)
  PROVE  SafetyInv'
<1> DEFINE s == actor[a]
<1>0. s \in ActorRecords /\ Fits(s)
  BY DEF TypeInv, TypeOK
<1>1. UNCHANGED <<files, torn>> /\ s.pc \notin {"write", "confirm"} /\ \E r : Become(a, r)
  BY DEF Start, Resume, Prepare, ResolveRead, ResolveCheck, WriteDrifted, Reuse, Reject, RejectRead,
         RejectWrite, Generate, RequestPublish, Pass, Repair, RequestValidation, Move
<1>2. \A b \in Actors \ {a} : actor'[b] = actor[b]
  BY <1>1, BecomeFacts
<1>3. CASE \E c \in Cases : Start(a, c)
  <2>1. actor'[a].pc = "resolve" /\ UNCHANGED <<binding, passed>>
    BY <1>3 DEF Start, IdleActor, Become, TypeInv, TypeOK
  <2>2. PromotionJustified(a)'
    BY <2>1 DEF PromotionJustified
  <2> QED BY <1>1, <1>2, <2>1, <2>2, QuietSafety
<1>4. CASE \E c \in Cases : Resume(a, c)
  <2>1. PICK c \in Cases : Resume(a, c)
    BY <1>4
  <2>2. PICK pack \in passed[c] : Become(a, [IdleActor EXCEPT !.pc = "passed", !.case = c, !.pack = pack])
    BY <2>1 DEF Resume
  <2>3. actor'[a] = [IdleActor EXCEPT !.pc = "passed", !.case = c, !.pack = pack]
        /\ UNCHANGED <<binding, passed>>
    BY <2>1, <2>2, BecomeFacts DEF Resume
  <2>4. actor'[a].pc = "passed" /\ actor'[a].case = c /\ actor'[a].pack = pack
    BY <2>3 DEF IdleActor
  <2>5. PromotionJustified(a)'
    BY <2>3, <2>4 DEF PromotionJustified
  <2> QED BY <1>1, <1>2, <2>3, <2>4, <2>5, QuietSafety
<1>5. CASE ResolveRead(a) \/ ResolveCheck(a) \/ Reuse(a) \/ Reject(a) \/ RejectRead(a)
           \/ Generate(a) \/ RequestPublish(a) \/ Repair(a)
  <2>1. UNCHANGED <<binding, passed>>
    BY <1>5 DEF ResolveRead, ResolveCheck, Reuse, Reject, RejectRead, Generate, RequestPublish, Repair
  <2>2. actor'[a].pc \notin {"write", "passed", "validate", "confirm"}
    <3>1. CASE ResolveRead(a)
      BY <1>0, <3>1 DEF ResolveRead, ActorRecords, Become, TypeInv, TypeOK
    <3>2. CASE ResolveCheck(a)
      BY <1>0, <3>2 DEF ResolveCheck, ActorRecords, Become, TypeInv, TypeOK
    <3>3. CASE RejectRead(a)
      BY <1>0, <3>3 DEF RejectRead, ActorRecords, Become, TypeInv, TypeOK
    <3>4. CASE Reuse(a) \/ Reject(a)
      <4>1. CASE Reuse(a)
        BY <1>0, <4>1 DEF Reuse, Move, ActorRecords, Become, TypeInv, TypeOK
      <4>2. CASE Reject(a)
        BY <1>0, <4>2 DEF Reject, Move, ActorRecords, Become, TypeInv, TypeOK
      <4> QED BY <3>4, <4>1, <4>2
    <3>5. CASE RequestPublish(a)
      BY <1>0, <3>5 DEF RequestPublish, Move, ActorRecords, Become, TypeInv, TypeOK
    <3>6. CASE Repair(a)
      BY <1>0, <3>6 DEF Repair, ActorRecords, Become, TypeInv, TypeOK
    <3>7. CASE Generate(a)
      <4>1. PICK pack, base : Become(a, [s EXCEPT !.pc = "generated", !.pack = pack, !.base = base])
        BY <3>7 DEF Generate
      <4> QED BY <1>0, <4>1 DEF ActorRecords, Become, TypeInv, TypeOK
    <3> QED BY <1>5, <3>1, <3>2, <3>3, <3>4, <3>5, <3>6, <3>7
  <2>3. PromotionJustified(a)'
    BY <2>2 DEF PromotionJustified
  <2> QED BY <1>1, <1>2, <2>1, <2>2, <2>3, QuietSafety
<1>6. CASE WriteDrifted(a) \/ RejectWrite(a)
  <2>1. /\ s.case \in Cases /\ s.read \in Bindings /\ passed' = passed
        /\ binding' = [binding EXCEPT ![s.case] = Invalidated(s.read)]
        /\ Become(a, [s EXCEPT !.pc = "generate", !.read = None])
    BY <1>0, <1>6 DEF WriteDrifted, RejectWrite, Fits
  <2>2. actor'[a].pc = "generate"
    BY <1>0, <2>1 DEF ActorRecords, Become, TypeInv, TypeOK
  <2>3. PromotionJustified(a)'
    BY <2>2 DEF PromotionJustified
  <2>4. Invalidated(s.read).status = "invalid"
    BY <2>1 DEF Invalidated, Bindings
  <2>5. binding'[s.case] \in Bindings \cup {None}
    BY <1>6, WriteBackTypes, <2>1 DEF TypeInv, TypeOK
  <2>6. \A c \in Cases : binding'[c] = binding[c] \/ ~Usable(binding'[c])
    BY <2>1, <2>4 DEF Usable, TypeInv, TypeOK
  <2>7. ASSUME NEW c \in Cases, binding'[c] # None, binding'[c] # binding[c]
        PROVE  binding'[c].status # "validated"
    BY <2>1, <2>4, <2>7 DEF TypeInv, TypeOK
  <2> QED BY <1>1, <1>2, <2>1, <2>2, <2>3, <2>6, <2>7, QuietSafety
<1>7. CASE Pass(a)
  <2>1. Become(a, [s EXCEPT !.pc = "passed"]) /\ binding' = binding
        /\ s.case \in Cases /\ passed' = [passed EXCEPT ![s.case] = @ \cup {s.pack}]
    BY <1>0, <1>7 DEF Pass, Move, Fits
  <2>2. actor'[a].pc = "passed" /\ actor'[a].case = s.case /\ actor'[a].pack = s.pack
    BY <1>0, <2>1, BecomeFacts DEF ActorRecords
  <2>3. \A c \in Cases : passed[c] \subseteq passed'[c]
    BY <2>1 DEF TypeInv, TypeOK
  <2>4. s.pack \in passed'[s.case]
    BY <2>1 DEF TypeInv, TypeOK
  <2>5. PromotionJustified(a)'
    BY <2>2, <2>4 DEF PromotionJustified
  <2> QED BY <1>1, <1>2, <2>1, <2>2, <2>3, <2>5, QuietSafety
<1>8. CASE RequestValidation(a)
  <2>1. Become(a, [s EXCEPT !.pc = "validate"]) /\ s.pc = "passed" /\ UNCHANGED <<binding, passed>>
    BY <1>8 DEF RequestValidation, Move
  <2>2. actor'[a].pc = "validate" /\ actor'[a].case = s.case /\ actor'[a].pack = s.pack
    BY <1>0, <2>1, BecomeFacts DEF ActorRecords
  <2>3. PromotionJustified(a)'
    BY <2>1, <2>2 DEF PromotionJustified, SafetyInv
  <2> QED BY <1>1, <1>2, <2>1, <2>2, <2>3, QuietSafety
<1> QED BY <1>3, <1>4, <1>5, <1>6, <1>7, <1>8 DEF Prepare

\* The steps of the lock holder.
LEMMA PublishCheckSafety ==
  ASSUME TypeInv, LockHeld, SafetyInv, NEW a \in Actors, PublishCheck(a)
  PROVE  SafetyInv'
<1> DEFINE s == actor[a]
           D == Affected(s.case, s.pack)
           hit == [d \in D |-> binding[d]]
           r == [s EXCEPT !.pc = "write", !.todo = DOMAIN s.pack, !.hit = hit]
<1>1. /\ s \in ActorRecords /\ Fits(s) /\ s.pc = "publish" /\ Holds(a) /\ BaselineHolds(s.base)
      /\ Become(a, r) /\ UNCHANGED <<files, binding, mutations, passed, torn, tasks>>
  BY DEF PublishCheck, TypeInv, TypeOK
<1>2. \A b \in Actors \ {a} : actor'[b] = actor[b] /\ actor[b].pc \notin {"write", "confirm"} /\ Written(b) = {}
  BY <1>1, BecomeFacts, OneHolder
<1>3. actor'[a] = r
  BY <1>1, BecomeFacts
<1>4. DOMAIN s.base = DOMAIN s.pack
  BY <1>1 DEF Fits
<1>5. DOMAIN hit = D /\ \A d \in D : hit[d] = binding[d]
  OBVIOUS
<1>6. D \subseteq Cases
  BY DEF Affected
<1>7. \A d \in Cases \ ({s.case} \cup D) : Usable(binding[d]) =>
        \A p \in DOMAIN binding[d].deps \cap DOMAIN s.pack : binding[d].deps[p] = s.pack[p]
  BY DEF Affected, Usable
<1>8. \A d \in Cases : Usable(binding[d]) =>
        \A p \in DOMAIN binding[d].deps : files[p] = binding[d].deps[p] \/ p \in torn
  <2>1. Written(a) = {}
    BY <1>1 DEF Written
  <2> QED BY <1>2, <2>1 DEF SafetyInv, BindingsDescribeFiles
<1> HIDE DEF D, hit
<1>9. /\ r.pc = "write" /\ r.todo = DOMAIN s.pack /\ r.hit = hit /\ r.pack = s.pack
      /\ r.base = s.base /\ r.case = s.case
  BY <1>1 DEF ActorRecords
<1> HIDE DEF r
<1>10. PublicationOnTrack(a)'
  BY <1>1, <1>3, <1>4, <1>5, <1>6, <1>7, <1>8, <1>9 DEF PublicationOnTrack, BaselineHolds, Usable
<1>11. \A b \in Actors : PublicationOnTrack(b)'
  BY <1>2, <1>10 DEF PublicationOnTrack
<1>12. \A b \in Actors : PromotionJustified(b)'
  BY <1>1, <1>2, <1>3, <1>9 DEF PromotionJustified, SafetyInv
<1>13. ValidatedWasExecuted'
  BY <1>1 DEF SafetyInv, ValidatedWasExecuted
<1>14. BindingsDescribeFiles'
  BY <1>1, <1>8 DEF BindingsDescribeFiles, Usable
<1> QED BY <1>11, <1>12, <1>13, <1>14 DEF SafetyInv

LEMMA WriteFileSafety ==
  ASSUME TypeInv, LockHeld, SafetyInv, NEW a \in Actors, NEW p \in Paths, WriteFile(a, p)
  PROVE  SafetyInv'
<1> DEFINE s == actor[a]
           r == [s EXCEPT !.todo = @ \ {p}]
<1>1. /\ s \in ActorRecords /\ Fits(s) /\ s.pc = "write" /\ p \in s.todo /\ Holds(a)
      /\ Become(a, r) /\ files' = [files EXCEPT ![p] = s.pack[p]]
      /\ UNCHANGED <<binding, mutations, passed, torn, tasks>>
  BY DEF WriteFile, TypeInv, TypeOK, LockHeld
<1>2. \A b \in Actors \ {a} : actor'[b] = actor[b] /\ actor[b].pc \notin {"write", "confirm"} /\ Written(b) = {}
  BY <1>1, BecomeFacts, OneHolder
<1>3. actor'[a] = r
  BY <1>1, BecomeFacts
<1>4. p \in DOMAIN s.pack /\ s.todo \subseteq DOMAIN s.pack
  BY <1>1 DEF Fits
<1>5. files'[p] = s.pack[p] /\ \A q : q # p => files'[q] = files[q]
  BY <1>1 DEF TypeInv, TypeOK
<1>6. /\ r.pc = "write" /\ r.todo = s.todo \ {p} /\ r.hit = s.hit /\ r.pack = s.pack
      /\ r.base = s.base /\ r.case = s.case
  BY <1>1 DEF ActorRecords
<1> HIDE DEF r
<1>7. PublicationOnTrack(a)'
  BY <1>1, <1>3, <1>4, <1>5, <1>6 DEF PublicationOnTrack, SafetyInv, Usable
<1>8. \A b \in Actors : PublicationOnTrack(b)'
  BY <1>2, <1>7 DEF PublicationOnTrack
<1>9. \A b \in Actors : PromotionJustified(b)'
  BY <1>1, <1>2, <1>3, <1>6 DEF PromotionJustified, SafetyInv
<1>10. ValidatedWasExecuted'
  BY <1>1 DEF SafetyInv, ValidatedWasExecuted
<1>11. Written(a)' = Written(a) \cup {p}
  BY <1>1, <1>3, <1>4, <1>6 DEF Written
<1>12. BindingsDescribeFiles'
  BY <1>1, <1>2, <1>5, <1>11 DEF SafetyInv, BindingsDescribeFiles, Usable
<1> QED BY <1>8, <1>9, <1>10, <1>12 DEF SafetyInv

LEMMA RebaseSafety ==
  ASSUME TypeInv, LockHeld, SafetyInv, NEW a \in Actors, NEW d \in Cases, RebaseOther(a, d)
  PROVE  SafetyInv'
<1> DEFINE s == actor[a]
           hit == [e \in DOMAIN s.hit \ {d} |-> s.hit[e]]
           r == [s EXCEPT !.hit = hit]
           old == s.hit[d]
           new == Rebased(old, s.pack)
<1>1. /\ s \in ActorRecords /\ Fits(s) /\ s.pc = "write" /\ s.todo = {} /\ d \in DOMAIN s.hit /\ Holds(a)
      /\ Become(a, r) /\ binding' = [binding EXCEPT ![d] = new]
      /\ UNCHANGED <<files, mutations, passed, torn, tasks>>
  BY DEF RebaseOther, TypeInv, TypeOK, LockHeld
<1>2. \A b \in Actors \ {a} : actor'[b] = actor[b] /\ actor[b].pc \notin {"write", "confirm"} /\ Written(b) = {}
  BY <1>1, BecomeFacts, OneHolder
<1>3. actor'[a] = r
  BY <1>1, BecomeFacts
<1>4. DOMAIN hit = DOMAIN s.hit \ {d} /\ \A e \in DOMAIN hit : hit[e] = s.hit[e]
  OBVIOUS
<1>5. binding'[d] = new /\ \A e \in Cases \ {d} : binding'[e] = binding[e]
  BY <1>1 DEF TypeInv, TypeOK
<1>6. /\ new.deps = [p \in DOMAIN old.deps |-> IF p \in DOMAIN s.pack THEN s.pack[p] ELSE old.deps[p]]
      /\ new.status = IF old.status = "invalid" THEN "invalid" ELSE "needs_validation"
  BY DEF Rebased
<1>7. old # None
  BY <1>1 DEF Fits
<1>8. PublicationOnTrack(a)
  BY DEF SafetyInv
<1> HIDE DEF hit
<1>9. /\ r.pc = "write" /\ r.todo = s.todo /\ r.hit = hit /\ r.pack = s.pack
      /\ r.base = s.base /\ r.case = s.case
  BY <1>1 DEF ActorRecords
<1> HIDE DEF r, new
<1>10. PublicationOnTrack(a)'
  <2>1. ASSUME NEW e \in Cases \ ({s.case} \cup DOMAIN hit), Usable(binding'[e]),
               NEW p \in DOMAIN binding'[e].deps \cap DOMAIN s.pack
        PROVE  binding'[e].deps[p] = s.pack[p]
    <3>1. CASE e = d
      BY <1>5, <1>6, <2>1, <3>1
    <3>2. CASE e # d
      BY <1>1, <1>4, <1>5, <1>8, <2>1, <3>2 DEF PublicationOnTrack
    <3> QED BY <3>1, <3>2
  <2>2. \A e \in DOMAIN hit : Usable(hit[e]) =>
          \A p \in DOMAIN hit[e].deps \ DOMAIN s.pack : files[p] = hit[e].deps[p] \/ p \in torn
    BY <1>1, <1>4, <1>8 DEF PublicationOnTrack
  <2>3. \A p \in DOMAIN s.pack \ s.todo : files[p] = s.pack[p]
    BY <1>1, <1>8 DEF PublicationOnTrack
  <2> QED BY <1>1, <1>3, <1>9, <2>1, <2>2, <2>3 DEF PublicationOnTrack, Usable
<1>11. \A b \in Actors : PublicationOnTrack(b)'
  BY <1>2, <1>10 DEF PublicationOnTrack
<1>12. \A b \in Actors : PromotionJustified(b)'
  BY <1>1, <1>2, <1>3, <1>9 DEF PromotionJustified, SafetyInv
<1>13. ValidatedWasExecuted'
  BY <1>1, <1>5, <1>6 DEF SafetyInv, ValidatedWasExecuted
<1>14. BindingsDescribeFiles'
  <2>1. Written(a) = DOMAIN s.pack /\ Written(a)' = DOMAIN s.pack
    BY <1>1, <1>3, <1>9 DEF Written
  <2>2. ASSUME Usable(new), NEW p \in DOMAIN new.deps, p \notin DOMAIN s.pack
        PROVE  files[p] = new.deps[p] \/ p \in torn
    BY <1>1, <1>6, <1>7, <1>8, <2>2 DEF PublicationOnTrack, Usable
  <2>3. \A b \in Actors : Written(b)' = Written(b)
    BY <1>2, <2>1 DEF Written
  <2> QED BY <1>1, <1>5, <2>1, <2>2, <2>3 DEF SafetyInv, BindingsDescribeFiles, Usable
<1> QED BY <1>11, <1>12, <1>13, <1>14 DEF SafetyInv

LEMMA PublishBindingSafety ==
  ASSUME TypeInv, LockHeld, SafetyInv, NEW a \in Actors, PublishBinding(a)
  PROVE  SafetyInv'
<1> DEFINE s == actor[a]
           r == [s EXCEPT !.pc = "execute", !.base = <<>>]
           new == [deps |-> s.pack, status |-> "needs_validation"]
<1>1. /\ s \in ActorRecords /\ Fits(s) /\ s.pc = "write" /\ s.todo = {} /\ DOMAIN s.hit = {} /\ Holds(a)
      /\ Become(a, r) /\ binding' = [binding EXCEPT ![s.case] = new] /\ torn' = torn \ DOMAIN s.pack
      /\ UNCHANGED <<files, passed, tasks>>
  BY DEF PublishBinding, TypeInv, TypeOK, LockHeld
<1>2. \A b \in Actors \ {a} : actor'[b] = actor[b] /\ actor[b].pc \notin {"write", "confirm"} /\ Written(b) = {}
  BY <1>1, BecomeFacts, OneHolder
<1>3. actor'[a].pc = "execute"
  <2>1. actor'[a] = r
    BY <1>1, BecomeFacts
  <2>2. r.pc = "execute"
    BY <1>1 DEF ActorRecords
  <2> QED BY <2>1, <2>2
<1>4. binding'[s.case] = new /\ \A e \in Cases \ {s.case} : binding'[e] = binding[e]
  BY <1>1 DEF TypeInv, TypeOK, Fits
<1>5. new.deps = s.pack /\ new.status = "needs_validation"
  OBVIOUS
<1>6. PublicationOnTrack(a)
  BY DEF SafetyInv
<1> HIDE DEF r, new
<1>7. \A b \in Actors : PublicationOnTrack(b)'
  BY <1>2, <1>3 DEF PublicationOnTrack
<1>8. \A b \in Actors : PromotionJustified(b)'
  BY <1>1, <1>2, <1>3 DEF PromotionJustified, SafetyInv
<1>9. ValidatedWasExecuted'
  BY <1>1, <1>4, <1>5 DEF SafetyInv, ValidatedWasExecuted
<1>10. BindingsDescribeFiles'
  <2> SUFFICES ASSUME NEW c \in Cases, Usable(binding'[c]), NEW p \in DOMAIN binding'[c].deps
               PROVE  files[p] = binding'[c].deps[p] \/ p \in torn'
    BY <1>1 DEF BindingsDescribeFiles, Usable
  <2>1. \A q \in DOMAIN s.pack : files[q] = s.pack[q]
    BY <1>1, <1>6 DEF PublicationOnTrack
  <2>2. CASE c = s.case
    BY <1>4, <1>5, <2>1, <2>2
  <2>3. CASE c # s.case /\ p \in DOMAIN s.pack
    BY <1>1, <1>4, <1>6, <2>1, <2>3 DEF PublicationOnTrack
  <2>4. CASE c # s.case /\ p \notin DOMAIN s.pack
    <3>1. Written(a) = DOMAIN s.pack
      BY <1>1 DEF Written
    <3> QED BY <1>1, <1>2, <1>4, <2>4, <3>1 DEF SafetyInv, BindingsDescribeFiles
  <2> QED BY <2>2, <2>3, <2>4
<1> QED BY <1>7, <1>8, <1>9, <1>10 DEF SafetyInv

LEMMA ValidationSafety ==
  ASSUME TypeInv, LockHeld, SafetyInv, NEW a \in Actors, ValidateCheck(a) \/ Confirm(a)
  PROVE  SafetyInv'
<1> DEFINE s == actor[a]
<1>1. /\ s \in ActorRecords /\ Fits(s) /\ Holds(a) /\ s.pc \in {"validate", "confirm"} /\ \E r : Become(a, r)
      /\ UNCHANGED <<files, passed, torn>>
  BY DEF ValidateCheck, Confirm, TypeInv, TypeOK, LockHeld
<1>2. \A b \in Actors \ {a} : actor'[b] = actor[b] /\ actor[b].pc \notin {"write", "confirm"}
  BY <1>1, BecomeFacts, OneHolder
<1>3. CASE ValidateCheck(a)
  <2> DEFINE r == [s EXCEPT !.pc = "confirm", !.read = binding[s.case]]
  <2>1. Become(a, r) /\ binding' = binding /\ s.pc = "validate" /\ Validates(binding[s.case], s.pack)
    BY <1>3 DEF ValidateCheck
  <2>2. actor'[a] = r
    BY <2>1, BecomeFacts
  <2>3. r.pc = "confirm" /\ r.case = s.case /\ r.pack = s.pack /\ r.read = binding[s.case]
    BY <1>1 DEF ActorRecords
  <2> HIDE DEF r
  <2>4. PromotionJustified(a)'
    BY <1>1, <2>1, <2>2, <2>3 DEF PromotionJustified, Validates, OnDisk, SafetyInv
  <2>5. \A b \in Actors : PromotionJustified(b)'
    BY <1>1, <1>2, <2>4 DEF PromotionJustified, SafetyInv
  <2>6. \A b \in Actors : PublicationOnTrack(b)'
    BY <1>2, <2>2, <2>3 DEF PublicationOnTrack
  <2>7. \A b \in Actors : Written(b)' = Written(b)
    BY <1>2, <2>1, <2>2, <2>3 DEF Written
  <2>8. ValidatedWasExecuted' /\ BindingsDescribeFiles'
    BY <1>1, <2>1, <2>7 DEF SafetyInv, ValidatedWasExecuted, BindingsDescribeFiles, Usable
  <2> QED BY <2>5, <2>6, <2>8 DEF SafetyInv
<1>4. CASE Confirm(a)
  <2> DEFINE new == [s.read EXCEPT !.status = "validated"]
  <2>1. /\ Become(a, IdleActor) /\ s.pc = "confirm"
        /\ binding' = binding \/ binding' = [binding EXCEPT ![s.case] = new]
    BY <1>4 DEF Confirm
  <2>2. actor'[a].pc = "idle"
    BY <2>1, BecomeFacts DEF IdleActor
  <2>3. s.case \in Cases /\ s.read \in Bindings
    BY <1>1, <2>1 DEF Fits
  <2>4. new.deps = s.read.deps /\ new.status = "validated"
    BY <2>3 DEF Bindings
  <2>5. s.pack \in passed[s.case] /\ s.read.deps = s.pack /\ OnDisk(s.pack)
    BY <2>1 DEF SafetyInv, PromotionJustified
  <2> HIDE DEF new
  <2>6. \A e \in Cases : binding'[e] = binding[e] \/ (e = s.case /\ binding'[e] = new)
    BY <2>1, <2>3 DEF TypeInv, TypeOK
  <2>7. \A b \in Actors : PromotionJustified(b)'
    BY <1>1, <1>2, <2>2 DEF PromotionJustified, SafetyInv
  <2>8. \A b \in Actors : PublicationOnTrack(b)'
    BY <1>2, <2>2 DEF PublicationOnTrack
  <2>9. ValidatedWasExecuted'
    BY <1>1, <2>4, <2>5, <2>6 DEF SafetyInv, ValidatedWasExecuted
  <2>10. \A b \in Actors : Written(b)' = Written(b)
    BY <1>2, <2>1, <2>2 DEF Written
  <2>11. BindingsDescribeFiles'
    BY <1>1, <2>4, <2>5, <2>6, <2>10 DEF SafetyInv, BindingsDescribeFiles, OnDisk, Usable
  <2> QED BY <2>7, <2>8, <2>9, <2>11 DEF SafetyInv
<1> QED BY <1>3, <1>4

LEMMA EndSafety ==
  ASSUME TypeInv, SafetyInv, Crash \/ \E a \in Actors : GiveUp(a)
  PROVE  SafetyInv'
<1>1. PICK A \in SUBSET Actors :
        /\ \A b \in Actors : actor'[b] = IF b \in A THEN IdleActor ELSE actor[b]
        /\ torn' = torn \cup UNION {Written(b) : b \in A}
        /\ UNCHANGED <<files, binding, passed>>
  <2>1. CASE Crash
    BY <2>1, Actors \in SUBSET Actors DEF Crash
  <2>2. CASE \E a \in Actors : GiveUp(a)
    <3>1. PICK a \in Actors : GiveUp(a)
      BY <2>2
    <3>2. UNION {Written(b) : b \in {a}} = Written(a)
      OBVIOUS
    <3>3. {a} \in SUBSET Actors
      OBVIOUS
    <3> QED BY <3>1, <3>2, <3>3, BecomeFacts DEF GiveUp
  <2> QED BY <2>1, <2>2
<1>2. \A b \in A : actor'[b].pc = "idle"
  BY <1>1 DEF IdleActor
<1>3. \A b \in Actors : PublicationOnTrack(b)'
  BY <1>1, <1>2 DEF PublicationOnTrack, SafetyInv, Usable
<1>4. \A b \in Actors : PromotionJustified(b)'
  BY <1>1, <1>2 DEF PromotionJustified, SafetyInv, OnDisk
<1>5. ValidatedWasExecuted'
  BY <1>1 DEF SafetyInv, ValidatedWasExecuted
<1>6. \A b \in Actors \ A : Written(b)' = Written(b)
  BY <1>1 DEF Written
<1>7. BindingsDescribeFiles'
  BY <1>1, <1>6 DEF SafetyInv, BindingsDescribeFiles, Usable
<1> QED BY <1>3, <1>4, <1>5, <1>7 DEF SafetyInv

LEMMA SafetyStep ==
  ASSUME TypeInv, LockHeld, SafetyInv, [Next]_vars
  PROVE  SafetyInv'
<1>1. CASE Next
  BY <1>1, QuietActions, PublishCheckSafety, WriteFileSafety, RebaseSafety, PublishBindingSafety,
     ValidationSafety, EndSafety DEF Next, Publish, Validate
<1>2. CASE UNCHANGED vars
  BY <1>2 DEF vars, SafetyInv, PublicationOnTrack, PromotionJustified, ValidatedWasExecuted,
              BindingsDescribeFiles, Usable, OnDisk, Written
<1> QED BY <1>1, <1>2

LEMMA SafetyInit ==
  ASSUME Init
  PROVE  SafetyInv
BY DEF Init, SafetyInv, PublicationOnTrack, PromotionJustified, ValidatedWasExecuted,
       BindingsDescribeFiles, Usable, IdleActor

LEMMA WorkspaceInvariant ==
  Spec => [](TypeInv /\ LockHeld /\ SafetyInv)
BY TypeInit, TypeStep, SafetyInit, SafetyStep, PTL DEF Spec

\* A binding counts as validated only if exactly its implementation has passed, although
\* resolving and rejecting write without the lock.
THEOREM ValidatedExecuted == Spec => []ValidatedWasExecuted
<1>1. SafetyInv => ValidatedWasExecuted
  BY DEF SafetyInv
<1> QED BY <1>1, WorkspaceInvariant, PTL

\* Usable bindings have the hashes of the files, also of those other cases publish.
THEOREM BindingsDescribe == Spec => []BindingsDescribeFiles
<1>1. SafetyInv => BindingsDescribeFiles
  BY DEF SafetyInv
<1> QED BY <1>1, WorkspaceInvariant, PTL

\* A publication writes a file only if it still is what its Agent was given.
THEOREM NothingOverwritten == Spec => NoBlindOverwrite
<1> DEFINE Seen == \A p \in Paths : files'[p] # files[p] =>
                     \E a \in Actors : /\ p \in actor[a].todo \ actor'[a].todo
                                       /\ actor[a].base[p] = files[p]
<1>1. ASSUME TypeInv, SafetyInv, [Next]_vars
      PROVE  [Seen]_vars
  <2>1. CASE files' = files
    BY <2>1
  <2>2. CASE files' # files
    <3>1. PICK a \in Actors, p \in Paths : WriteFile(a, p)
      BY <1>1, <2>2
         DEF Next, vars, Start, Resume, Prepare, ResolveRead, ResolveCheck, WriteDrifted, Reuse, Reject,
             RejectRead, RejectWrite, Generate, RequestPublish, Publish, PublishCheck, RebaseOther,
             PublishBinding, Pass, Repair, RequestValidation, Validate, ValidateCheck, Confirm, GiveUp, Crash
    <3>2. \A q \in Paths : files'[q] # files[q] => q = p
      BY <1>1, <3>1 DEF WriteFile, TypeInv, TypeOK
    <3>3. p \in actor[a].todo /\ actor[a].base[p] = files[p]
      BY <1>1, <3>1 DEF WriteFile, SafetyInv, PublicationOnTrack
    <3>4. actor[a] \in ActorRecords /\ Become(a, [actor[a] EXCEPT !.todo = @ \ {p}])
      BY <1>1, <3>1 DEF WriteFile, TypeInv, TypeOK
    <3>5. actor'[a].todo = actor[a].todo \ {p}
      BY <1>1, <3>4, BecomeFacts DEF ActorRecords
    <3> QED BY <3>2, <3>3, <3>5
  <2> QED BY <2>1, <2>2
<1> QED BY <1>1, WorkspaceInvariant, PTL DEF Spec, NoBlindOverwrite

\* What a binding says of its implementation is true: it was executed before it counts as
\* validated, and a usable binding has the contents of the files.
THEOREM BindingsTrue == Spec => []BindingsAreTrue
<1> QED BY WorkspaceTypes, ValidatedExecuted, BindingsDescribe, PTL DEF BindingsAreTrue

=============================================================================
