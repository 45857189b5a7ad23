------------------------ MODULE KnowledgeSyncProofs ------------------------
(***************************************************************************)
(* The safety of KnowledgeSync, for any number of documents, workers,      *)
(* tasks, configurations and faults: what can be searched is what is shown *)
(* and nothing deleted, newer uploads win, and no mark outlives its task.  *)
(*                                                                         *)
(* Inv says what holds between two transactions.  Its heart is Promising:  *)
(* while the index is the one a fenced worker began from, its candidate is *)
(* what its task promises.  The proof has three kinds of steps: quiet ones *)
(* (Quiet), which leave the index and what is active alone; those that     *)
(* build a candidate (BuildStep); and those that replace the index         *)
(* (CommitStep), after which no other worker is current.                   *)
(***************************************************************************)
EXTENDS KnowledgeSync, TLAPS, FiniteSetTheorems, FunctionTheorems, SequenceTheorems

\* What the parts of the store are.
Chunks == [version : Nat, config : Configs]

Versions == [document : Documents, content : Contents,
             status : {"pending", "syncing", "ready", "failed", "purged"},
             configs : SUBSET Configs]

Candidates == [members : SUBSET Nat, chunks : SUBSET Chunks, open : BOOLEAN]

Targets == UNION {[ds -> [born : Nat, active : Nat]] : ds \in SUBSET Documents}

Tasks == [kind : {"sync", "delete", "directory", "rebuild"},
          document : Documents \cup {None}, version : Nat, config : Configs,
          targets : Targets, directory : Nat,
          status : {"queued", "running", "failed", "cancelled", "succeeded"},
          attempts : 0 .. MaxAttempts, owner : Workers \cup {None}, lease : BOOLEAN,
          candidate : Candidates, base : Nat, cleanup : BOOLEAN]

Types ==
    /\ documents \in [Documents -> [born : Nat, active : Nat, lock : Nat]]
    /\ versions \in Seq(Versions)
    /\ directory \in [born : Nat, lock : Nat]
    /\ index \in [number : Nat, config : Configs, members : SUBSET Nat, chunks : SUBSET Chunks]
    /\ config \in Configs /\ outdated \in [Configs -> BOOLEAN]
    /\ tasks \in Seq(Tasks)
    /\ workers \in [Workers -> [phase : {"idle", "claimed", "embedding", "indexing", "cleanup",
                                         "failing", "failed"},
                                task : Nat, previous : SUBSET Configs]]
    /\ overtaken \in BOOLEAN /\ retries \in Nat /\ faults \in Nat

\* The active version of a document is its own and is complete.
ActiveIsReady ==
    \A d \in Documents : documents[d].active # 0 =>
        /\ documents[d].active \in DOMAIN versions
        /\ versions[documents[d].active].document = d
        /\ versions[documents[d].active].status = "ready"

Open == {"queued", "running", "failed"}

\* What a task is about, and that nothing deleted is in its candidate.
WellFormed(task) ==
    /\ task.kind \in {"sync", "delete"} =>
          /\ task.document \in Documents /\ task.version \in DOMAIN versions
          /\ versions[task.version].document = task.document
    /\ task.kind = "sync" /\ task.status # "succeeded" =>
          \A d \in Documents : documents[d].active # task.version
    /\ task.cleanup => task.kind = "directory"
    /\ task.base <= index.number
    /\ \A v \in task.candidate.members \cup {k.version : k \in task.candidate.chunks} :
          v \in DOMAIN versions /\ Alive(v)

OneTaskPerUpload ==
    \A t, u \in DOMAIN tasks : tasks[t].kind = "sync" /\ tasks[u].kind = "sync"
                               /\ tasks[t].version = tasks[u].version => t = u

\* What a worker is doing.
Working(w) ==
    /\ ~At(w, "idle") => workers[w].task \in DOMAIN tasks
    /\ At(w, "embedding") => Kind(w) \in {"sync", "rebuild"}
    /\ At(w, "cleanup") => Kind(w) = "directory"

\* What the index is to be made of.
Goal(task) ==
    CASE task.kind = "sync"    -> ActiveOf(Documents \ Scope(task)) \cup {task.version}
      [] task.kind = "rebuild" -> ActiveOf(Documents)
      [] OTHER                 -> ActiveOf(Documents \ Scope(task))

\* A candidate is what its task promises while the index is the one it was begun from.
Promising(w) ==
    Fenced(w) /\ Current(w) =>
        /\ At(w, "embedding") /\ Kind(w) = "rebuild" => Task(w).candidate.members = ActiveOf(Documents)
        /\ At(w, "indexing") =>
              /\ Kind(w) = "sync" => documents[Task(w).document].active <= Task(w).version
              /\ ~overtaken => /\ Task(w).candidate.members = Goal(Task(w))
                               /\ {k.version : k \in Task(w).candidate.chunks} = Goal(Task(w))

\* Locks are held by directory deletions that are not over.
LocksAreHeld ==
    LET Holds(t) == t \in DOMAIN tasks /\ tasks[t].kind = "directory" /\ tasks[t].status \in Open
    IN  /\ \A d \in Documents : documents[d].lock # 0 => Holds(documents[d].lock)
        /\ directory.lock # 0 => Holds(directory.lock) /\ directory.born = tasks[directory.lock].directory

DeletedIsGone ==
    \A v \in index.members \cup {k.version : k \in index.chunks} : v \in DOMAIN versions /\ Alive(v)

TasksAreWellFormed == \A t \in DOMAIN tasks : WellFormed(tasks[t])

WorkersKeepTheirWord == \A w \in Workers : Working(w) /\ Promising(w)

Inv ==
    /\ Types /\ ActiveIsReady /\ OneTaskPerUpload /\ TasksAreWellFormed /\ WorkersKeepTheirWord
    /\ LocksAreHeld /\ VersionsHaveATask
    /\ IndexServesDocuments /\ DeletedIsGone

-----------------------------------------------------------------------------
\* Facts about the data.

LEMMA Constants ==
    /\ None \notin Workers /\ None \notin Documents /\ 1 \in Configs /\ Configs \subseteq Nat
    /\ InDirectory \subseteq Documents /\ MaxAttempts \in Nat \ {0}
<1>1. /\ Cardinality(Configs) \in Nat /\ Configs = 1 .. Cardinality(Configs) /\ Configs # {}
  BY ConstantsAssumption, FS_CardinalityType
<1>2. 1 \in Configs /\ Configs \subseteq Nat
  BY <1>1
<1> QED BY <1>2, ConstantsAssumption

\* A sequence of which some elements are replaced.
LEMMA Rewritten ==
    ASSUME NEW S, NEW s \in Seq(S), NEW f, f = [i \in DOMAIN s |-> f[i]],
           \A i \in DOMAIN s : f[i] \in S
    PROVE  f \in Seq(S) /\ DOMAIN f = DOMAIN s
<1>1. DOMAIN s = 1 .. Len(s) /\ Len(s) \in Nat
  BY LenProperties
<1>2. f \in [1 .. Len(s) -> S]
  BY <1>1
<1> QED BY <1>1, <1>2, IsASeq

LEMMA Replaced ==
    ASSUME NEW S, NEW s \in Seq(S), NEW i \in DOMAIN s, NEW e \in S
    PROVE  /\ [s EXCEPT ![i] = e] \in Seq(S)
           /\ DOMAIN [s EXCEPT ![i] = e] = DOMAIN s /\ [s EXCEPT ![i] = e][i] = e
           /\ \A j \in DOMAIN s : j # i => [s EXCEPT ![i] = e][j] = s[j]
<1>1. DOMAIN s = 1 .. Len(s) /\ Len(s) \in Nat
  BY LenProperties
<1> QED BY <1>1, ExceptSeq

LEMMA Extended ==
    ASSUME NEW S, NEW s \in Seq(S), NEW e \in S
    PROVE  /\ Append(s, e) \in Seq(S) /\ Len(s) \in Nat
           /\ DOMAIN s = 1 .. Len(s) /\ DOMAIN Append(s, e) = 1 .. Len(s) + 1
           /\ \A j \in DOMAIN s : j \in DOMAIN Append(s, e) /\ Append(s, e)[j] = s[j]
           /\ Append(s, e)[Len(s) + 1] = e
           /\ \A j \in DOMAIN Append(s, e) : j \in DOMAIN s \/ j = Len(s) + 1
<1>1. /\ Append(s, e) \in Seq(S) /\ Len(s) \in Nat /\ Len(Append(s, e)) = Len(s) + 1
      /\ DOMAIN s = 1 .. Len(s) /\ DOMAIN Append(s, e) = 1 .. Len(s) + 1
      /\ \A j \in 1 .. Len(s) : Append(s, e)[j] = s[j]
      /\ Append(s, e)[Len(s) + 1] = e
  BY AppendProperties, LenProperties
<1> QED BY <1>1

LEMMA NoCandidateIsOne == NoCandidate \in Candidates
BY DEF NoCandidate, Candidates

-----------------------------------------------------------------------------
\* The steps that leave the index and what is active alone.

Quiet ==
    /\ index' = index /\ overtaken' = overtaken
    /\ \A d \in Documents : documents'[d].active = documents[d].active
    /\ \A v \in DOMAIN versions : /\ v \in DOMAIN versions'
                                  /\ versions'[v].document = versions[v].document
                                  /\ versions'[v].status = "purged" <=> versions[v].status = "purged"
    /\ \A d \in Documents : documents[d].active # 0 => versions'[documents[d].active].status = "ready"

\* A task that goes on.
Continues(old, new) ==
    /\ new.kind = old.kind /\ new.document = old.document /\ new.version = old.version
    /\ new.targets = old.targets /\ new.directory = old.directory /\ new.base = old.base
    /\ new.cleanup => old.cleanup
    /\ new.candidate \in {old.candidate, NoCandidate}
    /\ old.status = "succeeded" => new.status = "succeeded"

\* What a fenced worker sees of its task does not change under it.
Undisturbed(old, new) ==
    new.status = "running" /\ new.lease =>
        old.status = "running" /\ old.lease /\ new.owner = old.owner /\ new.candidate = old.candidate

GoesOn(w) ==
    \/ /\ workers'[w].phase \in {"claimed", "failing", "failed"}
       /\ workers'[w].task \in DOMAIN tasks
    \/ workers'[w].phase = "idle"
    \/ /\ workers'[w].phase = "cleanup" /\ workers'[w].task \in DOMAIN tasks
       /\ tasks[workers'[w].task].kind = "directory"
    \/ /\ workers'[w] = workers[w]
       /\ \/ Undisturbed(Task(w), tasks'[workers[w].task])
          \/ tasks'[workers[w].task].owner # w

LEMMA QuietStep ==
    ASSUME Inv, Quiet, Types', OneTaskPerUpload', TasksAreWellFormed', WorkersKeepTheirWord',
           LocksAreHeld', VersionsHaveATask'
    PROVE  Inv'
<1>1. ActiveOf(Documents)' = ActiveOf(Documents)
  BY DEF Quiet, ActiveOf
<1>2. ActiveIsReady'
  BY DEF Quiet, Inv, ActiveIsReady
<1>3. IndexServesDocuments'
  BY <1>1 DEF Quiet, Inv, IndexServesDocuments, ActiveVersionsAreIndexed, IndexIsHomogeneous
<1>4. DeletedIsGone'
  BY DEF Quiet, Inv, DeletedIsGone, Alive
<1> QED BY <1>2, <1>3, <1>4 DEF Inv

LEMMA StaysWellFormed ==
    ASSUME Quiet, NEW t \in DOMAIN tasks, WellFormed(tasks[t]), Continues(tasks[t], tasks'[t])
    PROVE  WellFormed(tasks[t])'
<1> DEFINE old == tasks[t]
           new == tasks'[t]
<1>1. /\ new.kind = old.kind /\ new.document = old.document /\ new.version = old.version
      /\ new.base = old.base
      /\ new.cleanup => old.cleanup
      /\ old.status = "succeeded" => new.status = "succeeded"
  BY DEF Continues
<1>2. \A v \in new.candidate.members \cup {k.version : k \in new.candidate.chunks} :
          v \in old.candidate.members \cup {k.version : k \in old.candidate.chunks}
  BY DEF Continues, NoCandidate
<1>3. \A v \in new.candidate.members \cup {k.version : k \in new.candidate.chunks} :
          v \in DOMAIN versions' /\ versions'[v].status # "purged"
  BY <1>2 DEF Quiet, WellFormed, Alive
<1>4. new.kind \in {"sync", "delete"} =>
          /\ new.document \in Documents /\ new.version \in DOMAIN versions'
          /\ versions'[new.version].document = new.document
  BY <1>1 DEF Quiet, WellFormed
<1>5. new.kind = "sync" /\ new.status # "succeeded" =>
          \A d \in Documents : documents'[d].active # new.version
  BY <1>1 DEF Quiet, WellFormed
<1>6. new.cleanup => new.kind = "directory"
  BY <1>1 DEF WellFormed
<1>7. new.base <= index'.number
  BY <1>1 DEF Quiet, WellFormed
<1> QED BY <1>3, <1>4, <1>5, <1>6, <1>7 DEF WellFormed, Alive

LEMMA WorkersGoOn ==
    ASSUME Inv, Quiet, \A t \in DOMAIN tasks : t \in DOMAIN tasks' /\ Continues(tasks[t], tasks'[t]),
           NEW w \in Workers, GoesOn(w)
    PROVE  Working(w)' /\ Promising(w)'
<1>1. CASE /\ workers'[w].phase \in {"claimed", "failing", "failed"}
           /\ workers'[w].task \in DOMAIN tasks
  BY <1>1 DEF Working, Promising, At
<1>2. CASE workers'[w].phase = "idle"
  BY <1>2 DEF Working, Promising, At
<1>3. CASE /\ workers'[w].phase = "cleanup" /\ workers'[w].task \in DOMAIN tasks
           /\ tasks[workers'[w].task].kind = "directory"
  BY <1>3 DEF Working, Promising, At, Kind, Task, Continues
<1>4. CASE /\ workers'[w] = workers[w] /\ workers[w].phase # "idle"
           /\ \/ Undisturbed(Task(w), tasks'[workers[w].task])
              \/ tasks'[workers[w].task].owner # w
  <2>0. PICK t : t = workers[w].task
    OBVIOUS
  <2>1. t \in DOMAIN tasks /\ t \in DOMAIN tasks' /\ Continues(tasks[t], tasks'[t])
    BY <1>4, <2>0 DEF Inv, WorkersKeepTheirWord, Working, At
  <2>2. Working(w)'
    BY <1>4, <2>0, <2>1 DEF Inv, WorkersKeepTheirWord, Working, At, Kind, Task, Continues
  <2>3. Promising(w)'
    <3> SUFFICES ASSUME Fenced(w)', Current(w)'
                 PROVE  Promising(w)'
      BY DEF Promising
    <3>1. tasks'[t].status = "running" /\ tasks'[t].owner = w /\ tasks'[t].lease
      BY <1>4, <2>0 DEF Fenced, Owns, Task
    <3>2. /\ tasks[t].status = "running" /\ tasks[t].owner = w /\ tasks[t].lease
          /\ tasks'[t].candidate = tasks[t].candidate
      BY <1>4, <2>0, <3>1 DEF Undisturbed, Task
    <3>3. Fenced(w) /\ Current(w)
      BY <1>4, <2>0, <2>1, <3>2 DEF Fenced, Owns, Task, At, Current, Continues, Quiet
    <3>4. Promising(w)
      BY DEF Inv, WorkersKeepTheirWord
    <3>5. ActiveOf(Documents)' = ActiveOf(Documents) /\ Goal(tasks[t])' = Goal(tasks[t])
      <4>1. ASSUME NEW ds \in SUBSET Documents
            PROVE  {documents'[d].active : d \in ds} = {documents[d].active : d \in ds}
        BY DEF Quiet
      <4>2. Scope(tasks[t])' = Scope(tasks[t])
        BY <2>1 DEF Scope, Continues
      <4> DEFINE rest == Documents \ Scope(tasks[t])
      <4>3. {documents'[d].active : d \in rest} = {documents[d].active : d \in rest}
        BY <4>1
      <4>4. {documents'[d].active : d \in Documents} = {documents[d].active : d \in Documents}
        BY <4>1
      <4>5. /\ ActiveOf(Documents \ Scope(tasks[t]))' = ActiveOf(Documents \ Scope(tasks[t]))
            /\ ActiveOf(Documents)' = ActiveOf(Documents)
        BY <4>2, <4>3, <4>4 DEF ActiveOf
      <4>6. tasks'[t].kind = tasks[t].kind /\ tasks'[t].version = tasks[t].version
        BY <2>1 DEF Continues
      <4> QED BY <4>5, <4>6 DEF Goal
    <3>6. tasks'[t].kind = "sync" => documents'[tasks'[t].document].active = documents[tasks[t].document].active
      BY <2>1 DEF Inv, TasksAreWellFormed, WellFormed, Continues, Quiet
    <3>7. /\ tasks'[t].kind = tasks[t].kind /\ tasks'[t].version = tasks[t].version
          /\ overtaken' = overtaken /\ workers'[w] = workers[w]
      BY <1>4, <2>0, <2>1 DEF Continues, Quiet
    <3> QED BY <1>4, <2>0, <3>2, <3>3, <3>4, <3>5, <3>6, <3>7 DEF Promising, At, Kind, Task
  <2> QED BY <2>2, <2>3
<1> QED BY <1>1, <1>2, <1>3, <1>4 DEF GoesOn

\* The usual step: every task goes on and so does every worker.
LEMMA OrdinaryStep ==
    ASSUME Inv, Quiet, Types', DOMAIN tasks' = DOMAIN tasks,
           \A t \in DOMAIN tasks : Continues(tasks[t], tasks'[t]),
           \A w \in Workers : GoesOn(w), LocksAreHeld', VersionsHaveATask'
    PROVE  Inv'
<1>1. TasksAreWellFormed'
  <2> SUFFICES ASSUME NEW t \in DOMAIN tasks PROVE WellFormed(tasks[t])'
    BY DEF TasksAreWellFormed
  <2>1. WellFormed(tasks[t]) /\ Continues(tasks[t], tasks'[t])
    BY DEF Inv, TasksAreWellFormed
  <2> QED BY <2>1, StaysWellFormed
<1>2. WorkersKeepTheirWord'
  <2> SUFFICES ASSUME NEW w \in Workers PROVE Working(w)' /\ Promising(w)'
    BY DEF WorkersKeepTheirWord
  <2> QED BY WorkersGoOn
<1>3. OneTaskPerUpload'
  BY DEF Inv, OneTaskPerUpload, Continues
<1> QED BY <1>1, <1>2, <1>3, QuietStep

-----------------------------------------------------------------------------
\* The steps that leave the store alone.

WorkerStates == [phase : {"idle", "claimed", "embedding", "indexing", "cleanup", "failing", "failed"},
                 task : Nat, previous : SUBSET Configs]

LEMMA OthersGoOn ==
    ASSUME Inv, NEW x \in Workers, workers'[x] = workers[x],
           \A t \in DOMAIN tasks : Undisturbed(tasks[t], tasks'[t]) \/ tasks'[t].owner # x
    PROVE  GoesOn(x)
<1>1. CASE workers[x].phase = "idle"
  BY <1>1 DEF GoesOn
<1>2. CASE workers[x].phase # "idle"
  <2>1. workers[x].task \in DOMAIN tasks
    BY <1>2 DEF Inv, WorkersKeepTheirWord, Working, At
  <2> QED BY <2>1 DEF GoesOn, Task
<1> QED BY <1>1, <1>2

LEMMA LocksStay ==
    ASSUME LocksAreHeld,
           \A d \in Documents : documents'[d].lock \in {documents[d].lock, 0},
           directory'.lock \in {directory.lock, 0},
           directory'.lock # 0 => directory'.born = directory.born,
           \A t \in DOMAIN tasks :
              /\ t \in DOMAIN tasks'
              /\ tasks'[t].kind = tasks[t].kind /\ tasks'[t].directory = tasks[t].directory
              /\ \/ tasks[t].status \in Open => tasks'[t].status \in Open
                 \/ (\A d \in Documents : documents'[d].lock # t) /\ directory'.lock # t
    PROVE  LocksAreHeld'
<1>1. ASSUME NEW d \in Documents, documents'[d].lock # 0
      PROVE  /\ documents'[d].lock \in DOMAIN tasks' /\ tasks'[documents'[d].lock].kind = "directory"
             /\ tasks'[documents'[d].lock].status \in Open
  <2>1. documents'[d].lock = documents[d].lock
    BY <1>1
  <2>2. PICK t : t = documents[d].lock
    OBVIOUS
  <2>3. t \in DOMAIN tasks /\ tasks[t].kind = "directory" /\ tasks[t].status \in Open
    BY <1>1, <2>1, <2>2 DEF LocksAreHeld
  <2> QED BY <2>1, <2>2, <2>3
<1>2. ASSUME directory'.lock # 0
      PROVE  /\ directory'.lock \in DOMAIN tasks' /\ tasks'[directory'.lock].kind = "directory"
             /\ tasks'[directory'.lock].status \in Open
             /\ directory'.born = tasks'[directory'.lock].directory
  <2>1. directory'.lock = directory.lock /\ directory'.born = directory.born
    BY <1>2
  <2>2. PICK t : t = directory.lock
    OBVIOUS
  <2>3. /\ t \in DOMAIN tasks /\ tasks[t].kind = "directory" /\ tasks[t].status \in Open
        /\ directory.born = tasks[t].directory
    BY <1>2, <2>1, <2>2 DEF LocksAreHeld
  <2> QED BY <2>1, <2>2, <2>3
<1> QED BY <1>1, <1>2 DEF LocksAreHeld

LEMMA VersionsStay ==
    ASSUME VersionsHaveATask,
           \A v \in DOMAIN versions' : versions'[v].status \in {"pending", "syncing"} =>
               \/ v \in DOMAIN versions /\ versions[v].status \in {"pending", "syncing"}
               \/ \E t \in DOMAIN tasks' : /\ tasks'[t].kind = "sync" /\ tasks'[t].version = v
                                           /\ tasks'[t].status \in Open,
           \A t \in DOMAIN tasks : tasks[t].kind = "sync" =>
              /\ t \in DOMAIN tasks'
              /\ tasks'[t].kind = tasks[t].kind /\ tasks'[t].version = tasks[t].version
              /\ \/ tasks[t].status \in Open => tasks'[t].status \in Open
                 \/ versions'[tasks[t].version].status \notin {"pending", "syncing"}
    PROVE  VersionsHaveATask'
<1> SUFFICES ASSUME NEW v \in DOMAIN versions', versions'[v].status \in {"pending", "syncing"}
             PROVE  \E t \in DOMAIN tasks' : /\ tasks'[t].kind = "sync" /\ tasks'[t].version = v
                                             /\ tasks'[t].status \in Open
  BY DEF VersionsHaveATask, Open
<1>1. CASE v \in DOMAIN versions /\ versions[v].status \in {"pending", "syncing"}
  <2>1. PICK t \in DOMAIN tasks : tasks[t].kind = "sync" /\ tasks[t].version = v /\ tasks[t].status \in Open
    BY <1>1 DEF VersionsHaveATask, Open
  <2> QED BY <2>1
<1> QED BY <1>1

LEMMA WorkStep ==
    ASSUME Inv, UNCHANGED store, overtaken' = overtaken, retries' \in Nat, faults' \in Nat,
           tasks' \in Seq(Tasks), DOMAIN tasks' = DOMAIN tasks, workers' \in [Workers -> WorkerStates],
           \A t \in DOMAIN tasks : /\ Continues(tasks[t], tasks'[t])
                                   /\ tasks[t].status \in Open => tasks'[t].status \in Open,
           \A w \in Workers : GoesOn(w)
    PROVE  Inv'
<1>1. Types'
  BY DEF Inv, Types, store, WorkerStates
<1>2. Quiet
  BY DEF Inv, ActiveIsReady, Quiet, store
<1>3. LocksAreHeld'
  BY LocksStay DEF Inv, Continues, store
<1>4. VersionsHaveATask'
  BY VersionsStay DEF Inv, Continues, store
<1> QED BY <1>1, <1>2, <1>3, <1>4, OrdinaryStep

\* One task is rewritten.
LEMMA OneTask ==
    ASSUME tasks \in Seq(Tasks), NEW t \in DOMAIN tasks, NEW e \in Tasks, tasks' = [tasks EXCEPT ![t] = e],
           Continues(tasks[t], e)
    PROVE  /\ tasks' \in Seq(Tasks) /\ DOMAIN tasks' = DOMAIN tasks
           /\ tasks'[t] = e /\ \A u \in DOMAIN tasks : u # t => tasks'[u] = tasks[u]
           /\ \A u \in DOMAIN tasks : Continues(tasks[u], tasks'[u])
<1>1. /\ tasks' \in Seq(Tasks) /\ DOMAIN tasks' = DOMAIN tasks
      /\ tasks'[t] = e /\ \A u \in DOMAIN tasks : u # t => tasks'[u] = tasks[u]
  BY Replaced
<1>2. ASSUME NEW u \in DOMAIN tasks, u # t PROVE Continues(tasks[u], tasks'[u])
  BY <1>1, <1>2 DEF Continues
<1>3. \A u \in DOMAIN tasks : Continues(tasks[u], tasks'[u])
  BY <1>1, <1>2
<1> QED BY <1>1, <1>3

\* A step of a worker on its task.
LEMMA WorkerMoves ==
    ASSUME Inv, NEW w \in Workers, ~At(w, "idle"), UNCHANGED store, overtaken' = overtaken,
           retries' \in Nat, faults' \in Nat, NEW e \in Tasks,
           tasks' = [tasks EXCEPT ![workers[w].task] = e],
           Continues(Task(w), e), Undisturbed(Task(w), e), Task(w).status \in Open => e.status \in Open,
           workers' = [workers EXCEPT ![w] = workers'[w]], workers'[w] \in WorkerStates,
           \/ workers'[w].phase = "idle"
           \/ /\ workers'[w].phase \in {"failing", "failed"} \cup IF Kind(w) = "directory" THEN {"cleanup"} ELSE {}
              /\ workers'[w].task = workers[w].task
    PROVE  Inv'
<1>0. PICK t : t = workers[w].task
  OBVIOUS
<1>1. t \in DOMAIN tasks /\ tasks \in Seq(Tasks) /\ workers \in [Workers -> WorkerStates]
  BY <1>0 DEF Inv, WorkersKeepTheirWord, Working, Types, WorkerStates
<1>2. tasks' = [tasks EXCEPT ![t] = e] /\ Continues(tasks[t], e) /\ Undisturbed(tasks[t], e)
      /\ (tasks[t].status \in Open => e.status \in Open)
  BY <1>0 DEF Task
<1>3. /\ tasks' \in Seq(Tasks) /\ DOMAIN tasks' = DOMAIN tasks
      /\ tasks'[t] = e /\ \A u \in DOMAIN tasks : u # t => tasks'[u] = tasks[u]
      /\ \A u \in DOMAIN tasks : Continues(tasks[u], tasks'[u])
  BY <1>1, <1>2, OneTask
<1>4. workers' \in [Workers -> WorkerStates]
  BY <1>1
<1>5. ASSUME NEW u \in DOMAIN tasks
      PROVE  Undisturbed(tasks[u], tasks'[u]) /\ (tasks[u].status \in Open => tasks'[u].status \in Open)
  BY <1>2, <1>3 DEF Undisturbed
<1>6. ASSUME NEW x \in Workers PROVE GoesOn(x)
  <2>1. CASE x = w
    BY <2>1, <1>0, <1>1 DEF GoesOn, Kind, Task
  <2>2. CASE x # w
    <3>1. workers'[x] = workers[x]
      BY <2>2, <1>1
    <3> QED BY <3>1, <1>5, OthersGoOn
  <2> QED BY <2>1, <2>2
<1> QED BY <1>3, <1>4, <1>5, <1>6, WorkStep

LEMMA TaskTyped ==
    ASSUME Inv, NEW w \in Workers, ~At(w, "idle")
    PROVE  /\ workers[w].task \in DOMAIN tasks /\ Task(w) \in Tasks
           /\ tasks = [tasks EXCEPT ![workers[w].task] = Task(w)]
           /\ Continues(Task(w), Task(w)) /\ Undisturbed(Task(w), Task(w))
<1>1. workers[w].task \in DOMAIN tasks /\ tasks \in Seq(Tasks)
  BY DEF Inv, WorkersKeepTheirWord, Working, Types
<1>2. DOMAIN tasks = 1 .. Len(tasks) /\ \A i \in DOMAIN tasks : tasks[i] \in Tasks
  BY <1>1, LenProperties, ElementOfSeq
<1>3. tasks = [tasks EXCEPT ![workers[w].task] = tasks[workers[w].task]]
  BY <1>1, <1>2
<1> QED BY <1>1, <1>2, <1>3 DEF Task, Continues, Undisturbed

LEMMA StateTyped ==
    ASSUME Inv, NEW w \in Workers
    PROVE  /\ workers \in [Workers -> WorkerStates] /\ Idle \in WorkerStates
           /\ workers[w] \in WorkerStates
           /\ \A phase \in {"idle", "claimed", "embedding", "indexing", "cleanup", "failing", "failed"} :
                  [workers[w] EXCEPT !.phase = phase] \in WorkerStates
BY DEF Inv, Types, WorkerStates, Idle

LEMMA Counters == ASSUME Inv PROVE retries \in Nat /\ faults \in Nat /\ retries + 1 \in Nat /\ faults + 1 \in Nat
BY DEF Inv, Types

LEMMA LostKeeps == ASSUME Inv, NEW w \in Workers, Lost(w) PROVE Inv'
<1>1. ~At(w, "idle") /\ workers' = [workers EXCEPT ![w] = Idle] /\ UNCHANGED store /\ tasks' = tasks
      /\ UNCHANGED <<overtaken, retries, faults>>
  BY DEF Lost, Leave, At
<1>2. workers' = [workers EXCEPT ![w] = workers'[w]] /\ workers'[w] = Idle
  BY <1>1, StateTyped
<1> QED BY <1>1, <1>2, TaskTyped, StateTyped, Counters, WorkerMoves DEF Idle

\* A worker goes elsewhere and writes nothing.
LEMMA GotoKeeps ==
    ASSUME Inv, NEW w \in Workers, ~At(w, "idle"), NEW phase \in {"failing", "failed", "cleanup"},
           phase = "cleanup" => Kind(w) = "directory",
           Goto(w, phase), UNCHANGED <<store, tasks, overtaken, retries>>, faults' \in Nat
    PROVE  Inv'
<1>1. /\ workers' = [workers EXCEPT ![w].phase = phase] /\ UNCHANGED store /\ tasks' = tasks
      /\ overtaken' = overtaken /\ retries' = retries
  BY DEF Goto
<1>2. /\ workers' = [workers EXCEPT ![w] = workers'[w]] /\ workers'[w] = [workers[w] EXCEPT !.phase = phase]
      /\ workers'[w].phase = phase /\ workers'[w].task = workers[w].task
  BY <1>1, StateTyped DEF WorkerStates
<1>3. workers'[w] \in WorkerStates /\ retries' \in Nat
  BY <1>1, <1>2, StateTyped, Counters
<1>4. \/ workers'[w].phase = "idle"
      \/ /\ workers'[w].phase \in {"failing", "failed"} \cup IF Kind(w) = "directory" THEN {"cleanup"} ELSE {}
         /\ workers'[w].task = workers[w].task
  BY <1>2
<1>5. /\ Task(w) \in Tasks /\ tasks' = [tasks EXCEPT ![workers[w].task] = Task(w)]
      /\ Continues(Task(w), Task(w)) /\ Undisturbed(Task(w), Task(w))
  BY <1>1, TaskTyped
<1> QED BY <1>1, <1>2, <1>3, <1>4, <1>5, WorkerMoves

LEMMA ThrowKeeps == ASSUME Inv, NEW w \in Workers, Throw(w) PROVE Inv'
<1>1. faults' \in Nat
  BY Counters DEF Throw
<1> QED BY <1>1, GotoKeeps DEF Throw, At

LEMMA FindGoneKeeps == ASSUME Inv, NEW w \in Workers, FindGone(w) PROVE Inv'
<1>1. faults' \in Nat
  BY Counters DEF FindGone, Refuse
<1> QED BY <1>1, GotoKeeps DEF FindGone, Refuse, At

LEMMA FindStaleRebuildKeeps == ASSUME Inv, NEW w \in Workers, FindStaleRebuild(w) PROVE Inv'
<1>1. faults' \in Nat
  BY Counters DEF FindStaleRebuild, Refuse
<1> QED BY <1>1, GotoKeeps DEF FindStaleRebuild, Refuse, At

LEMMA BeginCleanupKeeps == ASSUME Inv, NEW w \in Workers, BeginCleanup(w) PROVE Inv'
<1>1. ~At(w, "idle") /\ faults' \in Nat
  BY Counters DEF BeginCleanup, At
<1>2. WellFormed(Task(w)) /\ Task(w).cleanup
  BY <1>1, TaskTyped DEF Inv, TasksAreWellFormed, Task, BeginCleanup
<1>3. Kind(w) = "directory"
  BY <1>2 DEF WellFormed, Kind
<1> QED BY <1>1, <1>3, GotoKeeps DEF BeginCleanup

\* What the steps make of a task.
LEMMA Rewrites ==
    ASSUME NEW task \in Tasks
    PROVE  /\ \A s \in {"queued", "running", "failed", "cancelled", "succeeded"} :
                 /\ [task EXCEPT !.status = s, !.candidate = NoCandidate] \in Tasks
                 /\ [task EXCEPT !.status = s, !.owner = None, !.candidate = NoCandidate] \in Tasks
                 /\ [task EXCEPT !.status = s] \in Tasks
           /\ [task EXCEPT !.status = "queued", !.owner = None, !.lease = FALSE] \in Tasks
           /\ [task EXCEPT !.lease = FALSE] \in Tasks
BY NoCandidateIsOne DEF Tasks

LEMMA LeaseExpiresKeeps == ASSUME Inv, NEW t \in DOMAIN tasks, LeaseExpires(t) PROVE Inv'
<1> DEFINE e == [tasks[t] EXCEPT !.lease = FALSE]
<1>1. tasks \in Seq(Tasks) /\ tasks[t] \in Tasks /\ faults' \in Nat /\ retries' \in Nat
  BY Counters, ElementOfSeq DEF Inv, Types, LeaseExpires
<1>2. e \in Tasks
  BY <1>1, Rewrites
<1>3. tasks' = [tasks EXCEPT ![t] = e]
  BY DEF LeaseExpires
<1>4. Continues(tasks[t], e) /\ Undisturbed(tasks[t], e) /\ e.status = tasks[t].status
  BY <1>1 DEF Continues, Undisturbed, Tasks
<1> HIDE DEF e
<1>5. /\ tasks' \in Seq(Tasks) /\ DOMAIN tasks' = DOMAIN tasks
      /\ tasks'[t] = e /\ \A u \in DOMAIN tasks : u # t => tasks'[u] = tasks[u]
      /\ \A u \in DOMAIN tasks : Continues(tasks[u], tasks'[u])
  BY <1>1, <1>2, <1>3, <1>4, OneTask
<1>6. ASSUME NEW u \in DOMAIN tasks
      PROVE  Undisturbed(tasks[u], tasks'[u]) /\ tasks'[u].status = tasks[u].status
  BY <1>4, <1>5 DEF Undisturbed
<1>7. workers' = workers /\ UNCHANGED store /\ overtaken' = overtaken
  BY DEF LeaseExpires
<1>8. workers' \in [Workers -> WorkerStates] /\ \A x \in Workers : GoesOn(x)
  BY <1>6, <1>7, OthersGoOn, StateTyped DEF Inv, Types, WorkerStates
<1> QED BY <1>1, <1>5, <1>6, <1>7, <1>8, WorkStep

LEMMA ReleasedTask ==
    ASSUME Inv, NEW w \in Workers, ~At(w, "idle")
    PROVE  \E e \in Tasks : /\ Released(w) = [tasks EXCEPT ![workers[w].task] = e]
                            /\ Continues(Task(w), e) /\ Undisturbed(Task(w), e)
                            /\ Task(w).status \in Open => e.status \in Open
<1> DEFINE e == IF Owns(w) /\ Task(w).status \in {"running", "failed"}
                THEN [Task(w) EXCEPT !.status = "queued", !.owner = None, !.lease = FALSE] ELSE Task(w)
<1>1. Task(w) \in Tasks
  BY TaskTyped
<1>2. e \in Tasks
  BY <1>1, Rewrites
<1>3. Released(w) = [tasks EXCEPT ![workers[w].task] = e]
  BY DEF Released, Task
<1>4. Continues(Task(w), e) /\ Undisturbed(Task(w), e)
  BY <1>1 DEF Continues, Undisturbed, Tasks
<1>5. Task(w).status \in Open => e.status \in Open
  BY <1>1 DEF Open, Tasks
<1> QED BY <1>2, <1>3, <1>4, <1>5

LEMMA LeaveStep ==
    ASSUME Inv, NEW w \in Workers, ~At(w, "idle"), Leave(w), UNCHANGED store, overtaken' = overtaken,
           retries' \in Nat, faults' \in Nat, NEW e \in Tasks,
           tasks' = [tasks EXCEPT ![workers[w].task] = e],
           Continues(Task(w), e), Undisturbed(Task(w), e), Task(w).status \in Open => e.status \in Open
    PROVE  Inv'
<1>1. workers' = [workers EXCEPT ![w] = workers'[w]] /\ workers'[w] = Idle
  BY StateTyped DEF Leave
<1>2. workers'[w] \in WorkerStates
  BY <1>1, StateTyped
<1>3. workers'[w].phase = "idle"
  BY <1>1 DEF Idle
<1> QED BY <1>1, <1>2, <1>3, WorkerMoves

LEMMA StopWorkerKeeps == ASSUME Inv, NEW w \in Workers, StopWorker(w) PROVE Inv'
<1>1. ~At(w, "idle") /\ Leave(w) /\ UNCHANGED store /\ overtaken' = overtaken /\ tasks' = Released(w)
  BY DEF StopWorker
<1>2. retries' \in Nat /\ faults' \in Nat
  BY Counters DEF StopWorker
<1>3. PICK e \in Tasks : /\ Released(w) = [tasks EXCEPT ![workers[w].task] = e]
                         /\ Continues(Task(w), e) /\ Undisturbed(Task(w), e)
                         /\ Task(w).status \in Open => e.status \in Open
  BY <1>1, ReleasedTask
<1> QED BY <1>1, <1>2, <1>3, LeaveStep

LEMMA CrashWorkerKeeps == ASSUME Inv, NEW w \in Workers, CrashWorker(w) PROVE Inv'
<1> DEFINE e == IF Task(w).owner = w THEN [Task(w) EXCEPT !.lease = FALSE] ELSE Task(w)
<1>1. ~At(w, "idle") /\ Leave(w) /\ UNCHANGED store /\ overtaken' = overtaken
  BY DEF CrashWorker
<1>2. retries' \in Nat /\ faults' \in Nat
  BY Counters DEF CrashWorker
<1>3. Task(w) \in Tasks /\ workers[w].task \in DOMAIN tasks
  BY <1>1, TaskTyped
<1>4. e \in Tasks
  BY <1>3, Rewrites
<1>5. tasks' = [tasks EXCEPT ![workers[w].task] = e]
  <2>1. CASE Task(w).owner = w
    BY <2>1 DEF CrashWorker, Task
  <2>2. CASE Task(w).owner # w
    <3>1. Task(w) = [Task(w) EXCEPT !.lease = @]
      BY <1>3 DEF Tasks
    <3> QED BY <2>2, <3>1 DEF CrashWorker, Task
  <2> QED BY <2>1, <2>2
<1>6. Continues(Task(w), e) /\ Undisturbed(Task(w), e)
  BY <1>3 DEF Continues, Undisturbed, Tasks
<1>7. Task(w).status \in Open => e.status \in Open
  BY <1>3 DEF Open, Tasks
<1> HIDE DEF e
<1> QED BY <1>1, <1>2, <1>4, <1>5, <1>6, <1>7, LeaveStep

LEMMA RetryFailedTaskKeeps == ASSUME Inv, NEW w \in Workers, RetryFailedTask(w) PROVE Inv'
<1>1. ~At(w, "idle") /\ Leave(w) /\ UNCHANGED store /\ overtaken' = overtaken
  BY DEF RetryFailedTask, At
<1>2. retries' \in Nat /\ faults' \in Nat
  BY Counters DEF RetryFailedTask
<1>3. CASE tasks' = Released(w)
  <2>1. PICK e \in Tasks : /\ Released(w) = [tasks EXCEPT ![workers[w].task] = e]
                           /\ Continues(Task(w), e) /\ Undisturbed(Task(w), e)
                           /\ Task(w).status \in Open => e.status \in Open
    BY <1>1, ReleasedTask
  <2> QED BY <1>1, <1>2, <1>3, <2>1, LeaveStep
<1>4. CASE tasks' = tasks
  <2>1. /\ Task(w) \in Tasks /\ tasks' = [tasks EXCEPT ![workers[w].task] = Task(w)]
        /\ Continues(Task(w), Task(w)) /\ Undisturbed(Task(w), Task(w))
    BY <1>1, <1>4, TaskTyped
  <2> QED BY <1>1, <1>2, <2>1, LeaveStep
<1> QED BY <1>3, <1>4 DEF RetryFailedTask

\* A task is over, or has failed, and its candidate is dropped.
LEMMA SettledTask ==
    ASSUME Inv, NEW t \in DOMAIN tasks, NEW s \in {"failed", "cancelled"}
    PROVE  LET e == [tasks[t] EXCEPT !.status = s, !.candidate = NoCandidate]
           IN  /\ e \in Tasks /\ e.status = s
               /\ [tasks EXCEPT ![t].status = s, ![t].candidate = NoCandidate] = [tasks EXCEPT ![t] = e]
               /\ tasks[t].status # "succeeded" => Continues(tasks[t], e)
               /\ Undisturbed(tasks[t], e)
<1> DEFINE e == [tasks[t] EXCEPT !.status = s, !.candidate = NoCandidate]
<1>1. tasks \in Seq(Tasks) /\ tasks[t] \in Tasks
  BY ElementOfSeq DEF Inv, Types
<1>2. e \in Tasks
  BY <1>1, Rewrites
<1>3. e.status = s
  BY <1>1 DEF Tasks
<1>4. [tasks EXCEPT ![t].status = s, ![t].candidate = NoCandidate] = [tasks EXCEPT ![t] = e]
  BY <1>1
<1>5. tasks[t].status # "succeeded" => Continues(tasks[t], e)
  BY <1>1 DEF Continues, Tasks
<1>6. Undisturbed(tasks[t], e)
  BY <1>3 DEF Undisturbed
<1> QED BY <1>2, <1>3, <1>4, <1>5, <1>6

LEMMA FindStaleKeeps == ASSUME Inv, NEW w \in Workers, FindStale(w) PROVE Inv'
<1> DEFINE t == workers[w].task
           e == [tasks[t] EXCEPT !.status = "failed", !.candidate = NoCandidate]
<1>1. /\ ~At(w, "idle") /\ UNCHANGED store /\ overtaken' = overtaken /\ Task(w).status = "running"
      /\ workers' = [workers EXCEPT ![w].phase = "failed"]
      /\ tasks' = [tasks EXCEPT ![t].status = "failed", ![t].candidate = NoCandidate]
  BY DEF FindStale, At, Fenced, Settled, Goto
<1>2. retries' \in Nat /\ faults' \in Nat
  BY Counters DEF FindStale
<1>3. t \in DOMAIN tasks
  BY <1>1, TaskTyped
<1>4. /\ e \in Tasks /\ e.status = "failed" /\ tasks' = [tasks EXCEPT ![t] = e]
      /\ Continues(Task(w), e) /\ Undisturbed(Task(w), e)
  BY <1>1, <1>3, SettledTask DEF Task
<1>5. workers' = [workers EXCEPT ![w] = workers'[w]] /\ workers'[w] = [workers[w] EXCEPT !.phase = "failed"]
  BY <1>1, StateTyped
<1>6. workers'[w] \in WorkerStates
  BY <1>5, StateTyped
<1>8. workers[w] \in WorkerStates
  BY StateTyped
<1>9. workers'[w].phase = "failed" /\ workers'[w].task = t
  BY <1>5, <1>8 DEF WorkerStates
<1>7. e.status \in Open
  BY <1>4 DEF Open
<1> HIDE DEF e
<1> QED BY <1>1, <1>2, <1>4, <1>5, <1>6, <1>7, <1>9, WorkerMoves

LEMMA RecoveredTasks ==
    ASSUME Inv
    PROVE  /\ Recovered \in Seq(Tasks) /\ DOMAIN Recovered = DOMAIN tasks
           /\ \A t \in DOMAIN tasks :
                 /\ Recovered[t] \in Tasks
                 /\ Continues(tasks[t], Recovered[t]) /\ Undisturbed(tasks[t], Recovered[t])
                 /\ tasks[t].status \in Open => Recovered[t].status \in Open
<1>1. tasks \in Seq(Tasks)
  BY DEF Inv, Types
<1>2. ASSUME NEW t \in DOMAIN tasks
      PROVE  /\ Recovered[t] \in Tasks
             /\ Continues(tasks[t], Recovered[t]) /\ Undisturbed(tasks[t], Recovered[t])
             /\ tasks[t].status \in Open => Recovered[t].status \in Open
  <2> DEFINE expired == tasks[t].status = "running" /\ ~tasks[t].lease
             spent == tasks[t].attempts >= MaxAttempts
             status == IF spent THEN "failed" ELSE "queued"
  <2>1. tasks[t] \in Tasks
    BY <1>1, ElementOfSeq
  <2>2. CASE expired
    <3>1. Recovered[t] = [tasks[t] EXCEPT !.status = status, !.owner = None, !.candidate = NoCandidate]
      BY <2>2 DEF Recovered
    <3>2. status \in {"queued", "failed"}
      OBVIOUS
    <3> HIDE DEF status
    <3>3. Recovered[t] \in Tasks
      <4>1. status \in {"queued", "running", "failed", "cancelled", "succeeded"}
        BY <3>2
      <4>2. [tasks[t] EXCEPT !.status = status, !.owner = None, !.candidate = NoCandidate] \in Tasks
        BY <2>1, <4>1, Rewrites
      <4> QED BY <3>1, <4>2
    <3>4. Recovered[t].status = status
      BY <2>1, <3>1 DEF Tasks
    <3>5. Continues(tasks[t], Recovered[t])
      <4> DEFINE old == tasks[t]
                 new == Recovered[t]
      <4>1. /\ new.kind = old.kind /\ new.document = old.document /\ new.version = old.version
            /\ new.targets = old.targets /\ new.directory = old.directory /\ new.base = old.base
            /\ new.cleanup = old.cleanup /\ new.candidate = NoCandidate
        BY <2>1, <3>1 DEF Tasks
      <4>2. old.status # "succeeded"
        BY <2>2
      <4> HIDE DEF old, new
      <4>3. Continues(old, new)
        BY <4>1, <4>2 DEF Continues
      <4> QED BY <4>3 DEF old, new
    <3>6. Undisturbed(tasks[t], Recovered[t])
      BY <3>2, <3>4 DEF Undisturbed
    <3> QED BY <3>2, <3>3, <3>4, <3>5, <3>6 DEF Open
  <2>3. CASE ~expired /\ tasks[t].status = "queued" /\ spent
    <3>1. Recovered[t] = [tasks[t] EXCEPT !.status = "failed"]
      BY <2>3 DEF Recovered
    <3>2. Recovered[t] \in Tasks
      BY <2>1, <3>1, Rewrites
    <3>3. Continues(tasks[t], Recovered[t]) /\ Undisturbed(tasks[t], Recovered[t])
          /\ Recovered[t].status = "failed"
      BY <2>1, <2>3, <3>1 DEF Tasks, Continues, Undisturbed
    <3> QED BY <3>2, <3>3 DEF Open
  <2>4. CASE ~expired /\ ~(tasks[t].status = "queued" /\ spent)
    <3>1. Recovered[t] = tasks[t]
      BY <2>4 DEF Recovered
    <3> QED BY <2>1, <3>1 DEF Continues, Undisturbed
  <2> QED BY <2>2, <2>3, <2>4
<1>3. DOMAIN Recovered = DOMAIN tasks /\ Recovered = [t \in DOMAIN tasks |-> Recovered[t]]
  BY DEF Recovered
<1>4. Recovered \in Seq(Tasks)
  BY <1>1, <1>2, <1>3, Rewritten
<1> QED BY <1>2, <1>3, <1>4

LEMMA ClaimNothingKeeps == ASSUME Inv, NEW w \in Workers, ClaimNothing(w) PROVE Inv'
<1>1. tasks' = Recovered /\ UNCHANGED store /\ workers' = workers /\ overtaken' = overtaken
  BY DEF ClaimNothing
<1>2. retries' \in Nat /\ faults' \in Nat
  BY Counters DEF ClaimNothing
<1>3. \A x \in Workers : GoesOn(x)
  BY <1>1, RecoveredTasks, OthersGoOn
<1>4. workers' \in [Workers -> WorkerStates]
  BY <1>1, StateTyped DEF Inv, Types, WorkerStates
<1>5. /\ tasks' \in Seq(Tasks) /\ DOMAIN tasks' = DOMAIN tasks
      /\ \A t \in DOMAIN tasks : /\ Continues(tasks[t], tasks'[t])
                                 /\ tasks[t].status \in Open => tasks'[t].status \in Open
  BY <1>1, RecoveredTasks
<1> QED BY <1>1, <1>2, <1>3, <1>4, <1>5, WorkStep

LEMMA ClaimTaskKeeps == ASSUME Inv, NEW w \in Workers, ClaimTask(w) PROVE Inv'
<1>1. PICK t \in Claimable :
          /\ tasks' = [Recovered EXCEPT ![t].status = "running", ![t].owner = w, ![t].lease = TRUE,
                                        ![t].attempts = @ + 1]
          /\ workers' = [workers EXCEPT ![w] = [Idle EXCEPT !.phase = "claimed", !.task = t]]
  BY DEF ClaimTask
<1>2. UNCHANGED store /\ overtaken' = overtaken /\ At(w, "idle")
  BY DEF ClaimTask
<1>3. retries' \in Nat /\ faults' \in Nat
  BY Counters DEF ClaimTask
<1>4. t \in DOMAIN tasks /\ Recovered[t].status = "queued" /\ Recovered[t].attempts < MaxAttempts
  BY DEF Claimable
<1>5. /\ Recovered \in Seq(Tasks) /\ DOMAIN Recovered = DOMAIN tasks
      /\ \A u \in DOMAIN tasks :
            /\ Recovered[u] \in Tasks
            /\ Continues(tasks[u], Recovered[u]) /\ Undisturbed(tasks[u], Recovered[u])
            /\ tasks[u].status \in Open => Recovered[u].status \in Open
  BY RecoveredTasks
<1> DEFINE r == Recovered[t]
           e == [r EXCEPT !.status = "running", !.owner = w, !.lease = TRUE, !.attempts = @ + 1]
<1>6. r \in Tasks /\ r.attempts + 1 \in 0 .. MaxAttempts
  BY <1>4, <1>5, Constants DEF Tasks
<1>7. e \in Tasks /\ e.owner = w /\ e.status = "running"
  BY <1>6 DEF Tasks
<1>8. tasks' = [Recovered EXCEPT ![t] = e]
  BY <1>1
<1>9. Continues(tasks[t], e)
  <2>1. Continues(tasks[t], r)
    BY <1>4, <1>5
  <2>2. /\ e.kind = r.kind /\ e.document = r.document /\ e.version = r.version
        /\ e.targets = r.targets /\ e.directory = r.directory /\ e.base = r.base
        /\ e.cleanup = r.cleanup /\ e.candidate = r.candidate
    BY <1>6 DEF Tasks
  <2>3. r.status = "queued"
    BY <1>4
  <2> HIDE DEF e, r
  <2> QED BY <2>1, <2>2, <2>3 DEF Continues
<1> HIDE DEF e, r
<1>10. /\ tasks' \in Seq(Tasks) /\ DOMAIN tasks' = DOMAIN tasks /\ tasks'[t] = e
       /\ \A u \in DOMAIN tasks : u # t => tasks'[u] = Recovered[u]
  BY <1>4, <1>5, <1>7, <1>8, Replaced
<1>11. ASSUME NEW u \in DOMAIN tasks
       PROVE  /\ Continues(tasks[u], tasks'[u])
              /\ tasks[u].status \in Open => tasks'[u].status \in Open
  BY <1>5, <1>7, <1>9, <1>10 DEF Open
<1>12. workers \in [Workers -> WorkerStates] /\ workers' \in [Workers -> WorkerStates]
  <2>1. [Idle EXCEPT !.phase = "claimed", !.task = t] \in WorkerStates
    <3>1. t \in Nat
      BY <1>4, LenProperties DEF Inv, Types
    <3> QED BY <3>1 DEF Idle, WorkerStates
  <2> QED BY <2>1, <1>1, StateTyped DEF Inv, Types, WorkerStates
<1>13. ASSUME NEW x \in Workers PROVE GoesOn(x)
  <2>1. CASE x = w
    <3>1. workers'[w].phase = "claimed" /\ workers'[w].task = t
      BY <1>1, <1>12 DEF Idle
    <3> QED BY <2>1, <3>1, <1>4 DEF GoesOn
  <2>2. CASE x # w
    <3>1. workers'[x] = workers[x]
      BY <1>1, <1>12, <2>2
    <3>2. \A u \in DOMAIN tasks : Undisturbed(tasks[u], tasks'[u]) \/ tasks'[u].owner # x
      BY <1>5, <1>7, <1>10, <2>2
    <3> QED BY <3>1, <3>2, OthersGoOn
  <2> QED BY <2>1, <2>2
<1> QED BY <1>2, <1>3, <1>10, <1>11, <1>12, <1>13, WorkStep

-----------------------------------------------------------------------------
\* The steps that settle a task and what it has marked.

DocumentStates == [born : Nat, active : Nat, lock : Nat]
DirectoryStates == [born : Nat, lock : Nat]

\* Versions which are not active change, and none comes back.
VersionsChange ==
    /\ versions' \in Seq(Versions) /\ DOMAIN versions' = DOMAIN versions
    /\ \A v \in DOMAIN versions :
          /\ versions'[v].document = versions[v].document
          /\ \/ versions'[v].status = versions[v].status
             \/ /\ versions[v].status # "purged" /\ versions'[v].status # "purged"
                /\ \A d \in Documents : documents[d].active # v

LEMMA SettlingStep ==
    ASSUME Inv, UNCHANGED <<index, config, outdated, overtaken>>, retries' \in Nat, faults' \in Nat,
           documents' \in [Documents -> DocumentStates], directory' \in DirectoryStates,
           \A d \in Documents : documents'[d].active = documents[d].active,
           VersionsChange,
           tasks' \in Seq(Tasks), DOMAIN tasks' = DOMAIN tasks,
           \A t \in DOMAIN tasks : Continues(tasks[t], tasks'[t]),
           workers' \in [Workers -> WorkerStates], \A w \in Workers : GoesOn(w),
           LocksAreHeld', VersionsHaveATask'
    PROVE  Inv'
<1>1. Types'
  BY DEF Inv, Types, VersionsChange, DocumentStates, DirectoryStates, WorkerStates
<1>2. Quiet
  BY DEF Inv, ActiveIsReady, Quiet, VersionsChange
<1> QED BY <1>1, <1>2, OrdinaryStep

LEMMA StoreTyped ==
    ASSUME Inv
    PROVE  /\ documents \in [Documents -> DocumentStates] /\ directory \in DirectoryStates
           /\ versions \in Seq(Versions) /\ tasks \in Seq(Tasks)
           /\ \A t \in DOMAIN tasks : tasks[t] \in Tasks /\ t \in Nat /\ t # 0
           /\ \A v \in DOMAIN versions : versions[v] \in Versions /\ v \in Nat /\ v # 0
<1>1. /\ documents \in [Documents -> DocumentStates] /\ directory \in DirectoryStates
      /\ versions \in Seq(Versions) /\ tasks \in Seq(Tasks)
  BY DEF Inv, Types, DocumentStates, DirectoryStates
<1>2. \A t \in DOMAIN tasks : tasks[t] \in Tasks /\ t \in Nat /\ t # 0
  BY <1>1, ElementOfSeq, LenProperties
<1>3. \A v \in DOMAIN versions : versions[v] \in Versions /\ v \in Nat /\ v # 0
  BY <1>1, ElementOfSeq, LenProperties
<1> QED BY <1>1, <1>2, <1>3

LEMMA Unlocking ==
    ASSUME Inv, NEW t \in DOMAIN tasks
    PROVE  /\ Unlocked(t) \in [Documents -> DocumentStates]
           /\ UnlockedDirectory(t) \in DirectoryStates
           /\ \A d \in Documents :
                 /\ Unlocked(t)[d].active = documents[d].active
                 /\ Unlocked(t)[d].born = documents[d].born
                 /\ Unlocked(t)[d].lock \in {documents[d].lock, 0} /\ Unlocked(t)[d].lock # t
           /\ UnlockedDirectory(t).born = directory.born
           /\ UnlockedDirectory(t).lock \in {directory.lock, 0} /\ UnlockedDirectory(t).lock # t
<1>1. documents \in [Documents -> DocumentStates] /\ directory \in DirectoryStates /\ t \in Nat /\ t # 0
  BY StoreTyped
<1>2. ASSUME NEW d \in Documents
      PROVE  /\ Unlocked(t)[d] \in DocumentStates
             /\ Unlocked(t)[d].active = documents[d].active
             /\ Unlocked(t)[d].born = documents[d].born
             /\ Unlocked(t)[d].lock \in {documents[d].lock, 0} /\ Unlocked(t)[d].lock # t
  <2>1. documents[d] \in DocumentStates
    BY <1>1
  <2>2. Unlocked(t)[d] = IF documents[d].lock = t THEN [documents[d] EXCEPT !.lock = 0] ELSE documents[d]
    BY DEF Unlocked
  <2> QED BY <1>1, <2>1, <2>2 DEF DocumentStates
<1>3. Unlocked(t) \in [Documents -> DocumentStates]
  BY <1>2 DEF Unlocked
<1>4. /\ UnlockedDirectory(t) \in DirectoryStates
      /\ UnlockedDirectory(t).born = directory.born
      /\ UnlockedDirectory(t).lock \in {directory.lock, 0} /\ UnlockedDirectory(t).lock # t
  BY <1>1 DEF UnlockedDirectory, DirectoryStates
<1> QED BY <1>2, <1>3, <1>4

\* One task is settled and the workers go on: its own leaves, if it is a step of a worker.
LEMMA OneTaskGoesOn ==
    ASSUME Inv, NEW t \in DOMAIN tasks, NEW e \in Tasks, tasks' = [tasks EXCEPT ![t] = e],
           Continues(tasks[t], e), Undisturbed(tasks[t], e)
    PROVE  /\ tasks' \in Seq(Tasks) /\ DOMAIN tasks' = DOMAIN tasks
           /\ tasks'[t] = e /\ \A u \in DOMAIN tasks : u # t => tasks'[u] = tasks[u]
           /\ \A u \in DOMAIN tasks : Continues(tasks[u], tasks'[u])
           /\ \A x \in Workers : workers'[x] = workers[x] => GoesOn(x)
<1>1. /\ tasks' \in Seq(Tasks) /\ DOMAIN tasks' = DOMAIN tasks
      /\ tasks'[t] = e /\ \A u \in DOMAIN tasks : u # t => tasks'[u] = tasks[u]
      /\ \A u \in DOMAIN tasks : Continues(tasks[u], tasks'[u])
  BY StoreTyped, OneTask
<1>2. \A u \in DOMAIN tasks : Undisturbed(tasks[u], tasks'[u])
  BY <1>1 DEF Undisturbed
<1>3. ASSUME NEW x \in Workers, workers'[x] = workers[x] PROVE GoesOn(x)
  BY <1>2, <1>3, OthersGoOn
<1> QED BY <1>1, <1>3

LEMMA LeavesOrFails ==
    ASSUME Inv, NEW w \in Workers, ~At(w, "idle"), Leave(w) \/ Goto(w, "failed"),
           \A x \in Workers : workers'[x] = workers[x] => GoesOn(x)
    PROVE  workers' \in [Workers -> WorkerStates] /\ \A x \in Workers : GoesOn(x)
<1>1. workers \in [Workers -> WorkerStates] /\ Idle \in WorkerStates /\ workers[w] \in WorkerStates
      /\ [workers[w] EXCEPT !.phase = "failed"] \in WorkerStates
  BY StateTyped
<1>2. workers[w].task \in DOMAIN tasks
  BY TaskTyped
<1>3. CASE Leave(w)
  <2>1. workers' \in [Workers -> WorkerStates] /\ workers'[w] = Idle
        /\ \A x \in Workers : x # w => workers'[x] = workers[x]
    BY <1>1, <1>3 DEF Leave
  <2>2. GoesOn(w)
    BY <2>1 DEF GoesOn, Idle
  <2> QED BY <2>1, <2>2
<1>4. CASE Goto(w, "failed")
  <2>1. workers' \in [Workers -> WorkerStates] /\ workers'[w] = [workers[w] EXCEPT !.phase = "failed"]
        /\ \A x \in Workers : x # w => workers'[x] = workers[x]
    BY <1>1, <1>4 DEF Goto
  <2>2. workers'[w].phase = "failed" /\ workers'[w].task = workers[w].task
    BY <1>1, <2>1 DEF WorkerStates
  <2>3. GoesOn(w)
    BY <1>2, <2>2 DEF GoesOn
  <2> QED BY <2>1, <2>3
<1> QED BY <1>3, <1>4

\* Some versions which are neither deleted nor active get another status.
LEMMA Marking ==
    ASSUME Inv, NEW S, NEW s \in {"pending", "syncing", "failed"},
           versions' = [v \in DOMAIN versions |->
                            IF v \in S THEN [versions[v] EXCEPT !.status = s] ELSE versions[v]],
           \A v \in DOMAIN versions : v \in S => Alive(v) /\ \A d \in Documents : documents[d].active # v
    PROVE  /\ VersionsChange
           /\ \A v \in DOMAIN versions : versions'[v].status = IF v \in S THEN s ELSE versions[v].status
<1>1. versions \in Seq(Versions) /\ \A v \in DOMAIN versions : versions[v] \in Versions
  BY StoreTyped
<1>2. ASSUME NEW v \in DOMAIN versions
      PROVE  /\ versions'[v] \in Versions /\ versions'[v].document = versions[v].document
             /\ versions'[v].status = IF v \in S THEN s ELSE versions[v].status
  <2>1. versions[v] \in Versions
    BY <1>1
  <2>2. versions'[v] = IF v \in S THEN [versions[v] EXCEPT !.status = s] ELSE versions[v]
    OBVIOUS
  <2> QED BY <2>1, <2>2 DEF Versions
<1>3. DOMAIN versions' = DOMAIN versions /\ versions' = [v \in DOMAIN versions |-> versions'[v]]
  OBVIOUS
<1>4. versions' \in Seq(Versions)
  BY <1>1, <1>2, <1>3, Rewritten
<1> QED BY <1>2, <1>3, <1>4 DEF VersionsChange, Alive

\* The upload of a task that has not succeeded is not the active version.
LEMMA NotYetActive ==
    ASSUME Inv, NEW t \in DOMAIN tasks, tasks[t].kind = "sync", tasks[t].status # "succeeded"
    PROVE  tasks[t].version \in DOMAIN versions /\ \A d \in Documents : documents[d].active # tasks[t].version
BY DEF Inv, TasksAreWellFormed, WellFormed

LEMMA VersionsUnchanged == ASSUME Inv, versions' = versions PROVE VersionsChange
BY StoreTyped DEF VersionsChange

LEMMA CancelTaskKeeps == ASSUME Inv, NEW t \in DOMAIN tasks, CancelTask(t) PROVE Inv'
<1> DEFINE e == [tasks[t] EXCEPT !.status = "cancelled", !.candidate = NoCandidate]
           S == {v \in DOMAIN versions : tasks[t].kind = "sync" /\ tasks[t].version = v
                                          /\ versions[v].status \in {"pending", "syncing"}}
<1>1. /\ tasks' = [tasks EXCEPT ![t].status = "cancelled", ![t].candidate = NoCandidate]
      /\ documents' = Unlocked(t) /\ directory' = UnlockedDirectory(t) /\ workers' = workers
      /\ UNCHANGED <<index, config, outdated, overtaken>> /\ tasks[t].status \in {"queued", "running"}
      /\ versions' = [v \in DOMAIN versions |->
                         IF v \in S THEN [versions[v] EXCEPT !.status = "failed"] ELSE versions[v]]
  BY DEF CancelTask, Unsettled, CancelledVersions
<1>2. /\ e \in Tasks /\ e.status = "cancelled" /\ tasks' = [tasks EXCEPT ![t] = e]
      /\ Continues(tasks[t], e) /\ Undisturbed(tasks[t], e)
  BY <1>1, SettledTask
<1> HIDE DEF e
<1>3. /\ tasks' \in Seq(Tasks) /\ DOMAIN tasks' = DOMAIN tasks
      /\ tasks'[t] = e /\ \A u \in DOMAIN tasks : u # t => tasks'[u] = tasks[u]
      /\ \A u \in DOMAIN tasks : Continues(tasks[u], tasks'[u])
      /\ \A x \in Workers : GoesOn(x)
  BY <1>1, <1>2, OneTaskGoesOn
<1>4. \A v \in S : Alive(v) /\ \A d \in Documents : documents[d].active # v
  BY <1>1, NotYetActive DEF Alive
<1>5. /\ VersionsChange
      /\ \A v \in DOMAIN versions : versions'[v].status = IF v \in S THEN "failed" ELSE versions[v].status
  <2> HIDE DEF S
  <2> QED BY <1>1, <1>4, Marking
<1>6. /\ documents' \in [Documents -> DocumentStates] /\ directory' \in DirectoryStates
      /\ \A d \in Documents : documents'[d].active = documents[d].active
  BY <1>1, Unlocking
<1>7. LocksAreHeld'
  <2>1. \A d \in Documents : documents'[d].lock \in {documents[d].lock, 0} /\ documents'[d].lock # t
    BY <1>1, Unlocking
  <2>2. /\ directory'.lock \in {directory.lock, 0} /\ directory'.lock # t
        /\ directory'.born = directory.born
    BY <1>1, Unlocking
  <2>3. LocksAreHeld
    BY DEF Inv
  <2>4. \A u \in DOMAIN tasks :
           /\ u \in DOMAIN tasks'
           /\ tasks'[u].kind = tasks[u].kind /\ tasks'[u].directory = tasks[u].directory
           /\ \/ tasks[u].status \in Open => tasks'[u].status \in Open
              \/ (\A d \in Documents : documents'[d].lock # u) /\ directory'.lock # u
    BY <1>3, <2>1, <2>2 DEF Continues
  <2> QED BY <2>1, <2>2, <2>3, <2>4, LocksStay
<1>8. VersionsHaveATask'
  <2>1. \A v \in DOMAIN versions' : versions'[v].status \in {"pending", "syncing"} =>
           v \in DOMAIN versions /\ versions[v].status \in {"pending", "syncing"} /\ v \notin S
    BY <1>5 DEF VersionsChange
  <2>2. \A u \in DOMAIN tasks : tasks[u].kind = "sync" =>
           /\ u \in DOMAIN tasks'
           /\ tasks'[u].kind = tasks[u].kind /\ tasks'[u].version = tasks[u].version
           /\ \/ tasks[u].status \in Open => tasks'[u].status \in Open
              \/ versions'[tasks[u].version].status \notin {"pending", "syncing"}
    <3> SUFFICES ASSUME NEW u \in DOMAIN tasks, tasks[u].kind = "sync", u = t
                 PROVE  versions'[tasks[u].version].status \notin {"pending", "syncing"}
      BY <1>3 DEF Continues
    <3>1. tasks[t].version \in DOMAIN versions
      BY <1>1, NotYetActive
    <3> QED BY <1>5, <3>1
  <2>3. VersionsHaveATask
    BY DEF Inv
  <2> QED BY <2>1, <2>2, <2>3, VersionsStay
<1>9. workers' \in [Workers -> WorkerStates] /\ retries' \in Nat /\ faults' \in Nat
  BY <1>1, Counters DEF Inv, Types, WorkerStates, CancelTask
<1> QED BY <1>1, <1>3, <1>5, <1>6, <1>7, <1>8, <1>9, SettlingStep

\* The scope of a deletion which is over is given back.
LEMMA ScopeGivenBack ==
    ASSUME Inv, NEW t \in DOMAIN tasks, documents' = Unlocked(t),
           directory'.lock \in {UnlockedDirectory(t).lock, 0}, directory'.lock # 0 => directory'.born = directory.born,
           DOMAIN tasks' = DOMAIN tasks, \A u \in DOMAIN tasks : u # t => tasks'[u] = tasks[u],
           Continues(tasks[t], tasks'[t])
    PROVE  LocksAreHeld'
<1>1. \A d \in Documents : documents'[d].lock \in {documents[d].lock, 0} /\ documents'[d].lock # t
  BY Unlocking
<1>2. directory'.lock \in {directory.lock, 0} /\ directory'.lock # t
  BY Unlocking, StoreTyped
<1>3. LocksAreHeld
  BY DEF Inv
<1>4. \A u \in DOMAIN tasks :
         /\ u \in DOMAIN tasks'
         /\ tasks'[u].kind = tasks[u].kind /\ tasks'[u].directory = tasks[u].directory
         /\ \/ tasks[u].status \in Open => tasks'[u].status \in Open
            \/ (\A d \in Documents : documents'[d].lock # u) /\ directory'.lock # u
  BY <1>1, <1>2 DEF Continues
<1> QED BY <1>1, <1>2, <1>3, <1>4, LocksStay

\* A task settles that is not a synchronisation, or that is still open, and no version changes.
LEMMA UploadsStay ==
    ASSUME Inv, versions' = versions, NEW t \in DOMAIN tasks,
           DOMAIN tasks' = DOMAIN tasks, \A u \in DOMAIN tasks : u # t => tasks'[u] = tasks[u],
           Continues(tasks[t], tasks'[t]), tasks[t].kind # "sync"
    PROVE  VersionsHaveATask'
<1>1. VersionsHaveATask
  BY DEF Inv
<1> QED BY <1>1, VersionsStay DEF Continues

LEMMA FindSupersededKeeps == ASSUME Inv, NEW w \in Workers, FindSuperseded(w) PROVE Inv'
<1>0. PICK t : t = workers[w].task
  OBVIOUS
<1> DEFINE e == [tasks[t] EXCEPT !.status = "cancelled", !.candidate = NoCandidate]
<1>1. /\ tasks' = [tasks EXCEPT ![t].status = "cancelled", ![t].candidate = NoCandidate]
      /\ documents' = Unlocked(t) /\ directory' = UnlockedDirectory(t) /\ versions' = versions
      /\ UNCHANGED <<index, config, outdated, overtaken>> /\ tasks[t].status = "running"
      /\ ~At(w, "idle") /\ Leave(w) /\ tasks[t].kind # "sync"
  BY <1>0 DEF FindSuperseded, Settled, Fenced, Task, At, Superseded, Kind
<1>2. t \in DOMAIN tasks
  BY <1>0, <1>1, TaskTyped
<1>3. /\ e \in Tasks /\ tasks' = [tasks EXCEPT ![t] = e]
      /\ Continues(tasks[t], e) /\ Undisturbed(tasks[t], e)
  BY <1>1, <1>2, SettledTask
<1> HIDE DEF e
<1>4. /\ tasks' \in Seq(Tasks) /\ DOMAIN tasks' = DOMAIN tasks
      /\ tasks'[t] = e /\ \A u \in DOMAIN tasks : u # t => tasks'[u] = tasks[u]
      /\ \A u \in DOMAIN tasks : Continues(tasks[u], tasks'[u])
      /\ \A x \in Workers : workers'[x] = workers[x] => GoesOn(x)
  BY <1>2, <1>3, OneTaskGoesOn
<1>5. workers' \in [Workers -> WorkerStates] /\ \A x \in Workers : GoesOn(x)
  BY <1>1, <1>4, LeavesOrFails
<1>6. /\ documents' \in [Documents -> DocumentStates] /\ directory' \in DirectoryStates
      /\ \A d \in Documents : documents'[d].active = documents[d].active
      /\ directory'.born = directory.born /\ directory'.lock \in {UnlockedDirectory(t).lock, 0}
  BY <1>1, <1>2, Unlocking
<1>7. LocksAreHeld'
  BY <1>1, <1>2, <1>4, <1>6, ScopeGivenBack
<1>8. VersionsHaveATask'
  BY <1>1, <1>2, <1>4, UploadsStay
<1>9. VersionsChange /\ retries' \in Nat /\ faults' \in Nat
  BY <1>1, VersionsUnchanged, Counters DEF FindSuperseded
<1> QED BY <1>1, <1>4, <1>5, <1>6, <1>7, <1>8, <1>9, SettlingStep

LEMMA FinishCleanupKeeps == ASSUME Inv, NEW w \in Workers, FinishCleanup(w) PROVE Inv'
<1>0. PICK t : t = workers[w].task
  OBVIOUS
<1> DEFINE e == [tasks[t] EXCEPT !.status = "succeeded", !.candidate = NoCandidate, !.cleanup = FALSE]
<1>1. /\ tasks' = [[tasks EXCEPT ![t].status = "succeeded", ![t].candidate = NoCandidate]
                      EXCEPT ![t].cleanup = FALSE]
      /\ documents' = Unlocked(t) /\ versions' = versions
      /\ directory' = IF directory.born = tasks[t].directory THEN [born |-> 0, lock |-> 0] ELSE directory
      /\ UNCHANGED <<index, config, outdated, overtaken>> /\ tasks[t].status = "running"
      /\ ~At(w, "idle") /\ Leave(w) /\ At(w, "cleanup")
  BY <1>0 DEF FinishCleanup, Settled, Fenced, Task, At
<1>2. t \in DOMAIN tasks /\ tasks[t] \in Tasks /\ tasks \in Seq(Tasks)
  BY <1>0, <1>1, TaskTyped, StoreTyped
<1>3. tasks[t].kind = "directory"
  BY <1>0, <1>1 DEF Inv, WorkersKeepTheirWord, Working, Kind, Task
<1>4. /\ e \in Tasks /\ tasks' = [tasks EXCEPT ![t] = e]
      /\ Continues(tasks[t], e) /\ Undisturbed(tasks[t], e)
  <2>1. e \in Tasks
    BY <1>2, NoCandidateIsOne DEF Tasks
  <2>2. tasks' = [tasks EXCEPT ![t] = e]
    BY <1>1, <1>2
  <2>3. Continues(tasks[t], e) /\ Undisturbed(tasks[t], e)
    BY <1>1, <1>2 DEF Continues, Undisturbed, Tasks
  <2> QED BY <2>1, <2>2, <2>3
<1> HIDE DEF e
<1>5. /\ tasks' \in Seq(Tasks) /\ DOMAIN tasks' = DOMAIN tasks
      /\ tasks'[t] = e /\ \A u \in DOMAIN tasks : u # t => tasks'[u] = tasks[u]
      /\ \A u \in DOMAIN tasks : Continues(tasks[u], tasks'[u])
      /\ \A x \in Workers : workers'[x] = workers[x] => GoesOn(x)
  BY <1>2, <1>4, OneTaskGoesOn
<1>6. workers' \in [Workers -> WorkerStates] /\ \A x \in Workers : GoesOn(x)
  BY <1>1, <1>5, LeavesOrFails
<1>7. /\ documents' \in [Documents -> DocumentStates]
      /\ \A d \in Documents : documents'[d].active = documents[d].active
  BY <1>1, <1>2, Unlocking
<1>8. /\ directory' \in DirectoryStates /\ directory'.lock \in {UnlockedDirectory(t).lock, 0}
      /\ directory'.lock # 0 => directory'.born = directory.born
  <2>1. CASE directory.born = tasks[t].directory
    BY <1>1, <2>1 DEF DirectoryStates
  <2>2. CASE directory.born # tasks[t].directory
    <3>1. directory.lock # t
      BY <1>2, <2>2, StoreTyped DEF Inv, LocksAreHeld
    <3> QED BY <1>1, <2>2, <3>1, StoreTyped DEF UnlockedDirectory
  <2> QED BY <2>1, <2>2
<1>9. LocksAreHeld'
  BY <1>1, <1>2, <1>5, <1>8, ScopeGivenBack
<1>10. VersionsHaveATask'
  BY <1>1, <1>2, <1>3, <1>5, UploadsStay
<1>11. VersionsChange /\ retries' \in Nat /\ faults' \in Nat
  BY <1>1, VersionsUnchanged, Counters DEF FinishCleanup
<1> QED BY <1>1, <1>5, <1>6, <1>7, <1>8, <1>9, <1>10, <1>11, SettlingStep

\* A synchronisation is settled together with its upload.
LEMMA UploadSettled ==
    ASSUME Inv, NEW t \in DOMAIN tasks, NEW S,
           DOMAIN tasks' = DOMAIN tasks, \A u \in DOMAIN tasks : u # t => tasks'[u] = tasks[u],
           Continues(tasks[t], tasks'[t]), VersionsChange,
           \A v \in DOMAIN versions : versions'[v].status = IF v \in S THEN "failed" ELSE versions[v].status,
           \/ tasks[t].kind = "sync" => tasks[t].version \in S /\ tasks[t].version \in DOMAIN versions
           \/ tasks'[t].status \in Open
    PROVE  VersionsHaveATask'
<1>1. \A v \in DOMAIN versions' : versions'[v].status \in {"pending", "syncing"} =>
         v \in DOMAIN versions /\ versions[v].status \in {"pending", "syncing"}
  BY DEF VersionsChange
<1>2. \A u \in DOMAIN tasks : tasks[u].kind = "sync" =>
         /\ u \in DOMAIN tasks'
         /\ tasks'[u].kind = tasks[u].kind /\ tasks'[u].version = tasks[u].version
         /\ \/ tasks[u].status \in Open => tasks'[u].status \in Open
            \/ versions'[tasks[u].version].status \notin {"pending", "syncing"}
  BY DEF Continues
<1>3. VersionsHaveATask
  BY DEF Inv
<1> QED BY <1>1, <1>2, <1>3, VersionsStay

LEMMA FindNewerKeeps == ASSUME Inv, NEW w \in Workers, FindNewer(w) PROVE Inv'
<1>0. PICK t : t = workers[w].task
  OBVIOUS
<1> DEFINE e == [tasks[t] EXCEPT !.status = "cancelled", !.candidate = NoCandidate]
           v == tasks[t].version
<1>1. /\ tasks' = [tasks EXCEPT ![t].status = "cancelled", ![t].candidate = NoCandidate]
      /\ UNCHANGED <<documents, directory, index, config, outdated, overtaken>> /\ tasks[t].status = "running"
      /\ ~At(w, "idle") /\ Leave(w) /\ tasks[t].kind = "sync" /\ Alive(v)
      /\ versions' = [versions EXCEPT ![v].status = "failed"]
  BY <1>0 DEF FindNewer, Settled, Fenced, Task, At, Gone, Kind
<1>2. t \in DOMAIN tasks
  BY <1>0, <1>1, TaskTyped
<1>3. /\ e \in Tasks /\ tasks' = [tasks EXCEPT ![t] = e]
      /\ Continues(tasks[t], e) /\ Undisturbed(tasks[t], e)
  BY <1>1, <1>2, SettledTask
<1> HIDE DEF e
<1>4. /\ tasks' \in Seq(Tasks) /\ DOMAIN tasks' = DOMAIN tasks
      /\ tasks'[t] = e /\ \A u \in DOMAIN tasks : u # t => tasks'[u] = tasks[u]
      /\ \A u \in DOMAIN tasks : Continues(tasks[u], tasks'[u])
      /\ \A x \in Workers : workers'[x] = workers[x] => GoesOn(x)
  BY <1>2, <1>3, OneTaskGoesOn
<1>5. workers' \in [Workers -> WorkerStates] /\ \A x \in Workers : GoesOn(x)
  BY <1>1, <1>4, LeavesOrFails
<1>6. v \in DOMAIN versions /\ \A d \in Documents : documents[d].active # v
  BY <1>1, <1>2, NotYetActive
<1>7. versions' = [u \in DOMAIN versions |->
                      IF u \in {v} THEN [versions[u] EXCEPT !.status = "failed"] ELSE versions[u]]
  BY <1>1, <1>6, StoreTyped
<1> HIDE DEF v
<1>8. /\ VersionsChange
      /\ \A u \in DOMAIN versions : versions'[u].status = IF u \in {v} THEN "failed" ELSE versions[u].status
  <2> DEFINE S == {v}
  <2>1. \A u \in DOMAIN versions : u \in S => Alive(u) /\ \A d \in Documents : documents[d].active # u
    BY <1>1, <1>6
  <2>2. versions' = [u \in DOMAIN versions |->
                        IF u \in S THEN [versions[u] EXCEPT !.status = "failed"] ELSE versions[u]]
    BY <1>7
  <2> HIDE DEF S
  <2>3. /\ VersionsChange
        /\ \A u \in DOMAIN versions : versions'[u].status = IF u \in S THEN "failed" ELSE versions[u].status
    BY <2>1, <2>2, Marking
  <2> QED BY <2>3 DEF S
<1>9. VersionsHaveATask'
  BY <1>1, <1>2, <1>4, <1>6, <1>8, UploadSettled DEF v
<1>10. LocksAreHeld'
  <2>1. \A u \in DOMAIN tasks : tasks[u].kind = "directory" => tasks'[u] = tasks[u]
    BY <1>1, <1>4
  <2> QED BY <2>1, <1>1, <1>4 DEF Inv, LocksAreHeld
<1>11. /\ documents' \in [Documents -> DocumentStates] /\ directory' \in DirectoryStates
       /\ retries' \in Nat /\ faults' \in Nat
       /\ \A d \in Documents : documents'[d].active = documents[d].active
  BY <1>1, StoreTyped, Counters DEF FindNewer
<1> QED BY <1>1, <1>4, <1>5, <1>8, <1>9, <1>10, <1>11, SettlingStep

LEMMA FailKeeps == ASSUME Inv, NEW w \in Workers, Fail(w) PROVE Inv'
<1>0. PICK t : t = workers[w].task
  OBVIOUS
<1> DEFINE e == [tasks[t] EXCEPT !.status = "failed", !.candidate = NoCandidate]
           S == {v \in DOMAIN versions : tasks[t].kind = "sync" /\ tasks[t].version = v /\ Alive(v)}
<1>1. /\ tasks' = [tasks EXCEPT ![t].status = "failed", ![t].candidate = NoCandidate]
      /\ documents' = Unlocked(t) \/ documents' = documents
      /\ directory' = UnlockedDirectory(t) \/ directory' = directory
      /\ UNCHANGED <<index, config, outdated, overtaken>> /\ tasks[t].status = "running"
      /\ ~At(w, "idle") /\ Goto(w, "failed")
      /\ versions' = [v \in DOMAIN versions |->
                         IF v \in S THEN [versions[v] EXCEPT !.status = "failed"] ELSE versions[v]]
  BY <1>0 DEF Fail, Fenced, Task, At
<1>2. t \in DOMAIN tasks
  BY <1>0, <1>1, TaskTyped
<1>3. /\ e \in Tasks /\ tasks' = [tasks EXCEPT ![t] = e] /\ e.status = "failed"
      /\ Continues(tasks[t], e) /\ Undisturbed(tasks[t], e)
  BY <1>1, <1>2, SettledTask
<1> HIDE DEF e
<1>4. /\ tasks' \in Seq(Tasks) /\ DOMAIN tasks' = DOMAIN tasks
      /\ tasks'[t] = e /\ \A u \in DOMAIN tasks : u # t => tasks'[u] = tasks[u]
      /\ \A u \in DOMAIN tasks : Continues(tasks[u], tasks'[u])
      /\ \A x \in Workers : workers'[x] = workers[x] => GoesOn(x)
  BY <1>2, <1>3, OneTaskGoesOn
<1>5. workers' \in [Workers -> WorkerStates] /\ \A x \in Workers : GoesOn(x)
  BY <1>1, <1>4, LeavesOrFails
<1>6. \A v \in DOMAIN versions : v \in S => Alive(v) /\ \A d \in Documents : documents[d].active # v
  BY <1>1, <1>2, NotYetActive
<1> HIDE DEF S
<1>7. /\ VersionsChange
      /\ \A u \in DOMAIN versions : versions'[u].status = IF u \in S THEN "failed" ELSE versions[u].status
  BY <1>1, <1>6, Marking
<1>8. tasks'[t].status \in Open
  BY <1>3, <1>4 DEF Open
<1>9. VersionsHaveATask'
  BY <1>2, <1>4, <1>7, <1>8, UploadSettled
<1>10. /\ documents' \in [Documents -> DocumentStates] /\ directory' \in DirectoryStates
       /\ \A d \in Documents : /\ documents'[d].active = documents[d].active
                               /\ documents'[d].lock \in {documents[d].lock, 0}
       /\ directory'.born = directory.born /\ directory'.lock \in {directory.lock, 0}
  BY <1>1, <1>2, Unlocking, StoreTyped
<1>11. LocksAreHeld'
  <2>1. LocksAreHeld
    BY DEF Inv
  <2>2. \A u \in DOMAIN tasks :
           /\ u \in DOMAIN tasks'
           /\ tasks'[u].kind = tasks[u].kind /\ tasks'[u].directory = tasks[u].directory
           /\ tasks[u].status \in Open => tasks'[u].status \in Open
    BY <1>4, <1>8 DEF Continues
  <2> QED BY <1>10, <2>1, <2>2, LocksStay
<1>12. retries' \in Nat /\ faults' \in Nat
  BY Counters DEF Fail
<1> QED BY <1>1, <1>4, <1>5, <1>7, <1>9, <1>10, <1>11, <1>12, SettlingStep

-----------------------------------------------------------------------------
\* The steps that take a scope, and those that add a task.

LEMMA LocksTaken ==
    ASSUME LocksAreHeld, NEW t \in DOMAIN tasks', tasks'[t].status \in Open,
           \A d \in Documents : \/ documents'[d].lock = documents[d].lock
                                \/ documents'[d].lock = t /\ tasks'[t].kind = "directory",
           directory'.born = directory.born,
           \/ directory'.lock = directory.lock
           \/ directory'.lock = t /\ tasks'[t].kind = "directory" /\ directory.born = tasks'[t].directory,
           \A u \in DOMAIN tasks :
              /\ u \in DOMAIN tasks'
              /\ tasks'[u].kind = tasks[u].kind /\ tasks'[u].directory = tasks[u].directory
              /\ tasks[u].status \in Open => tasks'[u].status \in Open
    PROVE  LocksAreHeld'
<1>1. ASSUME NEW d \in Documents, documents'[d].lock # 0
      PROVE  /\ documents'[d].lock \in DOMAIN tasks' /\ tasks'[documents'[d].lock].kind = "directory"
             /\ tasks'[documents'[d].lock].status \in Open
  <2>1. CASE documents'[d].lock = documents[d].lock
    <3>1. PICK u : u = documents[d].lock
      OBVIOUS
    <3>2. u \in DOMAIN tasks /\ tasks[u].kind = "directory" /\ tasks[u].status \in Open
      BY <1>1, <2>1, <3>1 DEF LocksAreHeld
    <3> QED BY <2>1, <3>1, <3>2
  <2>2. CASE documents'[d].lock = t /\ tasks'[t].kind = "directory"
    BY <2>2
  <2> QED BY <2>1, <2>2
<1>2. ASSUME directory'.lock # 0
      PROVE  /\ directory'.lock \in DOMAIN tasks' /\ tasks'[directory'.lock].kind = "directory"
             /\ tasks'[directory'.lock].status \in Open
             /\ directory'.born = tasks'[directory'.lock].directory
  <2>1. CASE directory'.lock = directory.lock
    <3>1. PICK u : u = directory.lock
      OBVIOUS
    <3>2. /\ u \in DOMAIN tasks /\ tasks[u].kind = "directory" /\ tasks[u].status \in Open
          /\ directory.born = tasks[u].directory
      BY <1>2, <2>1, <3>1 DEF LocksAreHeld
    <3> QED BY <2>1, <3>1, <3>2
  <2>2. CASE directory'.lock = t /\ tasks'[t].kind = "directory" /\ directory.born = tasks'[t].directory
    BY <2>2
  <2> QED BY <2>1, <2>2
<1> QED BY <1>1, <1>2 DEF LocksAreHeld

LEMMA Locking ==
    ASSUME Inv, NEW t \in Nat, NEW ds
    PROVE  /\ Locked(t, ds) \in [Documents -> DocumentStates]
           /\ \A d \in Documents :
                 /\ Locked(t, ds)[d].active = documents[d].active
                 /\ Locked(t, ds)[d].born = documents[d].born
                 /\ Locked(t, ds)[d].lock \in {documents[d].lock, t}
<1>1. documents \in [Documents -> DocumentStates]
  BY StoreTyped
<1>2. ASSUME NEW d \in Documents
      PROVE  /\ Locked(t, ds)[d] \in DocumentStates
             /\ Locked(t, ds)[d].active = documents[d].active
             /\ Locked(t, ds)[d].born = documents[d].born
             /\ Locked(t, ds)[d].lock \in {documents[d].lock, t}
  <2>1. documents[d] \in DocumentStates
    BY <1>1
  <2>2. Locked(t, ds)[d] = IF d \in ds THEN [documents[d] EXCEPT !.lock = t] ELSE documents[d]
    BY DEF Locked
  <2> QED BY <2>1, <2>2 DEF DocumentStates
<1>3. Locked(t, ds) \in [Documents -> DocumentStates]
  BY <1>2 DEF Locked
<1> QED BY <1>2, <1>3

LEMMA RetryKeeps == ASSUME Inv, NEW t \in DOMAIN tasks, Retry(t) PROVE Inv'
<1> DEFINE scope == {d \in DOMAIN tasks[t].targets : documents[d].born = tasks[t].targets[d].born}
           e == IF tasks[t].cleanup THEN [tasks[t] EXCEPT !.status = "queued", !.attempts = 0]
                ELSE [tasks[t] EXCEPT !.status = "queued", !.attempts = 0, !.candidate = NoCandidate,
                                      !.owner = None, !.lease = FALSE]
           S == {v \in DOMAIN versions : tasks[t].kind = "sync" /\ tasks[t].version = v}
<1>1. /\ tasks[t].status = "failed"
      /\ tasks[t].kind = "sync" => Alive(tasks[t].version)
      /\ UNCHANGED <<index, config, outdated, workers, overtaken, faults>> /\ retries' = retries + 1
      /\ versions' = [v \in DOMAIN versions |->
                         IF v \in S THEN [versions[v] EXCEPT !.status = "pending"] ELSE versions[v]]
  BY DEF Retry
<1>2. t \in Nat /\ t # 0 /\ tasks[t] \in Tasks /\ tasks \in Seq(Tasks)
  BY StoreTyped
<1>3. tasks' = [tasks EXCEPT ![t] = e]
  BY DEF Retry
<1>4. /\ e \in Tasks /\ e.status = "queued" /\ e.kind = tasks[t].kind /\ e.directory = tasks[t].directory
      /\ e.version = tasks[t].version
  <2>1. /\ e.status = "queued" /\ e.kind = tasks[t].kind /\ e.directory = tasks[t].directory
        /\ e.version = tasks[t].version
    BY <1>2 DEF Tasks
  <2>2. 0 \in 0 .. MaxAttempts
    BY Constants
  <2>3. [tasks[t] EXCEPT !.status = "queued", !.attempts = 0] \in Tasks
    BY <1>2, <2>2 DEF Tasks
  <2>4. [tasks[t] EXCEPT !.status = "queued", !.attempts = 0, !.candidate = NoCandidate,
                         !.owner = None, !.lease = FALSE] \in Tasks
    BY <1>2, <2>2, NoCandidateIsOne DEF Tasks
  <2> QED BY <2>1, <2>3, <2>4
<1>5. Continues(tasks[t], e)
  <2> DEFINE old == tasks[t]
  <2>1. /\ e.kind = old.kind /\ e.document = old.document /\ e.version = old.version
        /\ e.targets = old.targets /\ e.directory = old.directory /\ e.base = old.base
        /\ e.cleanup = old.cleanup
        /\ e.candidate = old.candidate \/ e.candidate = NoCandidate
    BY <1>2 DEF Tasks
  <2>2. old.status # "succeeded"
    BY <1>1
  <2> HIDE DEF old, e
  <2>3. Continues(old, e)
    BY <2>1, <2>2 DEF Continues
  <2> QED BY <2>3 DEF old
<1>6. Undisturbed(tasks[t], e)
  BY <1>4 DEF Undisturbed
<1> HIDE DEF e
<1>7. /\ tasks' \in Seq(Tasks) /\ DOMAIN tasks' = DOMAIN tasks
      /\ tasks'[t] = e /\ \A u \in DOMAIN tasks : u # t => tasks'[u] = tasks[u]
      /\ \A u \in DOMAIN tasks : Continues(tasks[u], tasks'[u])
      /\ \A x \in Workers : GoesOn(x)
  BY <1>1, <1>3, <1>4, <1>5, <1>6, OneTaskGoesOn
<1>8. \A v \in DOMAIN versions : v \in S => Alive(v) /\ \A d \in Documents : documents[d].active # v
  BY <1>1, NotYetActive DEF Retry
<1>9. S = {v \in DOMAIN versions : tasks[t].kind = "sync" /\ tasks[t].version = v}
  OBVIOUS
<1> HIDE DEF S
<1>10. /\ VersionsChange
       /\ \A v \in DOMAIN versions : versions'[v].status = IF v \in S THEN "pending" ELSE versions[v].status
  BY <1>1, <1>8, Marking
<1>11. /\ tasks'[t].status \in Open /\ tasks'[t].kind = tasks[t].kind /\ tasks'[t].version = tasks[t].version
       /\ tasks'[t].directory = tasks[t].directory
       /\ \A u \in DOMAIN tasks : tasks[u].status \in Open => tasks'[u].status \in Open
  BY <1>4, <1>7 DEF Open
<1>12. VersionsHaveATask'
  <2>1. \A v \in DOMAIN versions' : versions'[v].status \in {"pending", "syncing"} =>
           \/ v \in DOMAIN versions /\ versions[v].status \in {"pending", "syncing"}
           \/ \E u \in DOMAIN tasks' : /\ tasks'[u].kind = "sync" /\ tasks'[u].version = v
                                       /\ tasks'[u].status \in Open
    BY <1>7, <1>9, <1>10, <1>11 DEF VersionsChange
  <2>2. VersionsHaveATask
    BY DEF Inv
  <2> QED BY <1>7, <1>11, <2>1, <2>2, VersionsStay DEF Continues
<1>13. /\ documents' \in [Documents -> DocumentStates] /\ directory' \in DirectoryStates
       /\ \A d \in Documents :
             /\ documents'[d].active = documents[d].active
             /\ \/ documents'[d].lock = documents[d].lock
                \/ documents'[d].lock = t /\ tasks[t].kind = "directory"
       /\ directory'.born = directory.born
       /\ \/ directory'.lock = directory.lock
          \/ directory'.lock = t /\ tasks[t].kind = "directory" /\ directory.born = tasks[t].directory
  <2>1. CASE tasks[t].kind = "directory" /\ ~tasks[t].cleanup
    <3>1. documents' = Locked(t, scope)
      BY <2>1 DEF Retry
    <3>2. directory' = IF directory.born = tasks[t].directory THEN [directory EXCEPT !.lock = t] ELSE directory
      BY <2>1 DEF Retry
    <3>3. /\ directory' \in DirectoryStates /\ directory'.born = directory.born
          /\ \/ directory'.lock = directory.lock
             \/ directory'.lock = t /\ directory.born = tasks[t].directory
      BY <1>2, <3>2, StoreTyped DEF DirectoryStates
    <3> HIDE DEF scope
    <3>4. /\ documents' \in [Documents -> DocumentStates]
          /\ \A d \in Documents : /\ documents'[d].active = documents[d].active
                                  /\ documents'[d].lock \in {documents[d].lock, t}
      BY <1>2, <3>1, Locking
    <3> QED BY <2>1, <3>3, <3>4
  <2>2. CASE ~(tasks[t].kind = "directory" /\ ~tasks[t].cleanup)
    <3>1. documents' = documents /\ directory' = directory
      BY <2>2 DEF Retry
    <3> QED BY <3>1, StoreTyped
  <2> QED BY <2>1, <2>2
<1>14. LocksAreHeld'
  <2>1. LocksAreHeld
    BY DEF Inv
  <2> QED BY <1>7, <1>11, <1>13, <2>1, LocksTaken DEF Continues
<1>15. workers' \in [Workers -> WorkerStates] /\ retries' \in Nat /\ faults' \in Nat
  BY <1>1, Counters DEF Inv, Types, WorkerStates
<1> QED BY <1>1, <1>7, <1>10, <1>12, <1>13, <1>14, <1>15, SettlingStep

LEMMA SaveConfigKeeps == ASSUME Inv, SaveConfig PROVE Inv'
<1>1. /\ config' \in Configs /\ outdated' = [outdated EXCEPT ![config + 1] = index.number # 0]
      /\ UNCHANGED <<documents, versions, directory, index, tasks, workers, overtaken, retries, faults>>
  BY DEF SaveConfig
<1>2. Types'
  BY <1>1 DEF Inv, Types
<1>3. Quiet
  BY <1>1 DEF Inv, ActiveIsReady, Quiet
<1>4. \A t \in DOMAIN tasks : Continues(tasks[t], tasks'[t]) /\ Undisturbed(tasks[t], tasks'[t])
  BY <1>1 DEF Continues, Undisturbed
<1>5. \A w \in Workers : GoesOn(w)
  BY <1>1, <1>4, OthersGoOn
<1>6. LocksAreHeld' /\ VersionsHaveATask'
  BY <1>1 DEF Inv, LocksAreHeld, VersionsHaveATask
<1> QED BY <1>1, <1>2, <1>3, <1>4, <1>5, <1>6, OrdinaryStep

\* A task is added.
Kinds == {"sync", "delete", "directory", "rebuild"}
Subjects == Documents \cup {None}

IsNew(x, kind, d, v) ==
    /\ x \in Tasks /\ x.kind = kind /\ x.document = d /\ x.version = v
    /\ x.status = "queued" /\ x.cleanup = FALSE /\ x.base = 0 /\ x.candidate = NoCandidate

LEMMA NewTaskTyped ==
    ASSUME NEW kind \in Kinds, NEW d \in Subjects, NEW v \in Nat, NEW c \in Configs
    PROVE  IsNew(NewTask(kind, d, v, c), kind, d, v)
<1>1. <<>> \in Targets
  <2>1. <<>> \in [{} -> [born : Nat, active : Nat]]
    OBVIOUS
  <2>2. {} \in SUBSET Documents
    OBVIOUS
  <2> QED BY <2>1, <2>2 DEF Targets
<1>2. 0 \in 0 .. MaxAttempts
  BY Constants
<1> QED BY <1>1, <1>2, NoCandidateIsOne DEF IsNew, NewTask, Tasks, Kinds, Subjects

LEMMA AppendStep ==
    ASSUME Inv, Quiet, Types', NEW x \in Tasks, tasks' = Append(tasks, x), workers' = workers,
           x.cleanup = FALSE, x.candidate = NoCandidate, x.base = 0,
           x.kind \in {"sync", "delete"} =>
              /\ x.document \in Documents /\ x.version \in DOMAIN versions'
              /\ versions'[x.version].document = x.document,
           x.kind = "sync" => /\ \A d \in Documents : documents'[d].active # x.version
                              /\ \A t \in DOMAIN tasks : tasks[t].kind = "sync" => tasks[t].version # x.version,
           LocksAreHeld', VersionsHaveATask'
    PROVE  Inv'
<1>1. tasks \in Seq(Tasks)
  BY StoreTyped
<1>2. /\ Len(tasks) + 1 \in DOMAIN tasks' /\ tasks'[Len(tasks) + 1] = x
      /\ \A t \in DOMAIN tasks : t \in DOMAIN tasks' /\ tasks'[t] = tasks[t]
      /\ \A t \in DOMAIN tasks' : t \in DOMAIN tasks \/ t = Len(tasks) + 1
  BY <1>1, Extended
<1>3. \A t \in DOMAIN tasks : t \in DOMAIN tasks' /\ Continues(tasks[t], tasks'[t])
                              /\ Undisturbed(tasks[t], tasks'[t])
  BY <1>2 DEF Continues, Undisturbed
<1>4. OneTaskPerUpload'
  <2>1. OneTaskPerUpload
    BY DEF Inv
  <2> QED BY <1>2, <2>1 DEF OneTaskPerUpload
<1>5. TasksAreWellFormed'
  <2> SUFFICES ASSUME NEW t \in DOMAIN tasks' PROVE WellFormed(tasks[t])'
    BY DEF TasksAreWellFormed
  <2>1. CASE t \in DOMAIN tasks
    <3>1. WellFormed(tasks[t])
      BY <2>1 DEF Inv, TasksAreWellFormed
    <3> QED BY <2>1, <3>1, <1>3, StaysWellFormed
  <2>2. CASE t = Len(tasks) + 1
    <3>1. tasks'[t] = x
      BY <1>2, <2>2
    <3>2. index'.number \in Nat
      BY DEF Types
    <3>3. x.candidate.members \cup {k.version : k \in x.candidate.chunks} = {}
      BY DEF NoCandidate
    <3> QED BY <3>1, <3>2, <3>3 DEF WellFormed
  <2> QED BY <1>2, <2>1, <2>2
<1>6. WorkersKeepTheirWord'
  <2> SUFFICES ASSUME NEW w \in Workers PROVE Working(w)' /\ Promising(w)'
    BY DEF WorkersKeepTheirWord
  <2>1. GoesOn(w)
    BY <1>3, OthersGoOn
  <2> QED BY <1>3, <2>1, WorkersGoOn
<1> QED BY <1>4, <1>5, <1>6, QuietStep

LEMMA DeleteAssetKeeps == ASSUME Inv, NEW d \in Documents, DeleteAsset(d) PROVE Inv'
<1> DEFINE x == NewTask("delete", d, documents[d].active, IndexConfig)
<1>1. /\ documents[d].active # 0 /\ tasks' = Append(tasks, x)
      /\ UNCHANGED store /\ workers' = workers /\ UNCHANGED <<overtaken, retries, faults>>
  BY DEF DeleteAsset
<1>2. documents[d].active \in DOMAIN versions /\ versions[documents[d].active].document = d
  BY <1>1 DEF Inv, ActiveIsReady
<1>3. IndexConfig \in Configs /\ documents[d].active \in Nat
  BY DEF IndexConfig, Inv, Types
<1>4. /\ x \in Tasks /\ x.kind = "delete" /\ x.document = d /\ x.version = documents[d].active
      /\ x.status = "queued" /\ x.cleanup = FALSE /\ x.base = 0 /\ x.candidate = NoCandidate
  <2>1. "delete" \in Kinds /\ d \in Subjects
    BY DEF Kinds, Subjects
  <2>2. IsNew(x, "delete", d, documents[d].active)
    BY <1>3, <2>1, NewTaskTyped
  <2> HIDE DEF x
  <2> QED BY <2>2 DEF IsNew
<1> HIDE DEF x
<1>5. tasks' \in Seq(Tasks) /\ \A t \in DOMAIN tasks : t \in DOMAIN tasks' /\ tasks'[t] = tasks[t]
  BY <1>1, <1>4, StoreTyped, Extended
<1>6. Types'
  BY <1>1, <1>5 DEF Inv, Types, store
<1>7. Quiet
  BY <1>1 DEF Inv, ActiveIsReady, Quiet, store
<1>8. LocksAreHeld'
  BY <1>1, <1>5, LocksStay DEF Inv, store
<1>9. VersionsHaveATask'
  BY <1>1, <1>5, VersionsStay DEF Inv, store
<1>10. versions' = versions
  BY <1>1 DEF store
<1> QED BY <1>1, <1>2, <1>4, <1>6, <1>7, <1>8, <1>9, <1>10, AppendStep

LEMMA QueueRebuildKeeps == ASSUME Inv, QueueRebuild PROVE Inv'
<1> DEFINE x == NewTask("rebuild", None, 0, config)
<1>1. /\ tasks' = Append(tasks, x)
      /\ UNCHANGED store /\ workers' = workers /\ UNCHANGED <<overtaken, retries, faults>>
  BY DEF QueueRebuild
<1>2. config \in Configs
  BY DEF Inv, Types
<1>4. /\ x \in Tasks /\ x.kind = "rebuild"
      /\ x.status = "queued" /\ x.cleanup = FALSE /\ x.base = 0 /\ x.candidate = NoCandidate
  <2>1. "rebuild" \in Kinds /\ None \in Subjects /\ 0 \in Nat
    BY DEF Kinds, Subjects
  <2>2. IsNew(x, "rebuild", None, 0)
    BY <1>2, <2>1, NewTaskTyped
  <2> HIDE DEF x
  <2> QED BY <2>2 DEF IsNew
<1> HIDE DEF x
<1>5. tasks' \in Seq(Tasks) /\ \A t \in DOMAIN tasks : t \in DOMAIN tasks' /\ tasks'[t] = tasks[t]
  BY <1>1, <1>4, StoreTyped, Extended
<1>6. Types'
  BY <1>1, <1>5 DEF Inv, Types, store
<1>7. Quiet
  BY <1>1 DEF Inv, ActiveIsReady, Quiet, store
<1>8. LocksAreHeld'
  BY <1>1, <1>5, LocksStay DEF Inv, store
<1>9. VersionsHaveATask'
  BY <1>1, <1>5, VersionsStay DEF Inv, store
<1> QED BY <1>1, <1>4, <1>6, <1>7, <1>8, <1>9, AppendStep

LEMMA DeleteDirectoryKeeps == ASSUME Inv, DeleteDirectory PROVE Inv'
<1> DEFINE n == Len(tasks) + 1
           inside == {d \in InDirectory : documents[d].born # 0}
           targets == [d \in inside |-> [born |-> documents[d].born, active |-> documents[d].active]]
           x == [NewTask("directory", None, 0, IndexConfig) EXCEPT !.directory = directory.born,
                                                                   !.targets = targets]
<1>1. /\ tasks' = Append(tasks, x) /\ documents' = Locked(n, inside)
      /\ directory' = [directory EXCEPT !.lock = n] /\ workers' = workers
      /\ UNCHANGED <<versions, index, config, outdated, workers, overtaken, retries, faults>>
  BY DEF DeleteDirectory
<1>2. IndexConfig \in Configs
  BY DEF IndexConfig, Inv, Types
<1>3. targets \in Targets
  <2>1. inside \in SUBSET Documents
    BY Constants
  <2>2. \A d \in inside : [born |-> documents[d].born, active |-> documents[d].active] \in [born : Nat, active : Nat]
    BY <2>1, StoreTyped DEF DocumentStates
  <2>3. targets \in [inside -> [born : Nat, active : Nat]]
    BY <2>2
  <2> QED BY <2>1, <2>3 DEF Targets
<1>4. /\ x \in Tasks /\ x.kind = "directory" /\ x.directory = directory.born
      /\ x.status = "queued" /\ x.cleanup = FALSE /\ x.base = 0 /\ x.candidate = NoCandidate
  <2> DEFINE y == NewTask("directory", None, 0, IndexConfig)
  <2>1. /\ y \in Tasks /\ y.kind = "directory"
        /\ y.status = "queued" /\ y.cleanup = FALSE /\ y.base = 0 /\ y.candidate = NoCandidate
    <3>1. "directory" \in Kinds /\ None \in Subjects /\ 0 \in Nat
      BY DEF Kinds, Subjects
    <3>2. IsNew(y, "directory", None, 0)
      BY <1>2, <3>1, NewTaskTyped
    <3> HIDE DEF y
    <3> QED BY <3>2 DEF IsNew
  <2>2. x = [y EXCEPT !.directory = directory.born, !.targets = targets]
    OBVIOUS
  <2>3. directory.born \in Nat
    BY StoreTyped DEF DirectoryStates
  <2> HIDE DEF x, y, targets
  <2> QED BY <2>1, <2>2, <2>3, <1>3 DEF Tasks
<1> HIDE DEF x, inside
<1>5. /\ tasks' \in Seq(Tasks) /\ n \in Nat
      /\ n \in DOMAIN tasks' /\ tasks'[n] = x
      /\ \A t \in DOMAIN tasks : t \in DOMAIN tasks' /\ tasks'[t] = tasks[t]
  BY <1>1, <1>4, StoreTyped, Extended
<1>6. /\ documents' \in [Documents -> DocumentStates]
      /\ \A d \in Documents : /\ documents'[d].active = documents[d].active
                              /\ documents'[d].lock \in {documents[d].lock, n}
  BY <1>1, <1>5, Locking
<1>7. directory' \in DirectoryStates /\ directory'.born = directory.born /\ directory'.lock = n
  BY <1>1, <1>5, StoreTyped DEF DirectoryStates
<1>8. Types'
  BY <1>1, <1>5, <1>6, <1>7 DEF Inv, Types, DocumentStates, DirectoryStates
<1>9. Quiet
  BY <1>1, <1>6 DEF Inv, ActiveIsReady, Quiet
<1>10. LocksAreHeld'
  <2>1. LocksAreHeld
    BY DEF Inv
  <2>2. tasks'[n].status \in Open /\ tasks'[n].kind = "directory" /\ tasks'[n].directory = directory.born
    BY <1>4, <1>5 DEF Open
  <2> QED BY <1>5, <1>6, <1>7, <2>1, <2>2, LocksTaken
<1>11. VersionsHaveATask'
  BY <1>1, <1>5, VersionsStay DEF Inv
<1> QED BY <1>1, <1>4, <1>8, <1>9, <1>10, <1>11, AppendStep

LEMMA IngestKeeps == ASSUME Inv, NEW d \in Documents, NEW content \in Contents, Ingest(d, content) PROVE Inv'
<1> DEFINE v == Len(versions) + 1
           c == IF outdated[config] /\ index.number # 0 THEN index.config ELSE config
           x == NewTask("sync", d, v, c)
           upload == [document |-> d, content |-> content, status |-> "pending", configs |-> {}]
<1>1. /\ tasks' = Append(tasks, x) /\ versions' = Append(versions, upload) /\ workers' = workers
      /\ documents' = [documents EXCEPT ![d].born = IF @ = 0 THEN v ELSE @]
      /\ directory' = [directory EXCEPT !.born = IF d \in InDirectory /\ @ = 0 THEN v ELSE @]
      /\ UNCHANGED <<index, config, outdated, workers, overtaken, retries, faults>>
      /\ d \in InDirectory => directory.lock = 0
  BY DEF Ingest
<1>2. /\ versions' \in Seq(Versions) /\ v \in Nat /\ v # 0
      /\ v \in DOMAIN versions' /\ versions'[v] = upload /\ v \notin DOMAIN versions
      /\ \A u \in DOMAIN versions : u \in DOMAIN versions' /\ versions'[u] = versions[u]
      /\ \A u \in DOMAIN versions' : u \in DOMAIN versions \/ u = v
  <2>1. upload \in Versions
    BY DEF Versions
  <2>2. versions \in Seq(Versions)
    BY StoreTyped
  <2> HIDE DEF upload
  <2> QED BY <1>1, <2>1, <2>2, Extended
<1>3. c \in Configs
  BY DEF Inv, Types
<1>4. /\ x \in Tasks /\ x.kind = "sync" /\ x.document = d /\ x.version = v
      /\ x.status = "queued" /\ x.cleanup = FALSE /\ x.base = 0 /\ x.candidate = NoCandidate
  <2>1. "sync" \in Kinds /\ d \in Subjects
    BY DEF Kinds, Subjects
  <2> HIDE DEF v, c
  <2>2. IsNew(x, "sync", d, v)
    BY <1>2, <1>3, <2>1, NewTaskTyped
  <2> HIDE DEF x
  <2> QED BY <2>2 DEF IsNew
<1>5. versions'[v].document = d /\ versions'[v].status = "pending"
  BY <1>2
<1> HIDE DEF x, v, upload
<1>6. /\ tasks' \in Seq(Tasks)
      /\ Len(tasks) + 1 \in DOMAIN tasks' /\ tasks'[Len(tasks) + 1] = x
      /\ \A t \in DOMAIN tasks : t \in DOMAIN tasks' /\ tasks'[t] = tasks[t]
  BY <1>1, <1>4, StoreTyped, Extended
<1>7. /\ documents' \in [Documents -> DocumentStates]
      /\ \A e \in Documents : documents'[e].active = documents[e].active /\ documents'[e].lock = documents[e].lock
  BY <1>1, <1>2, StoreTyped DEF DocumentStates
<1>8. /\ directory' \in DirectoryStates /\ directory'.lock = directory.lock
      /\ directory'.lock # 0 => directory'.born = directory.born
  BY <1>1, <1>2, StoreTyped DEF DirectoryStates
<1>9. Types'
  BY <1>1, <1>2, <1>6, <1>7, <1>8 DEF Inv, Types, DocumentStates, DirectoryStates
<1>10. \A e \in Documents : documents[e].active # 0 =>
          documents[e].active \in DOMAIN versions /\ versions[documents[e].active].status = "ready"
  BY DEF Inv, ActiveIsReady
<1>11. Quiet
  BY <1>1, <1>2, <1>7, <1>10 DEF Quiet
<1>12. LocksAreHeld'
  BY <1>6, <1>7, <1>8, LocksStay DEF Inv
<1>13. VersionsHaveATask'
  <2>1. \A u \in DOMAIN versions' : versions'[u].status \in {"pending", "syncing"} =>
           \/ u \in DOMAIN versions /\ versions[u].status \in {"pending", "syncing"}
           \/ \E t \in DOMAIN tasks' : /\ tasks'[t].kind = "sync" /\ tasks'[t].version = u
                                       /\ tasks'[t].status \in Open
    BY <1>2, <1>4, <1>6 DEF Open
  <2>2. VersionsHaveATask
    BY DEF Inv
  <2> QED BY <1>6, <2>1, <2>2, VersionsStay
<1>14. \A e \in Documents : documents'[e].active # v
  BY <1>2, <1>7, <1>10
<1>15. \A t \in DOMAIN tasks : tasks[t].kind = "sync" => tasks[t].version # v
  BY <1>2 DEF Inv, TasksAreWellFormed, WellFormed
<1> QED BY <1>1, <1>2, <1>4, <1>5, <1>9, <1>11, <1>12, <1>13, <1>14, <1>15, AppendStep

-----------------------------------------------------------------------------
\* The steps that build a candidate.

\* The same task, with another candidate.
Rebuilds(old, new) ==
    /\ new.kind = old.kind /\ new.document = old.document /\ new.version = old.version
    /\ new.targets = old.targets /\ new.directory = old.directory /\ new.status = old.status
    /\ new.owner = old.owner /\ new.cleanup = old.cleanup

\* What is in a candidate.
Covered(c) == {k.version : k \in c.chunks}

\* What a worker promises that goes on building.
Promises(phase, e) ==
    /\ phase = "embedding" => e.kind \in {"sync", "rebuild"}
    /\ phase = "embedding" /\ e.kind = "rebuild" => e.candidate.members = ActiveOf(Documents)
    /\ phase = "indexing" /\ e.base = index.number =>
          /\ e.kind = "sync" => documents[e.document].active <= e.version
          /\ ~overtaken => e.candidate.members = Goal(e) /\ Covered(e.candidate) = Goal(e)

LEMMA BuildStep ==
    ASSUME Inv, NEW w \in Workers, Fenced(w), NEW t, t = workers[w].task,
           NEW e \in Tasks, NEW n \in WorkerStates,
           tasks' = [tasks EXCEPT ![t] = e], workers' = [workers EXCEPT ![w] = n], n.task = t,
           UNCHANGED <<documents, directory, index, config, outdated, overtaken, retries, faults>>, VersionsChange,
           Rebuilds(tasks[t], e), e.base = index.number \/ e.base = tasks[t].base,
           \A v \in e.candidate.members \cup Covered(e.candidate) : v \in DOMAIN versions /\ Alive(v),
           n.phase \in {"embedding", "indexing"}, Promises(n.phase, e), VersionsHaveATask'
    PROVE  Inv'
<1>1. /\ t \in DOMAIN tasks /\ tasks \in Seq(Tasks) /\ tasks[t].status = "running"
      /\ tasks[t].owner = w
  BY TaskTyped, StoreTyped DEF Fenced, Task, Owns
<1>2. /\ tasks' \in Seq(Tasks) /\ DOMAIN tasks' = DOMAIN tasks
      /\ tasks'[t] = e /\ \A u \in DOMAIN tasks : u # t => tasks'[u] = tasks[u]
  BY <1>1, Replaced
<1>3. /\ workers' \in [Workers -> WorkerStates] /\ workers'[w] = n
      /\ \A x \in Workers : x # w => workers'[x] = workers[x]
  BY StateTyped
<1>4. Types'
  BY <1>2, <1>3 DEF Inv, Types, VersionsChange, WorkerStates
<1>5. Quiet
  BY DEF Inv, ActiveIsReady, Quiet, VersionsChange
<1>6. OneTaskPerUpload'
  <2>1. OneTaskPerUpload
    BY DEF Inv
  <2> QED BY <1>1, <1>2, <2>1 DEF OneTaskPerUpload, Rebuilds
<1>7. TasksAreWellFormed'
  <2> SUFFICES ASSUME NEW u \in DOMAIN tasks PROVE WellFormed(tasks[u])'
    BY <1>2 DEF TasksAreWellFormed
  <2>1. WellFormed(tasks[u])
    BY DEF Inv, TasksAreWellFormed
  <2>2. CASE u # t
    <3>1. Continues(tasks[u], tasks'[u])
      BY <1>2, <2>2 DEF Continues
    <3> QED BY <1>5, <2>1, <3>1, StaysWellFormed
  <2>3. CASE u = t
    <3>1. e.kind \in {"sync", "delete"} =>
             /\ e.document \in Documents /\ e.version \in DOMAIN versions'
             /\ versions'[e.version].document = e.document
      BY <2>1, <2>3, <1>5 DEF WellFormed, Rebuilds, Quiet
    <3>2. e.kind = "sync" /\ e.status # "succeeded" => \A d \in Documents : documents'[d].active # e.version
      BY <2>1, <2>3 DEF WellFormed, Rebuilds
    <3>3. e.cleanup => e.kind = "directory"
      BY <2>1, <2>3 DEF WellFormed, Rebuilds
    <3>4. e.base <= index'.number
      BY <2>1, <2>3, <1>4 DEF WellFormed, Types
    <3>5. \A v \in e.candidate.members \cup {k.version : k \in e.candidate.chunks} :
             v \in DOMAIN versions' /\ versions'[v].status # "purged"
      BY <1>5 DEF Quiet, Alive, Covered
    <3> QED BY <1>2, <2>3, <3>1, <3>2, <3>3, <3>4, <3>5 DEF WellFormed, Alive
  <2> QED BY <2>2, <2>3
<1>8. WorkersKeepTheirWord'
  <2> SUFFICES ASSUME NEW x \in Workers PROVE Working(x)' /\ Promising(x)'
    BY DEF WorkersKeepTheirWord
  <2>1. CASE x = w
    <3>1. Working(w)'
      BY <1>1, <1>2, <1>3 DEF Working, At, Kind, Task, Promises
    <3>2. ASSUME Current(w)'
          PROVE  /\ n.phase = "embedding" /\ e.kind = "rebuild" => e.candidate.members = ActiveOf(Documents)'
                 /\ n.phase = "indexing" =>
                       /\ e.kind = "sync" => documents'[e.document].active <= e.version
                       /\ ~overtaken' => /\ e.candidate.members = Goal(tasks[t])'
                                         /\ Covered(e.candidate) = Goal(tasks[t])'
      <4>1. Goal(tasks[t])' = Goal(e) /\ ActiveOf(Documents)' = ActiveOf(Documents)
        <5>1. Scope(tasks[t])' = Scope(e)
          BY <1>2 DEF Scope
        <5>2. documents' = documents
          OBVIOUS
        <5>3. /\ ActiveOf(Documents \ Scope(tasks[t]))' = ActiveOf(Documents \ Scope(e))
              /\ ActiveOf(Documents)' = ActiveOf(Documents)
          BY <5>1, <5>2 DEF ActiveOf
        <5> QED BY <1>2, <5>3 DEF Goal
      <4>2. e.base = index.number
        BY <1>2, <1>3, <3>2 DEF Current, Task
      <4> QED BY <4>1, <4>2 DEF Promises
    <3>3. Promising(w)'
      <4>1. /\ Task(w)' = e /\ Kind(w)' = e.kind /\ workers'[w].phase = n.phase /\ e = tasks'[t]
            /\ Goal(Task(w))' = Goal(tasks[t])'
        BY <1>2, <1>3 DEF Task, Kind, Goal, ActiveOf, Scope
      <4> SUFFICES ASSUME Current(w)'
                   PROVE  /\ At(w, "embedding")' /\ Kind(w)' = "rebuild" =>
                                 Task(w)'.candidate.members = ActiveOf(Documents)'
                          /\ At(w, "indexing")' =>
                                 /\ Kind(w)' = "sync" => documents'[Task(w)'.document].active <= Task(w)'.version
                                 /\ ~overtaken' => /\ Task(w)'.candidate.members = Goal(Task(w))'
                                                   /\ Covered(Task(w)'.candidate) = Goal(Task(w))'
        BY DEF Promising, Covered
      <4> QED BY <3>2, <4>1 DEF At
    <3> QED BY <2>1, <3>1, <3>3
  <2>2. CASE x # w
    <3>1. workers'[x] = workers[x]
      BY <1>3, <2>2
    <3>2. CASE workers[x].task # t \/ workers[x].phase = "idle"
      <4> DEFINE u == workers[x].task
      <4>1. CASE workers[x].phase = "idle"
        BY <3>1, <4>1 DEF Working, Promising, At, Fenced
      <4>2. CASE workers[x].phase # "idle" /\ u # t
        <5>1. Working(x) /\ Promising(x)
          BY DEF Inv, WorkersKeepTheirWord
        <5>2. u \in DOMAIN tasks /\ tasks'[u] = tasks[u]
          BY <1>2, <4>2, <5>1 DEF Working, At
        <5>3. Working(x)'
          BY <1>2, <3>1, <5>1, <5>2 DEF Working, At, Kind, Task
        <5>4. Goal(Task(x))' = Goal(Task(x)) /\ ActiveOf(Documents)' = ActiveOf(Documents)
          BY <3>1, <5>2 DEF Goal, ActiveOf, Scope, Task
        <5>5. Promising(x)'
          BY <3>1, <5>1, <5>2, <5>4 DEF Promising, At, Kind, Task, Fenced, Owns, Current
        <5> QED BY <5>3, <5>5
      <4> QED BY <3>2, <4>1, <4>2
    <3>3. CASE workers[x].task = t /\ workers[x].phase # "idle"
      <4>1. Working(x)
        BY DEF Inv, WorkersKeepTheirWord
      <4>2. Working(x)'
        BY <1>1, <1>2, <3>1, <3>3, <4>1 DEF Working, At, Kind, Task, Rebuilds
      <4>3. Promising(x)'
        BY <1>1, <1>2, <2>2, <3>1, <3>3 DEF Promising, Fenced, Owns, Task, Rebuilds
      <4> QED BY <4>2, <4>3
    <3> QED BY <3>2, <3>3
  <2> QED BY <2>1, <2>2
<1>9. LocksAreHeld'
  <2>1. LocksAreHeld
    BY DEF Inv
  <2>2. documents' = documents /\ directory' = directory
    OBVIOUS
  <2>3. \A u \in DOMAIN tasks :
           /\ u \in DOMAIN tasks'
           /\ tasks'[u].kind = tasks[u].kind /\ tasks'[u].directory = tasks[u].directory
           /\ tasks[u].status \in Open => tasks'[u].status \in Open
    BY <1>1, <1>2 DEF Rebuilds
  <2> QED BY <2>1, <2>2, <2>3, LocksStay
<1> QED BY <1>4, <1>5, <1>6, <1>7, <1>8, <1>9, QuietStep

\* What is active is there and is of its document.
LEMMA ActiveOnes ==
    ASSUME Inv, NEW ds \in SUBSET Documents
    PROVE  /\ ActiveOf(ds) \subseteq Nat
           /\ \A v \in ActiveOf(ds) : /\ v \in DOMAIN versions /\ Alive(v)
                                      /\ versions[v].status = "ready"
                                      /\ versions[v].document \in ds
                                      /\ documents[versions[v].document].active = v
<1>1. \A d \in Documents : documents[d].active \in Nat
  BY StoreTyped DEF DocumentStates
<1>2. ASSUME NEW v \in ActiveOf(ds)
      PROVE  /\ v \in Nat /\ v \in DOMAIN versions /\ Alive(v) /\ versions[v].status = "ready"
             /\ versions[v].document \in ds /\ documents[versions[v].document].active = v
  <2>1. PICK d \in ds : documents[d].active = v /\ v # 0
    BY DEF ActiveOf
  <2>2. v \in DOMAIN versions /\ versions[v].document = d /\ versions[v].status = "ready"
    BY <2>1 DEF Inv, ActiveIsReady
  <2> QED BY <1>1, <2>1, <2>2 DEF Alive
<1> QED BY <1>2

LEMMA FencedTask ==
    ASSUME Inv, NEW w \in Workers, Fenced(w)
    PROVE  /\ workers[w].task \in DOMAIN tasks /\ Task(w) \in Tasks /\ WellFormed(Task(w))
           /\ Task(w) = tasks[workers[w].task] /\ Task(w).status = "running" /\ index.number \in Nat
<1>1. ~At(w, "idle") /\ Task(w).status = "running"
  BY DEF Fenced
<1>2. workers[w].task \in DOMAIN tasks /\ Task(w) \in Tasks
  BY <1>1, TaskTyped
<1>3. WellFormed(tasks[workers[w].task])
  BY <1>2 DEF Inv, TasksAreWellFormed
<1> QED BY <1>1, <1>2, <1>3 DEF Task, Inv, Types

LEMMA BeginSyncKeeps == ASSUME Inv, NEW w \in Workers, BeginSync(w) PROVE Inv'
<1>0. PICK t : t = workers[w].task
  OBVIOUS
<1> DEFINE v == tasks[t].version
           active == documents[tasks[t].document].active
           previous == IF active = 0 THEN {} ELSE versions[active].configs
           e == [tasks[t] EXCEPT !.candidate.open = TRUE, !.base = index.number]
           n == [workers[w] EXCEPT !.phase = "embedding", !.previous = previous]
<1>1. /\ tasks' = [tasks EXCEPT ![t].candidate.open = TRUE, ![t].base = index.number]
      /\ UNCHANGED <<documents, directory, index, config, outdated, overtaken, retries, faults>>
      /\ workers' = [workers EXCEPT ![w].phase = "embedding", ![w].previous = previous]
      /\ versions' = [versions EXCEPT ![v].status = "syncing"]
      /\ tasks[t].kind = "sync" /\ Fenced(w) /\ Alive(v)
  BY <1>0 DEF BeginSync, Task, Gone, Kind
<1>2. /\ t \in DOMAIN tasks /\ tasks[t] \in Tasks /\ WellFormed(tasks[t]) /\ tasks[t].status = "running"
      /\ index.number \in Nat /\ tasks \in Seq(Tasks)
  BY <1>0, <1>1, FencedTask, StoreTyped
<1>3. /\ v \in DOMAIN versions /\ (\A d \in Documents : documents[d].active # v)
      /\ tasks[t].document \in Documents
  BY <1>1, <1>2, NotYetActive DEF WellFormed
<1>4. tasks' = [tasks EXCEPT ![t] = e]
  BY <1>1, <1>2
<1>5. /\ e \in Tasks /\ Rebuilds(tasks[t], e) /\ e.base = index.number /\ e.kind = "sync" /\ e.version = v
      /\ e.status = "running"
      /\ e.candidate.members = tasks[t].candidate.members /\ e.candidate.chunks = tasks[t].candidate.chunks
  <2>1. [tasks[t].candidate EXCEPT !.open = TRUE] \in Candidates
    BY <1>2 DEF Tasks, Candidates
  <2>2. e = [tasks[t] EXCEPT !.candidate = [tasks[t].candidate EXCEPT !.open = TRUE], !.base = index.number]
    BY <1>2 DEF Tasks
  <2>3. e \in Tasks
    BY <1>2, <2>1, <2>2 DEF Tasks
  <2>4. Rebuilds(tasks[t], e) /\ e.base = index.number /\ e.kind = "sync" /\ e.version = v /\ e.status = "running"
    BY <1>1, <1>2 DEF Tasks, Rebuilds
  <2>5. e.candidate.members = tasks[t].candidate.members /\ e.candidate.chunks = tasks[t].candidate.chunks
    BY <1>2 DEF Tasks, Candidates
  <2> QED BY <2>3, <2>4, <2>5
<1>6. previous \in SUBSET Configs
  <2>1. active # 0 => active \in DOMAIN versions
    BY <1>3 DEF Inv, ActiveIsReady
  <2> QED BY <2>1, StoreTyped DEF Versions
<1> HIDE DEF previous, e
<1>7. /\ n \in WorkerStates /\ n.phase = "embedding" /\ n.task = t
      /\ workers' = [workers EXCEPT ![w] = n]
  <2>1. workers[w] \in WorkerStates
    BY StateTyped
  <2>2. n \in WorkerStates
    BY <1>6, <2>1 DEF WorkerStates
  <2>3. n.phase = "embedding" /\ n.task = t
    BY <1>0, <2>1 DEF WorkerStates
  <2>4. workers' = [workers EXCEPT ![w] = n]
    BY <1>1, StateTyped
  <2> QED BY <2>2, <2>3, <2>4
<1>8. /\ VersionsChange
      /\ \A u \in DOMAIN versions : versions'[u].status = IF u = v THEN "syncing" ELSE versions[u].status
  <2> DEFINE S == {v}
  <2>1. \A u \in DOMAIN versions : u \in S => Alive(u) /\ \A d \in Documents : documents[d].active # u
    BY <1>1, <1>3
  <2>2. versions' = [u \in DOMAIN versions |->
                        IF u \in S THEN [versions[u] EXCEPT !.status = "syncing"] ELSE versions[u]]
    BY <1>1, <1>3, StoreTyped
  <2>3. S = {v}
    OBVIOUS
  <2> HIDE DEF S
  <2>4. /\ VersionsChange
        /\ \A u \in DOMAIN versions : versions'[u].status = IF u \in S THEN "syncing" ELSE versions[u].status
    BY <2>1, <2>2, Marking
  <2> QED BY <2>3, <2>4
<1>9. /\ DOMAIN tasks' = DOMAIN tasks /\ tasks'[t] = e
      /\ \A u \in DOMAIN tasks : u # t => tasks'[u] = tasks[u]
  BY <1>2, <1>4, <1>5, Replaced
<1>10. VersionsHaveATask'
  <2>1. \A u \in DOMAIN versions' : versions'[u].status \in {"pending", "syncing"} =>
           \/ u \in DOMAIN versions /\ versions[u].status \in {"pending", "syncing"}
           \/ \E x \in DOMAIN tasks' : /\ tasks'[x].kind = "sync" /\ tasks'[x].version = u
                                       /\ tasks'[x].status \in Open
    BY <1>2, <1>5, <1>8, <1>9 DEF VersionsChange, Open
  <2>2. VersionsHaveATask
    BY DEF Inv
  <2>3. \A u \in DOMAIN tasks :
           /\ u \in DOMAIN tasks'
           /\ tasks'[u].kind = tasks[u].kind /\ tasks'[u].version = tasks[u].version
           /\ tasks'[u].status = tasks[u].status
    BY <1>5, <1>9 DEF Rebuilds
  <2> QED BY <2>1, <2>2, <2>3, VersionsStay
<1>11. \A u \in e.candidate.members \cup Covered(e.candidate) : u \in DOMAIN versions /\ Alive(u)
  BY <1>2, <1>5 DEF WellFormed, Covered
<1>12. Promises(n.phase, e)
  BY <1>5, <1>7 DEF Promises
<1> HIDE DEF n, v, active
<1> QED BY <1>0, <1>1, <1>4, <1>5, <1>7, <1>8, <1>10, <1>11, <1>12, BuildStep

LEMMA BeginRebuildKeeps == ASSUME Inv, NEW w \in Workers, BeginRebuild(w) PROVE Inv'
<1>0. PICK t : t = workers[w].task
  OBVIOUS
<1> DEFINE begun == [NoCandidate EXCEPT !.members = ActiveOf(Documents), !.open = TRUE]
           e == [tasks[t] EXCEPT !.base = index.number, !.candidate = begun]
           n == [workers[w] EXCEPT !.phase = "embedding"]
<1>1. /\ tasks' = [tasks EXCEPT ![t].base = index.number,
                                ![t].candidate = [NoCandidate EXCEPT !.members = ActiveOf(Documents), !.open = TRUE]]
      /\ UNCHANGED store /\ UNCHANGED <<overtaken, retries, faults>>
      /\ workers' = [workers EXCEPT ![w].phase = "embedding"]
      /\ tasks[t].kind = "rebuild" /\ Fenced(w)
  BY <1>0 DEF BeginRebuild, Task, Kind, Goto
<1>2. /\ t \in DOMAIN tasks /\ tasks[t] \in Tasks /\ WellFormed(tasks[t]) /\ tasks[t].status = "running"
      /\ index.number \in Nat /\ tasks \in Seq(Tasks)
  BY <1>0, <1>1, FencedTask, StoreTyped
<1>4. tasks' = [tasks EXCEPT ![t] = e]
  BY <1>1, <1>2
<1>5. begun \in Candidates
  <2>1. ActiveOf(Documents) \in SUBSET Nat
    BY ActiveOnes
  <2> QED BY <2>1, NoCandidateIsOne DEF Candidates
<1>6. begun.members = ActiveOf(Documents) /\ Covered(begun) = {}
  <2>1. begun.members = ActiveOf(Documents) /\ begun.chunks = NoCandidate.chunks
    BY NoCandidateIsOne DEF Candidates
  <2>2. NoCandidate.chunks = {}
    BY DEF NoCandidate
  <2> QED BY <2>1, <2>2 DEF Covered
<1> HIDE DEF begun
<1>7. /\ e \in Tasks /\ Rebuilds(tasks[t], e) /\ e.base = index.number /\ e.kind = "rebuild"
      /\ e.candidate = begun
  <2>1. e \in Tasks
    BY <1>2, <1>5 DEF Tasks
  <2>2. Rebuilds(tasks[t], e) /\ e.base = index.number /\ e.kind = "rebuild" /\ e.candidate = begun
    BY <1>1, <1>2 DEF Tasks, Rebuilds
  <2> QED BY <2>1, <2>2
<1> HIDE DEF e
<1>8. /\ n \in WorkerStates /\ n.phase = "embedding" /\ n.task = t
      /\ workers' = [workers EXCEPT ![w] = n]
  <2>1. workers[w] \in WorkerStates /\ n \in WorkerStates
    BY StateTyped
  <2>3. n.phase = "embedding" /\ n.task = t
    BY <1>0, <2>1 DEF WorkerStates
  <2>4. workers' = [workers EXCEPT ![w] = n]
    BY <1>1, StateTyped
  <2> QED BY <2>1, <2>3, <2>4
<1>9. VersionsChange /\ UNCHANGED <<documents, directory, index, config, outdated, overtaken, retries, faults>>
  BY <1>1, VersionsUnchanged DEF store
<1>10. VersionsHaveATask'
  <2>1. /\ DOMAIN tasks' = DOMAIN tasks /\ tasks'[t] = e
        /\ \A u \in DOMAIN tasks : u # t => tasks'[u] = tasks[u]
    BY <1>2, <1>4, <1>7, Replaced
  <2>2. VersionsHaveATask /\ versions' = versions
    BY <1>1 DEF Inv, store
  <2>3. \A u \in DOMAIN tasks :
           /\ u \in DOMAIN tasks'
           /\ tasks'[u].kind = tasks[u].kind /\ tasks'[u].version = tasks[u].version
           /\ tasks'[u].status = tasks[u].status
    BY <1>7, <2>1 DEF Rebuilds
  <2> QED BY <2>2, <2>3, VersionsStay
<1>11. \A u \in e.candidate.members \cup Covered(e.candidate) : u \in DOMAIN versions /\ Alive(u)
  <2>1. e.candidate.members \cup Covered(e.candidate) = ActiveOf(Documents)
    BY <1>6, <1>7
  <2>2. Documents \in SUBSET Documents
    OBVIOUS
  <2> QED BY <2>1, <2>2, ActiveOnes
<1>12. Promises(n.phase, e)
  BY <1>6, <1>7, <1>8 DEF Promises
<1> HIDE DEF n
<1> QED BY <1>0, <1>1, <1>4, <1>7, <1>8, <1>9, <1>10, <1>11, <1>12, BuildStep

\* The chunks of the versions that are embedded.
LEMMA EmbeddedVersions ==
    ASSUME Inv, NEW w \in Workers, Fenced(w), NEW embedded \in Embeddings(w)
    PROVE  /\ embedded \subseteq Chunks
           /\ {k.version : k \in embedded} = CASE Kind(w) = "sync"    -> {Task(w).version}
                                                [] Kind(w) = "rebuild" -> Task(w).candidate.members
                                                [] OTHER               -> {}
<1>1. Task(w) \in Tasks /\ workers[w] \in WorkerStates
  BY FencedTask, StateTyped
<1>2. /\ Task(w).version \in Nat /\ Task(w).config \in Configs
      /\ Task(w).candidate.members \in SUBSET Nat /\ workers[w].previous \in SUBSET Configs
  BY <1>1 DEF Tasks, Candidates, WorkerStates
<1>3. CASE Kind(w) = "sync"
  <2> DEFINE reusable == {c \in workers[w].previous : Dimension[c] = Dimension[Task(w).config]}
  <2>1. embedded \in {[version : {Task(w).version}, config : cs] :
                          cs \in (SUBSET (reusable \cup {Task(w).config})) \ {{}}}
    BY <1>3 DEF Embeddings
  <2>2. PICK cs \in SUBSET (reusable \cup {Task(w).config}) :
            cs # {} /\ embedded = [version : {Task(w).version}, config : cs]
    BY <2>1
  <2>3. cs \subseteq Configs
    BY <1>2, <2>2
  <2>4. embedded \subseteq Chunks
    BY <1>2, <2>2, <2>3 DEF Chunks
  <2>5. \A k \in embedded : k.version = Task(w).version
    BY <2>2
  <2>6. PICK c \in cs : TRUE
    BY <2>2
  <2>7. [version |-> Task(w).version, config |-> c] \in embedded
    BY <2>2, <2>6
  <2>8. \E k \in embedded : k.version = Task(w).version
    BY <2>7
  <2>9. {k.version : k \in embedded} = {Task(w).version}
    BY <2>5, <2>8
  <2> QED BY <1>3, <2>4, <2>9
<1>4. CASE Kind(w) = "rebuild"
  <2>1. embedded = [version : Task(w).candidate.members, config : {Task(w).config}]
    BY <1>4 DEF Embeddings
  <2>2. embedded \subseteq Chunks
    BY <1>2, <2>1 DEF Chunks
  <2>3. \A k \in embedded : k.version \in Task(w).candidate.members
    BY <2>1
  <2>4. ASSUME NEW v \in Task(w).candidate.members PROVE \E k \in embedded : k.version = v
    <3>1. [version |-> v, config |-> Task(w).config] \in embedded
      BY <2>1
    <3> QED BY <3>1
  <2>5. {k.version : k \in embedded} = Task(w).candidate.members
    BY <2>3, <2>4
  <2> QED BY <1>4, <2>2, <2>5
<1>5. CASE Kind(w) # "sync" /\ Kind(w) # "rebuild"
  <2>1. embedded = {}
    BY <1>5 DEF Embeddings
  <2> QED BY <1>5, <2>1
<1> QED BY <1>3, <1>4, <1>5

\* What is built is what the task promises, when it can be searched.
LEMMA BuiltKeepsItsWord ==
    ASSUME Inv, NEW w \in Workers, Fillable(w), NEW embedded \in Embeddings(w),
           Valid(Task(w), Built(w, embedded))
    PROVE  /\ Built(w, embedded) \in Candidates
           /\ \A v \in Built(w, embedded).members \cup Covered(Built(w, embedded)) :
                  v \in DOMAIN versions /\ Alive(v)
           /\ Kind(w) = "sync" => documents[Task(w).document].active <= Task(w).version
           /\ ~overtaken => /\ Built(w, embedded).members = Goal(Task(w))
                            /\ Covered(Built(w, embedded)) = Goal(Task(w))
<1> DEFINE b == Built(w, embedded)
           task == Task(w)
           rest == Documents \ Scope(task)
           kept == {k \in index.chunks : k.version \notin VersionsOf(Scope(task))}
<1>1. Fenced(w) /\ ~Gone(w)
  BY DEF Fillable
<1>2. /\ task \in Tasks /\ WellFormed(task) /\ Kind(w) = task.kind
      /\ index.members \in SUBSET Nat /\ index.chunks \in SUBSET Chunks
  BY <1>1, FencedTask DEF Kind, Inv, Types
<1>3. task.kind \in {"sync", "delete", "directory", "rebuild"}
  BY <1>2 DEF Tasks
<1>4. task.kind = "sync" =>
         /\ task.document \in Documents /\ task.version \in DOMAIN versions /\ Alive(task.version)
         /\ task.version \in Nat
  BY <1>1, <1>2 DEF WellFormed, Gone, Tasks
<1>5. task.kind = "rebuild" => Current(w) /\ task.candidate.members = ActiveOf(Documents)
  <2> SUFFICES ASSUME task.kind = "rebuild"
               PROVE  Current(w) /\ task.candidate.members = ActiveOf(Documents)
    OBVIOUS
  <2>1. At(w, "embedding") /\ Current(w)
    BY <1>2 DEF Fillable
  <2>2. Promising(w)
    BY DEF Inv, WorkersKeepTheirWord
  <2> QED BY <1>1, <1>2, <2>1, <2>2 DEF Promising
<1>6. b.members = Goal(task)
  BY <1>2, <1>3, <1>5 DEF Built, Goal
<1>7. b.chunks = (IF task.kind = "rebuild" THEN {} ELSE kept) \cup embedded
  BY <1>2 DEF Built
<1>8. embedded \subseteq Chunks /\ {k.version : k \in embedded} =
         CASE task.kind = "sync" -> {task.version} [] task.kind = "rebuild" -> task.candidate.members [] OTHER -> {}
  BY <1>1, <1>2, EmbeddedVersions
<1>9. \A v \in ActiveOf(rest) \cup ActiveOf(Documents) :
          v \in Nat /\ v \in DOMAIN versions /\ Alive(v)
  <2>1. rest \in SUBSET Documents /\ Documents \in SUBSET Documents
    OBVIOUS
  <2> HIDE DEF rest
  <2> QED BY <2>1, ActiveOnes
<1>10. \A v \in Goal(task) : v \in Nat /\ v \in DOMAIN versions /\ Alive(v)
  BY <1>3, <1>4, <1>9 DEF Goal
<1>11. \A v \in Covered(b) : v \in b.members
  BY DEF Valid, Covered
<1>12. b \in Candidates
  <2>1. b.members \subseteq Nat /\ b.chunks \subseteq Chunks
    BY <1>2, <1>6, <1>7, <1>8, <1>10
  <2>2. b = [open |-> TRUE, members |-> b.members, chunks |-> b.chunks]
    BY DEF Built
  <2> HIDE DEF b
  <2>3. \A m \in SUBSET Nat, cs \in SUBSET Chunks : [open |-> TRUE, members |-> m, chunks |-> cs] \in Candidates
    BY DEF Candidates
  <2> QED BY <2>1, <2>2, <2>3
<1>13. task.kind = "sync" => documents[task.document].active <= task.version
  <2> SUFFICES ASSUME task.kind = "sync", documents[task.document].active # 0
               PROVE  documents[task.document].active <= task.version
    BY <1>4
  <2> DEFINE a == documents[task.document].active
  <2>1. a \in DOMAIN versions /\ versions[a].document = task.document /\ versions[a].status = "ready"
    BY <1>4 DEF Inv, ActiveIsReady
  <2>2. a \in Nat
    BY <2>1, StoreTyped
  <2>3. a \in VersionsOf({task.document})
    BY <2>1 DEF VersionsOf, Alive
  <2>4. ~Newer(w)
    BY <1>2 DEF Fillable
  <2>5. ~(a > task.version)
    BY <2>1, <2>3, <2>4 DEF Newer
  <2> QED BY <1>4, <2>2, <2>5
<1>14. ASSUME ~overtaken PROVE Covered(b) = Goal(task)
  <2>1. index.members = ActiveOf(Documents) /\ {k.version : k \in index.chunks} = ActiveOf(Documents)
    BY <1>14 DEF Inv, IndexServesDocuments, ActiveVersionsAreIndexed
  <2>2. ASSUME NEW v \in ActiveOf(rest), task.kind # "rebuild" PROVE \E k \in b.chunks : k.version = v
    <3>1. rest \in SUBSET Documents
      OBVIOUS
    <3>2. v \in DOMAIN versions /\ versions[v].document \in rest /\ documents[versions[v].document].active = v
          /\ v # 0
      <4> HIDE DEF rest
      <4> QED BY <2>2, <3>1, ActiveOnes DEF ActiveOf
    <3>3. v \in ActiveOf(Documents)
      BY <3>2 DEF ActiveOf
    <3>4. PICK k \in index.chunks : k.version = v
      BY <2>1, <3>3
    <3>5. v \notin VersionsOf(Scope(task))
      BY <3>2 DEF VersionsOf
    <3> QED BY <1>7, <2>2, <3>4, <3>5
  <2>3. ASSUME NEW v, task.kind = "sync", v = task.version PROVE \E k \in b.chunks : k.version = v
    <3>1. v \in {k.version : k \in embedded}
      BY <1>8, <2>3
    <3>2. PICK k \in embedded : k.version = v
      BY <3>1
    <3> QED BY <1>7, <3>2
  <2>4. ASSUME NEW v \in ActiveOf(Documents), task.kind = "rebuild" PROVE \E k \in b.chunks : k.version = v
    <3>1. v \in {k.version : k \in embedded}
      BY <1>5, <1>8, <2>4
    <3>2. PICK k \in embedded : k.version = v
      BY <3>1
    <3> QED BY <1>7, <3>2
  <2>5. ASSUME NEW v \in Goal(task) PROVE v \in Covered(b)
    <3>1. \E k \in b.chunks : k.version = v
      <4> HIDE DEF b, rest
      <4>1. CASE task.kind = "sync"
        <5>1. v \in ActiveOf(rest) \/ v = task.version
          BY <2>5, <4>1 DEF Goal, rest
        <5> QED BY <2>2, <2>3, <4>1, <5>1
      <4>2. CASE task.kind = "rebuild"
        <5>1. v \in ActiveOf(Documents)
          BY <2>5, <4>2 DEF Goal
        <5> QED BY <2>4, <4>2, <5>1
      <4>3. CASE task.kind \in {"delete", "directory"}
        <5>1. v \in ActiveOf(rest)
          BY <2>5, <4>3 DEF Goal, rest
        <5> QED BY <2>2, <4>3, <5>1
      <4> QED BY <1>3, <4>1, <4>2, <4>3
    <3> QED BY <3>1 DEF Covered
  <2>6. \A v \in Covered(b) : v \in Goal(task)
    BY <1>6, <1>11
  <2> HIDE DEF b
  <2> QED BY <2>5, <2>6
<1> QED BY <1>2, <1>6, <1>10, <1>11, <1>12, <1>13, <1>14

LEMMA FillKeeps == ASSUME Inv, NEW w \in Workers, Fill(w) PROVE Inv'
<1>0. PICK t : t = workers[w].task
  OBVIOUS
<1>1. PICK embedded \in Embeddings(w) :
          IF Valid(Task(w), Built(w, embedded))
          THEN /\ tasks' = [tasks EXCEPT ![workers[w].task].candidate = Built(w, embedded),
                                         ![workers[w].task].base = IF At(w, "claimed") THEN index.number ELSE @]
               /\ Goto(w, "indexing")
               /\ UNCHANGED <<store, overtaken, retries, faults>>
          ELSE Refuse(w)
  BY DEF Fill
<1>2. Fillable(w) /\ Fenced(w)
  BY DEF Fill, Fillable
<1>3. CASE ~Valid(Task(w), Built(w, embedded))
  <2>1. Refuse(w) /\ ~At(w, "idle")
    BY <1>1, <1>2, <1>3 DEF Fenced
  <2>2. faults' \in Nat
    BY <2>1, Counters DEF Refuse
  <2> QED BY <2>1, <2>2, GotoKeeps DEF Refuse
<1>4. CASE Valid(Task(w), Built(w, embedded))
  <2> DEFINE b == Built(w, embedded)
             base == IF At(w, "claimed") THEN index.number ELSE tasks[t].base
             e == [tasks[t] EXCEPT !.candidate = b, !.base = base]
             n == [workers[w] EXCEPT !.phase = "indexing"]
  <2>1. /\ tasks' = [tasks EXCEPT ![t].candidate = b,
                                  ![t].base = IF At(w, "claimed") THEN index.number ELSE @]
        /\ UNCHANGED store /\ UNCHANGED <<overtaken, retries, faults>>
        /\ workers' = [workers EXCEPT ![w].phase = "indexing"]
    BY <1>0, <1>1, <1>4 DEF Goto
  <2>2. /\ t \in DOMAIN tasks /\ tasks[t] \in Tasks /\ tasks[t].status = "running"
        /\ index.number \in Nat /\ tasks \in Seq(Tasks) /\ Task(w) = tasks[t]
    BY <1>0, <1>2, FencedTask, StoreTyped
  <2>3. tasks' = [tasks EXCEPT ![t] = e]
    BY <2>1, <2>2
  <2>4. /\ b \in Candidates
        /\ \A v \in b.members \cup Covered(b) : v \in DOMAIN versions /\ Alive(v)
        /\ tasks[t].kind = "sync" => documents[tasks[t].document].active <= tasks[t].version
        /\ ~overtaken => b.members = Goal(tasks[t]) /\ Covered(b) = Goal(tasks[t])
    BY <1>2, <1>4, <2>2, BuiltKeepsItsWord DEF Kind
  <2> HIDE DEF b
  <2>5. /\ e \in Tasks /\ Rebuilds(tasks[t], e) /\ e.base = base /\ e.candidate = b
    <3>1. base \in Nat
      BY <2>2 DEF Tasks
    <3> HIDE DEF base
    <3>2. e \in Tasks
      BY <2>2, <2>4, <3>1 DEF Tasks
    <3>3. Rebuilds(tasks[t], e) /\ e.base = base /\ e.candidate = b
      BY <2>2 DEF Tasks, Rebuilds
    <3> QED BY <3>2, <3>3
  <2> HIDE DEF e
  <2>6. /\ n \in WorkerStates /\ n.phase = "indexing" /\ n.task = t
        /\ workers' = [workers EXCEPT ![w] = n]
    <3>1. workers[w] \in WorkerStates /\ n \in WorkerStates
      BY StateTyped
    <3>2. n.phase = "indexing" /\ n.task = t
      BY <1>0, <3>1 DEF WorkerStates
    <3>3. workers' = [workers EXCEPT ![w] = n]
      BY <2>1, StateTyped
    <3> QED BY <3>1, <3>2, <3>3
  <2>7. VersionsChange /\ UNCHANGED <<documents, directory, index, config, outdated, overtaken, retries, faults>>
    BY <2>1, VersionsUnchanged DEF store
  <2>8. VersionsHaveATask'
    <3>1. /\ DOMAIN tasks' = DOMAIN tasks /\ tasks'[t] = e
          /\ \A u \in DOMAIN tasks : u # t => tasks'[u] = tasks[u]
      BY <2>2, <2>3, <2>5, Replaced
    <3>2. VersionsHaveATask /\ versions' = versions
      BY <2>1 DEF Inv, store
    <3>3. \A u \in DOMAIN tasks :
             /\ u \in DOMAIN tasks'
             /\ tasks'[u].kind = tasks[u].kind /\ tasks'[u].version = tasks[u].version
             /\ tasks'[u].status = tasks[u].status
      BY <2>5, <3>1 DEF Rebuilds
    <3> QED BY <3>2, <3>3, VersionsStay
  <2>9. Goal(e) = Goal(tasks[t])
    <3>1. Scope(e) = Scope(tasks[t])
      BY <2>5 DEF Scope, Rebuilds
    <3> QED BY <2>5, <3>1 DEF Goal, Rebuilds
  <2>10. Promises(n.phase, e)
    BY <2>4, <2>5, <2>6, <2>9 DEF Promises, Rebuilds
  <2>11. \A v \in e.candidate.members \cup Covered(e.candidate) : v \in DOMAIN versions /\ Alive(v)
    BY <2>4, <2>5
  <2>12. e.base = index.number \/ e.base = tasks[t].base
    BY <2>5
  <2> HIDE DEF n, base
  <2> QED BY <1>0, <1>2, <2>3, <2>5, <2>6, <2>7, <2>8, <2>10, <2>11, <2>12, BuildStep
<1> QED BY <1>3, <1>4

-----------------------------------------------------------------------------
\* The steps that replace the index.

\* What becomes of a task when another index is activated.
Carried(old, new) ==
    /\ new.kind = old.kind /\ new.document = old.document /\ new.version = old.version
    /\ new.directory = old.directory /\ new.base = old.base
    /\ new.cleanup => old.cleanup \/ old.kind = "directory"

LEMMA CommitStep ==
    ASSUME Inv, NEW w \in Workers, Fenced(w), Types', index'.number = index.number + 1,
           DOMAIN tasks' = DOMAIN tasks, \A u \in DOMAIN tasks : Carried(tasks[u], tasks'[u]),
           DOMAIN versions' = DOMAIN versions,
           \A v \in DOMAIN versions : versions'[v].document = versions[v].document,
           \A u \in DOMAIN tasks : \A v \in tasks'[u].candidate.members \cup Covered(tasks'[u].candidate) :
               v \in DOMAIN versions /\ versions'[v].status # "purged",
           \A u \in DOMAIN tasks : tasks[u].kind = "sync" /\ tasks'[u].status # "succeeded" =>
               \A d \in Documents : documents'[d].active # tasks[u].version,
           \A x \in Workers : x # w => workers'[x] = workers[x],
           \/ workers'[w].phase = "idle"
           \/ workers'[w].phase = "cleanup" /\ workers'[w].task = workers[w].task /\ Kind(w) = "directory",
           ActiveIsReady', LocksAreHeld', VersionsHaveATask', IndexServesDocuments', DeletedIsGone'
    PROVE  Inv'
<1>1. workers[w].task \in DOMAIN tasks /\ index.number \in Nat
  BY FencedTask
<1>2. OneTaskPerUpload'
  <2>1. OneTaskPerUpload
    BY DEF Inv
  <2> QED BY <2>1 DEF OneTaskPerUpload, Carried
<1>3. TasksAreWellFormed'
  <2> SUFFICES ASSUME NEW u \in DOMAIN tasks PROVE WellFormed(tasks[u])'
    BY DEF TasksAreWellFormed
  <2>1. WellFormed(tasks[u]) /\ Carried(tasks[u], tasks'[u])
    BY DEF Inv, TasksAreWellFormed
  <2> DEFINE new == tasks'[u]
  <2>2. new.kind \in {"sync", "delete"} =>
           /\ new.document \in Documents /\ new.version \in DOMAIN versions'
           /\ versions'[new.version].document = new.document
    BY <2>1 DEF WellFormed, Carried
  <2>3. new.kind = "sync" /\ new.status # "succeeded" => \A d \in Documents : documents'[d].active # new.version
    BY <2>1 DEF Carried
  <2>4. new.cleanup => new.kind = "directory"
    BY <2>1 DEF WellFormed, Carried
  <2>5. new.base <= index'.number
    <3>1. tasks[u].base <= index.number /\ new.base = tasks[u].base /\ tasks[u].base \in Nat
      BY <2>1, StoreTyped DEF WellFormed, Carried, Tasks
    <3> QED BY <3>1, <1>1
  <2>6. \A v \in new.candidate.members \cup {k.version : k \in new.candidate.chunks} :
           v \in DOMAIN versions' /\ versions'[v].status # "purged"
    BY DEF Covered
  <2> QED BY <2>2, <2>3, <2>4, <2>5, <2>6 DEF WellFormed, Alive
<1>4. WorkersKeepTheirWord'
  <2> SUFFICES ASSUME NEW x \in Workers PROVE Working(x)' /\ Promising(x)'
    BY DEF WorkersKeepTheirWord
  <2>1. Working(x)'
    <3>1. Working(x)
      BY DEF Inv, WorkersKeepTheirWord
    <3>2. CASE x = w
      BY <1>1, <3>2 DEF Working, At, Kind, Task, Carried
    <3>3. CASE x # w
      BY <3>1, <3>3 DEF Working, At, Kind, Task, Carried
    <3> QED BY <3>2, <3>3
  <2>2. CASE workers'[x].phase = "idle"
    BY <2>1, <2>2 DEF Promising, Fenced, At
  <2>3. CASE workers'[x].phase # "idle"
    <3>1. PICK u : u = workers'[x].task
      OBVIOUS
    <3>2. u \in DOMAIN tasks
      BY <2>1, <2>3, <3>1 DEF Working, At
    <3>3. tasks'[u].base = tasks[u].base /\ tasks[u].base <= index.number /\ tasks[u].base \in Nat
      BY <3>2, StoreTyped DEF Carried, Inv, TasksAreWellFormed, WellFormed, Tasks
    <3>4. ~Current(x)'
      BY <1>1, <3>1, <3>3 DEF Current, Task
    <3> QED BY <2>1, <3>4 DEF Promising
  <2> QED BY <2>1, <2>2, <2>3
<1> QED BY <1>2, <1>3, <1>4 DEF Inv

\* The index a fenced and valid candidate becomes.
LEMMA ActivatedIndex ==
    ASSUME Inv, NEW w \in Workers, Committable(w)
    PROVE  /\ Activated(Task(w)) \in [number : Nat, config : Configs, members : SUBSET Nat, chunks : SUBSET Chunks]
           /\ Activated(Task(w)).number = index.number + 1
           /\ Activated(Task(w)).config = Task(w).config
           /\ Activated(Task(w)).members = Task(w).candidate.members
           /\ Activated(Task(w)).chunks = Task(w).candidate.chunks
           /\ \A k \in Task(w).candidate.chunks : Dimension[k.config] = Dimension[Task(w).config]
           /\ \A v \in Task(w).candidate.members \cup Covered(Task(w).candidate) :
                  v \in DOMAIN versions /\ Alive(v)
           /\ Current(w) => /\ Kind(w) = "sync" => documents[Task(w).document].active <= Task(w).version
                            /\ ~overtaken => /\ Task(w).candidate.members = Goal(Task(w))
                                             /\ Covered(Task(w).candidate) = Goal(Task(w))
<1>1. Fenced(w) /\ At(w, "indexing") /\ Valid(Task(w), Task(w).candidate)
  BY DEF Committable
<1>2. Task(w) \in Tasks /\ WellFormed(Task(w)) /\ index.number \in Nat
  BY <1>1, FencedTask
<1>3. /\ Task(w).config \in Configs /\ Task(w).candidate.members \in SUBSET Nat
      /\ Task(w).candidate.chunks \in SUBSET Chunks
  BY <1>2 DEF Tasks, Candidates
<1>4. Promising(w)
  BY DEF Inv, WorkersKeepTheirWord
<1>5. Activated(Task(w)) \in [number : Nat, config : Configs, members : SUBSET Nat, chunks : SUBSET Chunks]
  BY <1>2, <1>3 DEF Activated
<1>6. /\ Activated(Task(w)).number = index.number + 1
      /\ Activated(Task(w)).config = Task(w).config
      /\ Activated(Task(w)).members = Task(w).candidate.members
      /\ Activated(Task(w)).chunks = Task(w).candidate.chunks
  BY DEF Activated
<1>7. \A k \in Task(w).candidate.chunks : Dimension[k.config] = Dimension[Task(w).config]
  BY <1>1 DEF Valid
<1>8. \A v \in Task(w).candidate.members \cup Covered(Task(w).candidate) : v \in DOMAIN versions /\ Alive(v)
  BY <1>2 DEF WellFormed, Covered
<1>9. Current(w) => /\ Kind(w) = "sync" => documents[Task(w).document].active <= Task(w).version
                    /\ ~overtaken => /\ Task(w).candidate.members = Goal(Task(w))
                                     /\ Covered(Task(w).candidate) = Goal(Task(w))
  BY <1>1, <1>4 DEF Promising, Covered
<1> QED BY <1>5, <1>6, <1>7, <1>8, <1>9

\* The task of a worker which has succeeded.
LEMMA Succeeded ==
    ASSUME Inv, NEW w \in Workers, Fenced(w), NEW t, t = workers[w].task
    PROVE  /\ Settled(w, "succeeded") \in Seq(Tasks)
           /\ DOMAIN Settled(w, "succeeded") = DOMAIN tasks
           /\ \A u \in DOMAIN tasks : u # t => Settled(w, "succeeded")[u] = tasks[u]
           /\ Settled(w, "succeeded")[t].status = "succeeded"
           /\ Settled(w, "succeeded")[t].candidate = NoCandidate
           /\ Carried(tasks[t], Settled(w, "succeeded")[t])
<1> DEFINE e == [tasks[t] EXCEPT !.status = "succeeded", !.candidate = NoCandidate]
<1>1. t \in DOMAIN tasks /\ tasks[t] \in Tasks /\ tasks \in Seq(Tasks)
  BY FencedTask, StoreTyped
<1>2. Settled(w, "succeeded") = [tasks EXCEPT ![t] = e]
  BY <1>1 DEF Settled
<1>3. e \in Tasks
  BY <1>1, Rewrites
<1>4. e.status = "succeeded" /\ e.candidate = NoCandidate /\ Carried(tasks[t], e)
  BY <1>1 DEF Tasks, Carried
<1> HIDE DEF e
<1> QED BY <1>1, <1>2, <1>3, <1>4, Replaced

LEMMA LeavesTyped ==
    ASSUME Inv, NEW w \in Workers, Leave(w)
    PROVE  /\ workers' \in [Workers -> WorkerStates] /\ workers'[w].phase = "idle"
           /\ \A x \in Workers : x # w => workers'[x] = workers[x]
<1>1. /\ workers' \in [Workers -> WorkerStates] /\ workers'[w] = Idle
      /\ \A x \in Workers : x # w => workers'[x] = workers[x]
  BY StateTyped DEF Leave
<1> QED BY <1>1 DEF Idle

\* Nothing is left in the candidate of a task that is over.
LEMMA NothingCovered == NoCandidate.members \cup Covered(NoCandidate) = {}
BY DEF NoCandidate, Covered

LEMMA CommitSyncKeeps == ASSUME Inv, NEW w \in Workers, CommitSync(w) PROVE Inv'
<1>0. PICK t : t = workers[w].task
  OBVIOUS
<1>00. PICK v : v = tasks[t].version
  OBVIOUS
<1>000. PICK d : d = tasks[t].document
  OBVIOUS
<1> DEFINE cs == {k.config : k \in {k \in tasks[t].candidate.chunks : k.version = v}}
<1>1. /\ Committable(w) /\ Fenced(w) /\ tasks[t].kind = "sync" /\ Current(w) /\ Alive(v)
      /\ index' = Activated(Task(w)) /\ Task(w) = tasks[t]
      /\ versions' = [versions EXCEPT ![v].status = "ready", ![v].configs = cs]
      /\ documents' = [documents EXCEPT ![d].active = v]
      /\ tasks' = Settled(w, "succeeded") /\ Leave(w)
      /\ UNCHANGED <<directory, config, outdated, overtaken, retries, faults>>
  BY <1>0, <1>00, <1>000 DEF CommitSync, Task, Kind, Committable, Gone
<1>2. /\ t \in DOMAIN tasks /\ tasks[t] \in Tasks /\ WellFormed(tasks[t]) /\ tasks[t].status = "running"
      /\ index.number \in Nat
  BY <1>0, <1>1, FencedTask
<1>3. /\ v \in DOMAIN versions /\ (\A e \in Documents : documents[e].active # v) /\ v \in Nat /\ v # 0
      /\ d \in Documents /\ versions[v].document = d
  BY <1>00, <1>000, <1>1, <1>2, NotYetActive, StoreTyped DEF WellFormed
<1>4. /\ DOMAIN tasks' = DOMAIN tasks /\ tasks' \in Seq(Tasks)
      /\ \A u \in DOMAIN tasks : u # t => tasks'[u] = tasks[u]
      /\ tasks'[t].status = "succeeded" /\ tasks'[t].candidate = NoCandidate
      /\ Carried(tasks[t], tasks'[t])
  BY <1>0, <1>1, Succeeded
<1>5. \A u \in DOMAIN tasks : Carried(tasks[u], tasks'[u])
  BY <1>4 DEF Carried
<1>6. /\ workers' \in [Workers -> WorkerStates] /\ workers'[w].phase = "idle"
      /\ \A x \in Workers : x # w => workers'[x] = workers[x]
  BY <1>1, LeavesTyped
<1>7. /\ index' \in [number : Nat, config : Configs, members : SUBSET Nat, chunks : SUBSET Chunks]
      /\ index'.number = index.number + 1 /\ index'.config = tasks[t].config
      /\ index'.members = tasks[t].candidate.members /\ index'.chunks = tasks[t].candidate.chunks
      /\ \A k \in tasks[t].candidate.chunks : Dimension[k.config] = Dimension[tasks[t].config]
      /\ \A u \in tasks[t].candidate.members \cup Covered(tasks[t].candidate) : u \in DOMAIN versions /\ Alive(u)
      /\ ~overtaken => /\ tasks[t].candidate.members = Goal(tasks[t])
                       /\ Covered(tasks[t].candidate) = Goal(tasks[t])
  BY <1>1, ActivatedIndex
<1>8. /\ versions' \in Seq(Versions) /\ DOMAIN versions' = DOMAIN versions
      /\ versions'[v].status = "ready" /\ versions'[v].document = d
      /\ \A u \in DOMAIN versions : u # v => versions'[u] = versions[u]
  <2>1. cs \in SUBSET Configs
    <3>1. tasks[t].candidate.chunks \in SUBSET Chunks
      BY <1>2 DEF Tasks, Candidates
    <3> QED BY <3>1 DEF Chunks
  <2> HIDE DEF cs
  <2> DEFINE r == [versions[v] EXCEPT !.status = "ready", !.configs = cs]
  <2>2. versions[v] \in Versions /\ versions \in Seq(Versions)
    BY <1>3, StoreTyped
  <2>3. r \in Versions /\ r.status = "ready" /\ r.document = d
    BY <1>3, <2>1, <2>2 DEF Versions
  <2>4. versions' = [versions EXCEPT ![v] = r]
    BY <1>1, <1>3, <2>2
  <2> HIDE DEF r
  <2> QED BY <1>3, <2>2, <2>3, <2>4, Replaced
<1>9. /\ documents' \in [Documents -> DocumentStates]
      /\ documents'[d].active = v
      /\ \A e \in Documents : e # d => documents'[e] = documents[e]
      /\ \A e \in Documents : documents'[e].lock = documents[e].lock
  BY <1>1, <1>3, StoreTyped DEF DocumentStates
<1>10. Types'
  BY <1>1, <1>4, <1>6, <1>7, <1>8, <1>9 DEF Inv, Types, DocumentStates, WorkerStates
<1>11. ActiveIsReady'
  <2> SUFFICES ASSUME NEW e \in Documents, documents'[e].active # 0
               PROVE  /\ documents'[e].active \in DOMAIN versions'
                      /\ versions'[documents'[e].active].document = e
                      /\ versions'[documents'[e].active].status = "ready"
    BY DEF ActiveIsReady
  <2>1. CASE e = d
    BY <1>3, <1>8, <1>9, <2>1
  <2>2. CASE e # d
    <3>1. documents'[e].active = documents[e].active
      BY <1>9, <2>2
    <3>2. /\ documents[e].active \in DOMAIN versions /\ versions[documents[e].active].document = e
          /\ versions[documents[e].active].status = "ready"
      BY <3>1 DEF Inv, ActiveIsReady
    <3> QED BY <1>3, <1>8, <3>1, <3>2
  <2> QED BY <2>1, <2>2
<1>12. \A u \in DOMAIN tasks : \A x \in tasks'[u].candidate.members \cup Covered(tasks'[u].candidate) :
           x \in DOMAIN versions /\ versions'[x].status # "purged"
  <2> SUFFICES ASSUME NEW u \in DOMAIN tasks, NEW x \in tasks'[u].candidate.members \cup Covered(tasks'[u].candidate)
               PROVE  x \in DOMAIN versions /\ versions'[x].status # "purged"
    OBVIOUS
  <2>1. u # t
    BY <1>4, NothingCovered
  <2>2. x \in DOMAIN versions /\ Alive(x)
    BY <1>4, <2>1 DEF Inv, TasksAreWellFormed, WellFormed, Covered
  <2> QED BY <1>8, <2>2 DEF Alive
<1>13. \A u \in DOMAIN tasks : tasks[u].kind = "sync" /\ tasks'[u].status # "succeeded" =>
           \A e \in Documents : documents'[e].active # tasks[u].version
  <2> SUFFICES ASSUME NEW u \in DOMAIN tasks, tasks[u].kind = "sync", tasks'[u].status # "succeeded",
                      NEW e \in Documents
               PROVE  documents'[e].active # tasks[u].version
    OBVIOUS
  <2>1. u # t /\ tasks'[u] = tasks[u]
    BY <1>4
  <2>2. tasks[u].version # v
    BY <1>00, <1>1, <1>2, <2>1 DEF Inv, OneTaskPerUpload
  <2>3. documents[e].active # tasks[u].version
    BY <2>1, NotYetActive
  <2> QED BY <1>9, <2>2, <2>3
<1>14. LocksAreHeld'
  <2>1. \A u \in DOMAIN tasks : tasks[u].kind = "directory" => tasks'[u] = tasks[u]
    BY <1>1, <1>4
  <2> QED BY <2>1, <1>1, <1>4, <1>9 DEF Inv, LocksAreHeld
<1>15. VersionsHaveATask'
  <2>1. \A u \in DOMAIN versions' : versions'[u].status \in {"pending", "syncing"} =>
           u \in DOMAIN versions /\ versions[u].status \in {"pending", "syncing"}
    BY <1>8
  <2>2. \A u \in DOMAIN tasks : tasks[u].kind = "sync" =>
           /\ u \in DOMAIN tasks'
           /\ tasks'[u].kind = tasks[u].kind /\ tasks'[u].version = tasks[u].version
           /\ \/ tasks[u].status \in Open => tasks'[u].status \in Open
              \/ versions'[tasks[u].version].status \notin {"pending", "syncing"}
    BY <1>00, <1>4, <1>8 DEF Carried
  <2>3. VersionsHaveATask
    BY DEF Inv
  <2> QED BY <2>1, <2>2, <2>3, VersionsStay
<1>16. IndexServesDocuments'
  <2>1. IndexIsHomogeneous'
    BY <1>7 DEF IndexIsHomogeneous
  <2>2. ASSUME ~overtaken PROVE index'.members = ActiveOf(Documents)' /\ Covered(index') = index'.members
    <3>1. Scope(tasks[t]) = {d}
      BY <1>000, <1>1, <1>3, Constants DEF Scope
    <3>2. Goal(tasks[t]) = ActiveOf(Documents \ {d}) \cup {v}
      BY <1>00, <1>1, <3>1 DEF Goal
    <3>3. \A x : x \in ActiveOf(Documents)' <=> x = v \/ x \in ActiveOf(Documents \ {d})
      <4>1. \A x : x \in ActiveOf(Documents)' <=> x # 0 /\ \E e \in Documents : documents'[e].active = x
        BY DEF ActiveOf
      <4>2. \A x : x \in ActiveOf(Documents \ {d}) <=>
                       x # 0 /\ \E e \in Documents : e # d /\ documents[e].active = x
        BY DEF ActiveOf
      <4>3. \A e \in Documents : e # d => documents'[e].active = documents[e].active
        BY <1>9
      <4>4. ASSUME NEW x, x \in ActiveOf(Documents)' PROVE x = v \/ x \in ActiveOf(Documents \ {d})
        <5>1. PICK e \in Documents : x # 0 /\ documents'[e].active = x
          BY <4>1, <4>4
        <5> QED BY <4>2, <4>3, <5>1, <1>9
      <4>5. ASSUME NEW x, x = v \/ x \in ActiveOf(Documents \ {d}) PROVE x \in ActiveOf(Documents)'
        <5>1. CASE x = v
          BY <4>1, <5>1, <1>3, <1>9
        <5>2. CASE x \in ActiveOf(Documents \ {d})
          <6>1. PICK e \in Documents : x # 0 /\ e # d /\ documents[e].active = x
            BY <4>2, <5>2
          <6> QED BY <4>1, <4>3, <6>1
        <5> QED BY <4>5, <5>1, <5>2
      <4> QED BY <4>4, <4>5
    <3>4. ActiveOf(Documents)' = Goal(tasks[t])
      BY <3>2, <3>3
    <3>5. Covered(index') = Covered(tasks[t].candidate)
      BY <1>7 DEF Covered
    <3> QED BY <1>7, <2>2, <3>4, <3>5
  <2>3. overtaken' = overtaken
    BY <1>1
  <2> QED BY <2>1, <2>2, <2>3 DEF IndexServesDocuments, ActiveVersionsAreIndexed, Covered
<1>17. DeletedIsGone'
  BY <1>7, <1>8 DEF DeletedIsGone, Alive, Covered
<1>18. \A x \in DOMAIN versions : versions'[x].document = versions[x].document
  BY <1>3, <1>8
<1> QED BY <1>1, <1>4, <1>5, <1>6, <1>7, <1>8, <1>10, <1>11, <1>12, <1>13, <1>14, <1>15, <1>16, <1>17,
           <1>18, CommitStep

LEMMA CommitRebuildKeeps == ASSUME Inv, NEW w \in Workers, CommitRebuild(w) PROVE Inv'
<1>0. PICK t : t = workers[w].task
  OBVIOUS
<1>1. /\ Committable(w) /\ Fenced(w) /\ tasks[t].kind = "rebuild" /\ Current(w)
      /\ index' = Activated(Task(w)) /\ Task(w) = tasks[t]
      /\ outdated' = [outdated EXCEPT ![tasks[t].config] = FALSE]
      /\ tasks' = Settled(w, "succeeded") /\ Leave(w)
      /\ UNCHANGED <<documents, versions, directory, config, overtaken, retries, faults>>
  BY <1>0 DEF CommitRebuild, Task, Kind, Committable
<1>2. /\ t \in DOMAIN tasks /\ tasks[t] \in Tasks /\ index.number \in Nat
  BY <1>0, <1>1, FencedTask
<1>4. /\ DOMAIN tasks' = DOMAIN tasks /\ tasks' \in Seq(Tasks)
      /\ \A u \in DOMAIN tasks : u # t => tasks'[u] = tasks[u]
      /\ tasks'[t].status = "succeeded" /\ tasks'[t].candidate = NoCandidate
      /\ Carried(tasks[t], tasks'[t])
  BY <1>0, <1>1, Succeeded
<1>5. \A u \in DOMAIN tasks : Carried(tasks[u], tasks'[u])
  BY <1>4 DEF Carried
<1>6. /\ workers' \in [Workers -> WorkerStates] /\ workers'[w].phase = "idle"
      /\ \A x \in Workers : x # w => workers'[x] = workers[x]
  BY <1>1, LeavesTyped
<1>7. /\ index' \in [number : Nat, config : Configs, members : SUBSET Nat, chunks : SUBSET Chunks]
      /\ index'.number = index.number + 1 /\ index'.config = tasks[t].config
      /\ index'.members = tasks[t].candidate.members /\ index'.chunks = tasks[t].candidate.chunks
      /\ \A k \in tasks[t].candidate.chunks : Dimension[k.config] = Dimension[tasks[t].config]
      /\ \A u \in tasks[t].candidate.members \cup Covered(tasks[t].candidate) : u \in DOMAIN versions /\ Alive(u)
      /\ ~overtaken => /\ tasks[t].candidate.members = Goal(tasks[t])
                       /\ Covered(tasks[t].candidate) = Goal(tasks[t])
  BY <1>1, ActivatedIndex
<1>10. Types'
  BY <1>1, <1>4, <1>6, <1>7 DEF Inv, Types, WorkerStates
<1>11. ActiveIsReady'
  BY <1>1 DEF Inv, ActiveIsReady
<1>12. \A u \in DOMAIN tasks : \A x \in tasks'[u].candidate.members \cup Covered(tasks'[u].candidate) :
           x \in DOMAIN versions /\ versions'[x].status # "purged"
  <2> SUFFICES ASSUME NEW u \in DOMAIN tasks, NEW x \in tasks'[u].candidate.members \cup Covered(tasks'[u].candidate)
               PROVE  x \in DOMAIN versions /\ versions'[x].status # "purged"
    OBVIOUS
  <2>1. u # t
    BY <1>4, NothingCovered
  <2>2. x \in DOMAIN versions /\ Alive(x)
    BY <1>4, <2>1 DEF Inv, TasksAreWellFormed, WellFormed, Covered
  <2> QED BY <1>1, <2>2 DEF Alive
<1>13. \A u \in DOMAIN tasks : tasks[u].kind = "sync" /\ tasks'[u].status # "succeeded" =>
           \A e \in Documents : documents'[e].active # tasks[u].version
  BY <1>1, <1>4, NotYetActive
<1>14. LocksAreHeld'
  <2>1. \A u \in DOMAIN tasks : tasks[u].kind = "directory" => tasks'[u] = tasks[u]
    BY <1>1, <1>4
  <2> QED BY <2>1, <1>1, <1>4 DEF Inv, LocksAreHeld
<1>15. VersionsHaveATask'
  <2>1. \A u \in DOMAIN tasks : tasks[u].kind = "sync" => u \in DOMAIN tasks' /\ tasks'[u] = tasks[u]
    BY <1>1, <1>4
  <2>2. VersionsHaveATask
    BY DEF Inv
  <2> QED BY <1>1, <2>1, <2>2, VersionsStay
<1>16. IndexServesDocuments'
  <2>1. IndexIsHomogeneous'
    BY <1>7 DEF IndexIsHomogeneous
  <2>2. ASSUME ~overtaken PROVE index'.members = ActiveOf(Documents)' /\ Covered(index') = index'.members
    <3>1. Goal(tasks[t]) = ActiveOf(Documents)
      BY <1>1 DEF Goal
    <3>2. ActiveOf(Documents)' = ActiveOf(Documents)
      BY <1>1 DEF ActiveOf
    <3>3. Covered(index') = Covered(tasks[t].candidate)
      BY <1>7 DEF Covered
    <3> QED BY <1>7, <2>2, <3>1, <3>2, <3>3
  <2>3. overtaken' = overtaken
    BY <1>1
  <2> QED BY <2>1, <2>2, <2>3 DEF IndexServesDocuments, ActiveVersionsAreIndexed, Covered
<1>17. DeletedIsGone'
  BY <1>1, <1>7 DEF DeletedIsGone, Alive, Covered
<1> QED BY <1>1, <1>4, <1>5, <1>6, <1>7, <1>10, <1>11, <1>12, <1>13, <1>14, <1>15, <1>16, <1>17, CommitStep

\* The tasks after a purge.
LEMMA PurgedTasks ==
    ASSUME NEW ts \in Seq(Tasks), NEW gone
    PROVE  /\ PurgedCandidates(ts, gone) \in Seq(Tasks)
           /\ DOMAIN PurgedCandidates(ts, gone) = DOMAIN ts
           /\ \A u \in DOMAIN ts :
                 /\ Rebuilds(ts[u], PurgedCandidates(ts, gone)[u])
                 /\ PurgedCandidates(ts, gone)[u].base = ts[u].base
                 /\ \A x \in PurgedCandidates(ts, gone)[u].candidate.members
                             \cup Covered(PurgedCandidates(ts, gone)[u].candidate) :
                        x \in ts[u].candidate.members \cup Covered(ts[u].candidate) /\ x \notin gone
<1> DEFINE ps == PurgedCandidates(ts, gone)
<1>1. DOMAIN ps = DOMAIN ts /\ \A u \in DOMAIN ts : ps[u] = [ts[u] EXCEPT !.candidate = Without(@, gone)]
  BY DEF PurgedCandidates
<1>2. ASSUME NEW u \in DOMAIN ts
      PROVE  /\ ps[u] \in Tasks /\ Rebuilds(ts[u], ps[u]) /\ ps[u].base = ts[u].base
             /\ \A x \in ps[u].candidate.members \cup Covered(ps[u].candidate) :
                    x \in ts[u].candidate.members \cup Covered(ts[u].candidate) /\ x \notin gone
  <2> DEFINE c == ts[u].candidate
  <2>1. ts[u] \in Tasks
    BY ElementOfSeq
  <2>2. c \in Candidates
    BY <2>1 DEF Tasks
  <2>3. /\ Without(c, gone).members = c.members \ gone
        /\ Without(c, gone).chunks = {k \in c.chunks : k.version \notin gone}
        /\ Without(c, gone) \in Candidates
    BY <2>2 DEF Without, Candidates
  <2>4. Covered(Without(c, gone)) = Covered(c) \ gone
    BY <2>3 DEF Covered
  <2>5. ps[u] = [ts[u] EXCEPT !.candidate = Without(c, gone)]
    BY <1>1
  <2>6. ps[u] \in Tasks
    BY <2>1, <2>3, <2>5 DEF Tasks
  <2>7. Rebuilds(ts[u], ps[u]) /\ ps[u].base = ts[u].base /\ ps[u].candidate = Without(c, gone)
    BY <2>1, <2>5 DEF Tasks, Rebuilds
  <2> HIDE DEF ps
  <2> QED BY <2>3, <2>4, <2>6, <2>7
<1>3. ps = [u \in DOMAIN ts |-> ps[u]]
  BY DEF PurgedCandidates
<1> HIDE DEF ps
<1>4. ps \in Seq(Tasks)
  BY <1>1, <1>2, <1>3, Rewritten
<1> QED BY <1>1, <1>2, <1>4 DEF ps

LEMMA PurgeStep ==
    ASSUME Inv, NEW w \in Workers, Committable(w), Kind(w) \in {"delete", "directory"},
           NEW t, t = workers[w].task,
           NEW ts \in Seq(Tasks), DOMAIN ts = DOMAIN tasks, \A u \in DOMAIN tasks : u # t => ts[u] = tasks[u],
           ts[t].candidate = NoCandidate, Carried(tasks[t], ts[t]),
           Kind(w) = "directory" => ts[t].status = tasks[t].status,
           Purge(Scope(Task(w)), Activated(Task(w)), ts),
           UNCHANGED <<directory, config, outdated, retries, faults>>, workers' \in [Workers -> WorkerStates],
           \A x \in Workers : x # w => workers'[x] = workers[x],
           \/ workers'[w].phase = "idle"
           \/ workers'[w].phase = "cleanup" /\ workers'[w].task = workers[w].task /\ Kind(w) = "directory",
           overtaken' \in BOOLEAN, ~overtaken' => ~overtaken /\ Current(w)
    PROVE  Inv'
<1> DEFINE ds == Scope(Task(w))
           gone == VersionsOf(ds)
           c == Task(w).candidate
           active == Activated(Task(w))
<1>1. /\ index' = Without(active, gone) /\ tasks' = PurgedCandidates(ts, gone)
      /\ versions' = [v \in DOMAIN versions |->
                         IF v \in gone THEN [versions[v] EXCEPT !.status = "purged", !.configs = {}] ELSE versions[v]]
      /\ documents' = [d \in Documents |-> IF d \in ds THEN NoDocument ELSE documents[d]]
  BY DEF Purge, PurgedDocuments
<1>2. /\ Fenced(w) /\ t \in DOMAIN tasks /\ Task(w) = tasks[t] /\ tasks[t] \in Tasks /\ tasks[t].status = "running"
      /\ index.number \in Nat /\ Kind(w) = tasks[t].kind
  BY FencedTask DEF Committable, Kind
<1>3. /\ active \in [number : Nat, config : Configs, members : SUBSET Nat, chunks : SUBSET Chunks]
      /\ active.number = index.number + 1 /\ active.config = Task(w).config
      /\ active.members = c.members /\ active.chunks = c.chunks
      /\ \A k \in c.chunks : Dimension[k.config] = Dimension[Task(w).config]
      /\ \A v \in c.members \cup Covered(c) : v \in DOMAIN versions /\ Alive(v)
      /\ Current(w) /\ ~overtaken => c.members = Goal(Task(w)) /\ Covered(c) = Goal(Task(w))
  BY ActivatedIndex
<1> HIDE DEF active
<1>4. /\ index' \in [number : Nat, config : Configs, members : SUBSET Nat, chunks : SUBSET Chunks]
      /\ index'.number = index.number + 1 /\ index'.config = Task(w).config
      /\ index'.members = c.members \ gone /\ index'.chunks = {k \in c.chunks : k.version \notin gone}
  <2>1. /\ Without(active, gone) \in [number : Nat, config : Configs, members : SUBSET Nat, chunks : SUBSET Chunks]
        /\ Without(active, gone).number = active.number /\ Without(active, gone).config = active.config
        /\ Without(active, gone).members = active.members \ gone
        /\ Without(active, gone).chunks = {k \in active.chunks : k.version \notin gone}
    BY <1>3 DEF Without
  <2> QED BY <1>1, <1>3, <2>1
<1>5. Covered(index') = Covered(c) \ gone
  BY <1>4 DEF Covered
<1> HIDE DEF c, gone
<1>6. /\ tasks' \in Seq(Tasks) /\ DOMAIN tasks' = DOMAIN tasks
      /\ \A u \in DOMAIN tasks :
            /\ Rebuilds(ts[u], tasks'[u]) /\ tasks'[u].base = ts[u].base
            /\ \A x \in tasks'[u].candidate.members \cup Covered(tasks'[u].candidate) :
                   x \in ts[u].candidate.members \cup Covered(ts[u].candidate) /\ x \notin gone
  <2>1. tasks' = PurgedCandidates(ts, gone)
    BY <1>1
  <2>2. /\ PurgedCandidates(ts, gone) \in Seq(Tasks)
        /\ DOMAIN PurgedCandidates(ts, gone) = DOMAIN ts
        /\ \A u \in DOMAIN ts :
              /\ Rebuilds(ts[u], PurgedCandidates(ts, gone)[u])
              /\ PurgedCandidates(ts, gone)[u].base = ts[u].base
              /\ \A x \in PurgedCandidates(ts, gone)[u].candidate.members
                          \cup Covered(PurgedCandidates(ts, gone)[u].candidate) :
                     x \in ts[u].candidate.members \cup Covered(ts[u].candidate) /\ x \notin gone
    BY PurgedTasks
  <2> QED BY <2>1, <2>2
<1>7. \A u \in DOMAIN tasks : Carried(tasks[u], tasks'[u])
  BY <1>6 DEF Carried, Rebuilds
<1>8. /\ versions' \in Seq(Versions) /\ DOMAIN versions' = DOMAIN versions
      /\ \A v \in DOMAIN versions :
            /\ versions'[v].document = versions[v].document
            /\ versions'[v].status = IF v \in gone THEN "purged" ELSE versions[v].status
  <2>1. versions \in Seq(Versions)
    BY StoreTyped
  <2>2. ASSUME NEW v \in DOMAIN versions
        PROVE  /\ versions'[v] \in Versions /\ versions'[v].document = versions[v].document
               /\ versions'[v].status = IF v \in gone THEN "purged" ELSE versions[v].status
    <3>1. versions[v] \in Versions
      BY StoreTyped
    <3>2. versions'[v] = IF v \in gone THEN [versions[v] EXCEPT !.status = "purged", !.configs = {}] ELSE versions[v]
      BY <1>1
    <3> QED BY <3>1, <3>2 DEF Versions
  <2>3. DOMAIN versions' = DOMAIN versions /\ versions' = [v \in DOMAIN versions |-> versions'[v]]
    BY <1>1
  <2>4. versions' \in Seq(Versions)
    BY <2>1, <2>2, <2>3, Rewritten
  <2> QED BY <2>2, <2>3, <2>4
<1>9. /\ documents' \in [Documents -> DocumentStates]
      /\ \A d \in Documents : \/ d \in ds /\ documents'[d].active = 0 /\ documents'[d].lock = 0
                              \/ d \notin ds /\ documents'[d] = documents[d]
  <2>1. NoDocument \in DocumentStates /\ NoDocument.active = 0 /\ NoDocument.lock = 0
    BY DEF NoDocument, DocumentStates
  <2> HIDE DEF ds
  <2> QED BY <1>1, <2>1, StoreTyped
<1> HIDE DEF ds
<1>10. Types'
  BY <1>4, <1>6, <1>8, <1>9 DEF Inv, Types, DocumentStates, WorkerStates
<1>11. \A v \in gone : v \in DOMAIN versions /\ versions[v].document \in ds
  BY DEF gone, VersionsOf
<1>12. ActiveIsReady'
  <2> SUFFICES ASSUME NEW d \in Documents, documents'[d].active # 0
               PROVE  /\ documents'[d].active \in DOMAIN versions'
                      /\ versions'[documents'[d].active].document = d
                      /\ versions'[documents'[d].active].status = "ready"
    BY DEF ActiveIsReady
  <2>1. d \notin ds /\ documents'[d] = documents[d]
    BY <1>9
  <2>2. /\ documents[d].active \in DOMAIN versions /\ versions[documents[d].active].document = d
        /\ versions[documents[d].active].status = "ready"
    BY <2>1 DEF Inv, ActiveIsReady
  <2>3. documents[d].active \notin gone
    BY <1>11, <2>1, <2>2
  <2> QED BY <1>8, <2>1, <2>2, <2>3
<1>13. \A u \in DOMAIN tasks : \A x \in tasks'[u].candidate.members \cup Covered(tasks'[u].candidate) :
           x \in DOMAIN versions /\ versions'[x].status # "purged"
  <2> SUFFICES ASSUME NEW u \in DOMAIN tasks, NEW x \in tasks'[u].candidate.members \cup Covered(tasks'[u].candidate)
               PROVE  x \in DOMAIN versions /\ versions'[x].status # "purged"
    OBVIOUS
  <2>1. x \in ts[u].candidate.members \cup Covered(ts[u].candidate) /\ x \notin gone
    BY <1>6
  <2>2. u # t /\ ts[u] = tasks[u]
    BY <2>1, NothingCovered
  <2>3. x \in DOMAIN versions /\ Alive(x)
    BY <2>1, <2>2 DEF Inv, TasksAreWellFormed, WellFormed, Covered
  <2> QED BY <1>8, <2>1, <2>3 DEF Alive
<1>14. \A u \in DOMAIN tasks : tasks[u].kind = "sync" /\ tasks'[u].status # "succeeded" =>
           \A d \in Documents : documents'[d].active # tasks[u].version
  <2> SUFFICES ASSUME NEW u \in DOMAIN tasks, tasks[u].kind = "sync", tasks'[u].status # "succeeded",
                      NEW d \in Documents
               PROVE  documents'[d].active # tasks[u].version
    OBVIOUS
  <2>1. u # t /\ tasks'[u].status = tasks[u].status
    BY <1>2, <1>6 DEF Rebuilds
  <2>2. tasks[u].version \in DOMAIN versions /\ documents[d].active # tasks[u].version
    BY <2>1, NotYetActive
  <2>3. tasks[u].version # 0
    BY <2>2, StoreTyped
  <2> QED BY <1>9, <2>2, <2>3
<1>15. LocksAreHeld'
  <2>1. LocksAreHeld
    BY DEF Inv
  <2>2. \A d \in Documents : documents'[d].lock \in {documents[d].lock, 0}
    BY <1>9
  <2>3. t # 0
    BY <1>2, StoreTyped
  <2>4. ASSUME NEW u \in DOMAIN tasks
        PROVE  /\ u \in DOMAIN tasks'
               /\ tasks'[u].kind = tasks[u].kind /\ tasks'[u].directory = tasks[u].directory
               /\ \/ tasks[u].status \in Open => tasks'[u].status \in Open
                  \/ (\A d \in Documents : documents'[d].lock # u) /\ directory'.lock # u
    <3>1. u \in DOMAIN tasks' /\ tasks'[u].kind = tasks[u].kind /\ tasks'[u].directory = tasks[u].directory
      BY <1>6, <1>7 DEF Carried
    <3>2. CASE u # t \/ tasks[t].kind = "directory"
      <4>1. tasks'[u].status = tasks[u].status
        BY <1>2, <1>6, <3>2 DEF Rebuilds
      <4> QED BY <3>1, <4>1
    <3>3. CASE u = t /\ tasks[t].kind # "directory"
      <4>1. \A d \in Documents : documents[d].lock # t
        BY <2>1, <2>3, <3>3 DEF LocksAreHeld
      <4>2. directory.lock # t
        BY <2>1, <2>3, <3>3 DEF LocksAreHeld
      <4> QED BY <2>2, <2>3, <3>1, <3>3, <4>1, <4>2
    <3> QED BY <3>2, <3>3
  <2> QED BY <2>1, <2>2, <2>4, LocksStay
<1>16. VersionsHaveATask'
  <2>1. \A v \in DOMAIN versions' : versions'[v].status \in {"pending", "syncing"} =>
           v \in DOMAIN versions /\ versions[v].status \in {"pending", "syncing"}
    BY <1>8
  <2>2. \A u \in DOMAIN tasks : tasks[u].kind = "sync" =>
           /\ u \in DOMAIN tasks'
           /\ tasks'[u].kind = tasks[u].kind /\ tasks'[u].version = tasks[u].version
           /\ tasks'[u].status = tasks[u].status
    BY <1>2, <1>6 DEF Rebuilds
  <2>3. VersionsHaveATask
    BY DEF Inv
  <2> QED BY <2>1, <2>2, <2>3, VersionsStay
<1>17. IndexServesDocuments'
  <2>1. IndexIsHomogeneous'
    BY <1>3, <1>4 DEF IndexIsHomogeneous
  <2>2. ASSUME ~overtaken' PROVE index'.members = ActiveOf(Documents)' /\ Covered(index') = index'.members
    <3> DEFINE rest == Documents \ ds
    <3>1. Goal(Task(w)) = ActiveOf(rest)
      BY <1>2 DEF Goal, ds
    <3>2. c.members = ActiveOf(rest) /\ Covered(c) = ActiveOf(rest)
      BY <1>3, <2>2, <3>1
    <3>3. \A v \in ActiveOf(rest) : v \notin gone
      <4>1. rest \in SUBSET Documents
        OBVIOUS
      <4>2. \A v \in ActiveOf(rest) : versions[v].document \in rest
        <5> HIDE DEF rest
        <5> QED BY <4>1, ActiveOnes
      <4> QED BY <1>11, <4>2
    <3>4. \A x : x \in ActiveOf(Documents)' <=> x # 0 /\ \E d \in Documents : documents'[d].active = x
      BY DEF ActiveOf
    <3>5. \A x : x \in ActiveOf(rest) <=> x # 0 /\ \E d \in Documents : d \notin ds /\ documents[d].active = x
      BY DEF ActiveOf
    <3>6. \A x : x \in ActiveOf(Documents)' <=> x \in ActiveOf(rest)
      <4> HIDE DEF rest
      <4> QED BY <1>9, <3>4, <3>5
    <3> HIDE DEF rest
    <3>7. ActiveOf(Documents)' = ActiveOf(rest)
      BY <3>6
    <3>8. index'.members = ActiveOf(rest) /\ Covered(index') = ActiveOf(rest)
      BY <1>4, <1>5, <3>2, <3>3
    <3> QED BY <3>7, <3>8
  <2> QED BY <2>1, <2>2 DEF IndexServesDocuments, ActiveVersionsAreIndexed, Covered
<1>18. DeletedIsGone'
  <2>1. \A v \in index'.members \cup Covered(index') : v \in c.members \cup Covered(c) /\ v \notin gone
    BY <1>4, <1>5
  <2>2. \A v \in index'.members \cup Covered(index') : v \in DOMAIN versions' /\ versions'[v].status # "purged"
    BY <1>3, <1>8, <2>1 DEF Alive
  <2> QED BY <2>2 DEF DeletedIsGone, Alive, Covered
<1> QED BY <1>2, <1>4, <1>6, <1>7, <1>8, <1>10, <1>12, <1>13, <1>14, <1>15, <1>16, <1>17, <1>18, CommitStep

LEMMA CommitDeleteKeeps == ASSUME Inv, NEW w \in Workers, CommitDelete(w) PROVE Inv'
<1>0. PICK t : t = workers[w].task
  OBVIOUS
<1> DEFINE ts == Settled(w, "succeeded")
<1>1. /\ Committable(w) /\ Kind(w) = "delete" /\ Current(w) /\ Fenced(w)
      /\ Purge(Scope(Task(w)), Activated(Task(w)), ts) /\ Leave(w)
      /\ UNCHANGED <<directory, config, outdated, overtaken, retries, faults>>
  BY DEF CommitDelete, Committable
<1>2. /\ ts \in Seq(Tasks) /\ DOMAIN ts = DOMAIN tasks /\ \A u \in DOMAIN tasks : u # t => ts[u] = tasks[u]
      /\ ts[t].candidate = NoCandidate /\ Carried(tasks[t], ts[t])
  BY <1>0, <1>1, Succeeded
<1>3. /\ workers' \in [Workers -> WorkerStates] /\ workers'[w].phase = "idle"
      /\ \A x \in Workers : x # w => workers'[x] = workers[x]
  BY <1>1, LeavesTyped
<1>4. overtaken' \in BOOLEAN /\ (~overtaken' => ~overtaken /\ Current(w))
  BY <1>1 DEF Inv, Types
<1> HIDE DEF ts
<1> QED BY <1>0, <1>1, <1>2, <1>3, <1>4, PurgeStep

LEMMA CommitDirectoryKeeps == ASSUME Inv, NEW w \in Workers, CommitDirectory(w) PROVE Inv'
<1>0. PICK t : t = workers[w].task
  OBVIOUS
<1> DEFINE e == [tasks[t] EXCEPT !.cleanup = TRUE, !.candidate = NoCandidate]
           ts == [tasks EXCEPT ![t].cleanup = TRUE, ![t].candidate = NoCandidate]
<1>1. /\ Committable(w) /\ Kind(w) = "directory" /\ Fenced(w)
      /\ Purge(Scope(Task(w)), Activated(Task(w)), ts) /\ workers' = [workers EXCEPT ![w].phase = "cleanup"]
      /\ overtaken' = (overtaken \/ ~Current(w))
      /\ UNCHANGED <<directory, config, outdated, retries, faults>>
  BY <1>0 DEF CommitDirectory, Committable, Goto
<1>2. /\ t \in DOMAIN tasks /\ tasks[t] \in Tasks /\ tasks \in Seq(Tasks) /\ tasks[t].kind = "directory"
  BY <1>0, <1>1, FencedTask, StoreTyped DEF Kind
<1>3. /\ e \in Tasks /\ e.candidate = NoCandidate /\ e.status = tasks[t].status /\ Carried(tasks[t], e)
      /\ ts = [tasks EXCEPT ![t] = e]
  <2>1. e \in Tasks
    BY <1>2, NoCandidateIsOne DEF Tasks
  <2>2. e.candidate = NoCandidate /\ e.status = tasks[t].status /\ Carried(tasks[t], e)
    BY <1>2 DEF Tasks, Carried
  <2>3. ts = [tasks EXCEPT ![t] = e]
    BY <1>2
  <2> QED BY <2>1, <2>2, <2>3
<1> HIDE DEF e, ts
<1>4. /\ ts \in Seq(Tasks) /\ DOMAIN ts = DOMAIN tasks /\ ts[t] = e
      /\ \A u \in DOMAIN tasks : u # t => ts[u] = tasks[u]
  BY <1>2, <1>3, Replaced
<1>5. /\ workers' \in [Workers -> WorkerStates] /\ workers'[w].phase = "cleanup"
      /\ workers'[w].task = workers[w].task
      /\ \A x \in Workers : x # w => workers'[x] = workers[x]
  <2>1. workers[w] \in WorkerStates /\ [workers[w] EXCEPT !.phase = "cleanup"] \in WorkerStates
    BY StateTyped
  <2>2. /\ workers' \in [Workers -> WorkerStates] /\ workers'[w] = [workers[w] EXCEPT !.phase = "cleanup"]
        /\ \A x \in Workers : x # w => workers'[x] = workers[x]
    BY <1>1, <2>1, StateTyped
  <2>3. workers'[w].phase = "cleanup" /\ workers'[w].task = workers[w].task
    BY <2>1, <2>2 DEF WorkerStates
  <2> QED BY <2>2, <2>3
<1>6. overtaken' \in BOOLEAN /\ (~overtaken' => ~overtaken /\ Current(w))
  BY <1>1 DEF Inv, Types
<1>7. ts[t].candidate = NoCandidate /\ Carried(tasks[t], ts[t]) /\ ts[t].status = tasks[t].status
  BY <1>3, <1>4
<1>8. Kind(w) \in {"delete", "directory"}
  BY <1>1
<1> QED BY <1>0, <1>1, <1>4, <1>5, <1>6, <1>7, <1>8, PurgeStep


-----------------------------------------------------------------------------
\* The first state.

\* The uploads that were made before are numbered one after the other.
Number(S) == CHOOSE f \in [S -> 1 .. Cardinality(S)] : \A d, e \in S : f[d] = f[e] => d = e

LEMMA Numbering ==
    ASSUME NEW S, IsFiniteSet(S)
    PROVE  /\ Cardinality(S) \in Nat
           /\ Number(S) \in [S -> 1 .. Cardinality(S)]
           /\ \A d, e \in S : Number(S)[d] = Number(S)[e] => d = e
           /\ \A v \in 1 .. Cardinality(S) : \E d \in S : Number(S)[d] = v
<1> DEFINE n == Cardinality(S)
<1>1. n \in Nat
  BY FS_CardinalityType
<1>2. IsFiniteSet(1 .. n) /\ Cardinality(1 .. n) = n
  BY <1>1, FS_Interval
<1>3. PICK g : g \in Bijection(S, 1 .. n)
  BY <1>2, FS_SameCardinalityBij DEF ExistsBijection
<1>4. g \in [S -> 1 .. n] /\ \A d, e \in S : g[d] = g[e] => d = e
  BY <1>3, Fun_BijectionProperties
<1>5. Number(S) \in [S -> 1 .. n] /\ \A d, e \in S : Number(S)[d] = Number(S)[e] => d = e
  BY <1>4 DEF Number
<1>6. Number(S) \in Injection(S, 1 .. n)
  BY <1>5 DEF Injection, IsInjective
<1>7. Number(S) \in Surjection(S, 1 .. n)
  BY <1>2, <1>6, FS_Injection
<1>8. \A v \in 1 .. n : \E d \in S : Number(S)[d] = v
  BY <1>7, Fun_SurjectionProperties
<1> QED BY <1>1, <1>5, <1>8

LEMMA InitIsSound == Init => Inv
<1> SUFFICES ASSUME Init PROVE Inv
  OBVIOUS
<1>1. PICK seeded \in {{}, Documents}, content \in Contents :
         LET n == Cardinality(seeded)
             first == {Number(seeded)[d] : d \in seeded \cap InDirectory}
         IN  /\ documents = [d \in Documents |->
                                IF d \in seeded THEN [born |-> Number(seeded)[d], active |-> Number(seeded)[d],
                                                      lock |-> 0]
                                                ELSE NoDocument]
             /\ versions = [v \in 1 .. n |-> [document |-> CHOOSE d \in seeded : Number(seeded)[d] = v,
                                              content |-> content, status |-> "ready", configs |-> {1}]]
             /\ directory = [born |-> IF first = {} THEN 0 ELSE CHOOSE v \in first : TRUE, lock |-> 0]
             /\ index = [number  |-> n, config |-> 1, members |-> 1 .. n,
                         chunks  |-> [version : 1 .. n, config : {1}]]
             /\ config = 1
             /\ outdated = [c \in Configs |-> FALSE]
             /\ tasks = <<>>
             /\ workers = [w \in Workers |-> Idle]
             /\ overtaken = FALSE
             /\ retries = 0 /\ faults = 0
  BY DEF Init, Number
<1> DEFINE n == Cardinality(seeded)
           number == Number(seeded)
           first == {number[d] : d \in seeded \cap InDirectory}
           named == [v \in 1 .. n |-> CHOOSE d \in seeded : number[d] = v]
<1>2. IsFiniteSet(seeded) /\ seeded \subseteq Documents
  BY ConstantsAssumption, FS_EmptySet
<1>3. /\ n \in Nat /\ number \in [seeded -> 1 .. n]
      /\ \A d, e \in seeded : number[d] = number[e] => d = e
      /\ \A v \in 1 .. n : \E d \in seeded : number[d] = v
  BY <1>2, Numbering
<1>4. \A v \in 1 .. n : named[v] \in seeded /\ number[named[v]] = v
  BY <1>3
<1>5. \A v \in 1 .. n : versions[v] = [document |-> named[v], content |-> content, status |-> "ready", configs |-> {1}]
  BY <1>1
<1>6. DOMAIN versions = 1 .. n /\ tasks = <<>> /\ workers = [w \in Workers |-> Idle] /\ overtaken = FALSE
  BY <1>1
<1>7. /\ index.number = n /\ index.config = 1 /\ index.members = 1 .. n
      /\ index.chunks = [version : 1 .. n, config : {1}]
      /\ index = [number |-> n, config |-> 1, members |-> 1 .. n, chunks |-> [version : 1 .. n, config : {1}]]
      /\ config = 1 /\ outdated = [c \in Configs |-> FALSE] /\ retries = 0 /\ faults = 0
  BY <1>1
<1>8. /\ documents = [d \in Documents |-> documents[d]]
      /\ \A d \in Documents :
            \/ /\ d \in seeded
               /\ documents[d] = [born |-> number[d], active |-> number[d], lock |-> 0]
            \/ d \notin seeded /\ documents[d] = [born |-> 0, active |-> 0, lock |-> 0]
  BY <1>1 DEF NoDocument
<1>9. directory.lock = 0 /\ directory \in [born : Nat, lock : Nat]
  <2>1. \A v \in first : v \in Nat
    BY <1>3
  <2>2. (IF first = {} THEN 0 ELSE CHOOSE v \in first : TRUE) \in Nat
    BY <2>1
  <2>3. directory = [born |-> IF first = {} THEN 0 ELSE CHOOSE v \in first : TRUE, lock |-> 0]
    BY <1>1
  <2> HIDE DEF first
  <2> QED BY <2>2, <2>3
<1> HIDE DEF n, number, first, named
<1>10. Types
  <2>1. documents \in [Documents -> [born : Nat, active : Nat, lock : Nat]]
    <3>1. \A d \in Documents : documents[d] \in [born : Nat, active : Nat, lock : Nat]
      BY <1>3, <1>8
    <3> QED BY <1>8, <3>1
  <2>2. versions \in Seq(Versions)
    <3>1. \A v \in 1 .. n : versions[v] \in Versions
      <4> SUFFICES ASSUME NEW v \in 1 .. n PROVE versions[v] \in Versions
        OBVIOUS
      <4>1. named[v] \in Documents /\ {1} \in SUBSET Configs
        BY <1>2, <1>4, Constants
      <4>2. versions[v] = [document |-> named[v], content |-> content, status |-> "ready", configs |-> {1}]
        BY <1>5
      <4> QED BY <4>1, <4>2 DEF Versions
    <3>2. versions \in [1 .. n -> Versions]
      <4>1. versions = [v \in 1 .. n |-> versions[v]]
        BY <1>1 DEF n
      <4> QED BY <3>1, <4>1
    <3> QED BY <1>3, <3>2, IsASeq
  <2>3. index \in [number : Nat, config : Configs, members : SUBSET Nat, chunks : SUBSET Chunks]
    BY <1>3, <1>7, Constants DEF Chunks
  <2>4. config \in Configs /\ outdated \in [Configs -> BOOLEAN]
    BY <1>7, Constants
  <2>5. tasks \in Seq(Tasks) /\ retries \in Nat /\ faults \in Nat /\ overtaken \in BOOLEAN
    <3>1. <<>> \in Seq(Tasks)
      BY EmptySeq
    <3> QED BY <1>6, <1>7, <3>1
  <2>6. workers \in [Workers -> [phase : {"idle", "claimed", "embedding", "indexing", "cleanup",
                                          "failing", "failed"},
                                 task : Nat, previous : SUBSET Configs]]
    BY <1>6 DEF Idle
  <2> QED BY <1>9, <2>1, <2>2, <2>3, <2>4, <2>5, <2>6 DEF Types
<1>11. ActiveIsReady
  <2> SUFFICES ASSUME NEW d \in Documents, documents[d].active # 0
               PROVE  /\ documents[d].active \in DOMAIN versions
                      /\ versions[documents[d].active].document = d
                      /\ versions[documents[d].active].status = "ready"
    BY DEF ActiveIsReady
  <2>1. d \in seeded /\ documents[d].active = number[d] /\ number[d] \in 1 .. n
    BY <1>3, <1>8
  <2>2. named[number[d]] = d
    BY <1>3, <1>4, <2>1
  <2> QED BY <1>5, <1>6, <2>1, <2>2
<1>12. DOMAIN tasks = {} /\ \A w \in Workers : workers[w].phase = "idle"
  BY <1>6 DEF Idle
<1>13. OneTaskPerUpload /\ TasksAreWellFormed
  BY <1>12 DEF OneTaskPerUpload, TasksAreWellFormed
<1>14. WorkersKeepTheirWord
  BY <1>12 DEF WorkersKeepTheirWord, Working, Promising, Fenced, At
<1>15. LocksAreHeld
  BY <1>8, <1>9 DEF LocksAreHeld
<1>16. VersionsHaveATask
  BY <1>5, <1>6 DEF VersionsHaveATask
<1>17. Covered(index) = 1 .. n
  <2>1. \A k \in index.chunks : k.version \in 1 .. n
    BY <1>7
  <2>2. ASSUME NEW v \in 1 .. n PROVE \E k \in index.chunks : k.version = v
    <3>1. [version |-> v, config |-> 1] \in index.chunks
      BY <1>7
    <3> QED BY <3>1
  <2> QED BY <2>1, <2>2 DEF Covered
<1>18. ActiveOf(Documents) = 1 .. n
  <2>1. \A x : x \in ActiveOf(Documents) <=> x # 0 /\ \E d \in Documents : documents[d].active = x
    BY DEF ActiveOf
  <2>2. \A x : x \in 1 .. n => x # 0 /\ \E d \in Documents : documents[d].active = x
    BY <1>2, <1>3, <1>8
  <2>3. \A d \in Documents : documents[d].active # 0 => documents[d].active \in 1 .. n
    BY <1>3, <1>8
  <2> QED BY <2>1, <2>2, <2>3
<1>19. IndexServesDocuments
  BY <1>7, <1>17, <1>18 DEF IndexServesDocuments, ActiveVersionsAreIndexed, IndexIsHomogeneous, Covered
<1>20. DeletedIsGone
  BY <1>5, <1>6, <1>7, <1>17 DEF DeletedIsGone, Alive, Covered
<1> QED BY <1>10, <1>11, <1>13, <1>14, <1>15, <1>16, <1>19, <1>20 DEF Inv

-----------------------------------------------------------------------------
\* The theorems.

LEMMA NothingKeeps == ASSUME Inv, UNCHANGED vars PROVE Inv'
<1> USE DEF vars, store
<1>1. Types' /\ ActiveIsReady' /\ OneTaskPerUpload'
  BY DEF Inv, Types, ActiveIsReady, OneTaskPerUpload
<1>2. TasksAreWellFormed'
  BY DEF Inv, TasksAreWellFormed, WellFormed, Alive
<1>3. WorkersKeepTheirWord'
  <2> SUFFICES ASSUME NEW w \in Workers PROVE Working(w)' /\ Promising(w)'
    BY DEF WorkersKeepTheirWord
  <2>1. Working(w) /\ Promising(w)
    BY DEF Inv, WorkersKeepTheirWord
  <2>2. Task(w)' = Task(w) /\ Kind(w)' = Kind(w) /\ workers' = workers /\ tasks' = tasks
    BY DEF Task, Kind
  <2>3. Working(w)'
    BY <2>1, <2>2 DEF Working, At
  <2>4. Fenced(w)' = Fenced(w) /\ Current(w)' = Current(w)
    BY DEF Fenced, Owns, At, Task, Current
  <2>5. Goal(Task(w))' = Goal(Task(w)) /\ ActiveOf(Documents)' = ActiveOf(Documents)
    BY DEF Goal, Scope, ActiveOf, Task
  <2>6. Promising(w)'
    BY <2>1, <2>2, <2>4, <2>5 DEF Promising, At
  <2> QED BY <2>3, <2>6
<1>4. LocksAreHeld' /\ VersionsHaveATask'
  BY DEF Inv, LocksAreHeld, VersionsHaveATask
<1>5. IndexServesDocuments' /\ DeletedIsGone'
  BY DEF Inv, IndexServesDocuments, ActiveVersionsAreIndexed, IndexIsHomogeneous, ActiveOf, DeletedIsGone, Alive
<1> QED BY <1>1, <1>2, <1>3, <1>4, <1>5 DEF Inv

LEMMA StepKeeps == ASSUME Inv, [Next]_vars PROVE Inv'
<1>1. ASSUME NEW d \in Documents, NEW content \in Contents, Ingest(d, content) PROVE Inv'
  BY <1>1, IngestKeeps
<1>2. ASSUME NEW d \in Documents, DeleteAsset(d) PROVE Inv'
  BY <1>2, DeleteAssetKeeps
<1>3. CASE DeleteDirectory
  BY <1>3, DeleteDirectoryKeeps
<1>4. CASE QueueRebuild
  BY <1>4, QueueRebuildKeeps
<1>5. CASE SaveConfig
  BY <1>5, SaveConfigKeeps
<1>6. ASSUME NEW t \in DOMAIN tasks, CancelTask(t) \/ Retry(t) \/ LeaseExpires(t) PROVE Inv'
  BY <1>6, CancelTaskKeeps, RetryKeeps, LeaseExpiresKeeps
<1>7. ASSUME NEW w \in Workers, ClaimTask(w) \/ ClaimNothing(w) \/ StopWorker(w) \/ CrashWorker(w) \/ Throw(w)
      PROVE  Inv'
  BY <1>7, ClaimTaskKeeps, ClaimNothingKeeps, StopWorkerKeeps, CrashWorkerKeeps, ThrowKeeps
<1>8. ASSUME NEW w \in Workers, Work(w) PROVE Inv'
  <2>1. CASE Lost(w) \/ Fail(w) \/ RetryFailedTask(w)
    BY <2>1, LostKeeps, FailKeeps, RetryFailedTaskKeeps
  <2>2. CASE FindGone(w) \/ FindSuperseded(w) \/ FindNewer(w) \/ FindStaleRebuild(w) \/ FindStale(w)
    BY <2>2, FindGoneKeeps, FindSupersededKeeps, FindNewerKeeps, FindStaleRebuildKeeps, FindStaleKeeps
  <2>3. CASE BeginSync(w) \/ BeginRebuild(w) \/ Fill(w) \/ BeginCleanup(w) \/ FinishCleanup(w)
    BY <2>3, BeginSyncKeeps, BeginRebuildKeeps, FillKeeps, BeginCleanupKeeps, FinishCleanupKeeps
  <2>4. CASE CommitSync(w) \/ CommitRebuild(w) \/ CommitDelete(w) \/ CommitDirectory(w)
    BY <2>4, CommitSyncKeeps, CommitRebuildKeeps, CommitDeleteKeeps, CommitDirectoryKeeps
  <2> QED BY <1>8, <2>1, <2>2, <2>3, <2>4 DEF Work
<1>9. CASE UNCHANGED vars
  BY <1>9, NothingKeeps
<1> QED BY <1>1, <1>2, <1>3, <1>4, <1>5, <1>6, <1>7, <1>8, <1>9 DEF Next

\* Every transaction of people and workers, every fault and every lost lease keeps Inv.
THEOREM Invariant == Spec => []Inv
<1>1. Init => Inv
  BY InitIsSound
<1>2. Inv /\ [Next]_vars => Inv'
  BY StepKeeps
<1> QED BY <1>1, <1>2, PTL DEF Spec

\* Every part of the state has its type; an active version is a complete one of its document.
THEOREM Typed == Spec => []TypeOK
<1>1. Inv => TypeOK
  <2> SUFFICES ASSUME Inv PROVE TypeOK
    OBVIOUS
  <2>1. \A v \in DOMAIN versions :
           /\ versions[v].document \in Documents /\ versions[v].content \in Contents
           /\ versions[v].status \in {"pending", "syncing", "ready", "failed", "purged"}
           /\ versions[v].configs \subseteq Configs
    BY StoreTyped DEF Versions
  <2>2. \A t \in DOMAIN tasks :
           /\ tasks[t].status \in {"queued", "running", "failed", "cancelled", "succeeded"}
           /\ tasks[t].owner \in Workers \cup {None}
           /\ tasks[t].attempts \in 0 .. MaxAttempts
    BY StoreTyped DEF Tasks
  <2>3. \A w \in Workers : workers[w].phase # "idle" => workers[w].task \in DOMAIN tasks
    BY DEF Inv, WorkersKeepTheirWord, Working, At
  <2> QED BY <2>1, <2>2, <2>3 DEF Inv, Types, ActiveIsReady, TypeOK
<1> QED BY <1>1, Invariant, PTL

\* However uploads, deletions and rebuilds overlap: the active index covers the active version of
\* every document and nothing else, unless a directory deletion has overtaken another index, and
\* its vectors are of one dimension (also then); an active version is a complete one of its
\* document.
THEOREM WhatIsSearchedIsWhatIsShown == Spec => []SearchAgreesWithDocuments
<1>1. Inv => IndexServesDocuments
  BY DEF Inv
<1> QED BY <1>1, Invariant, Typed, PTL DEF SearchAgreesWithDocuments

\* No candidate brings back what was purged while it was being built.
THEOREM DeletedDocumentsStayAway == Spec => []DeletedStaysDeleted
<1>1. Inv => DeletedStaysDeleted
  BY DEF Inv, DeletedIsGone, DeletedStaysDeleted
<1> QED BY <1>1, Invariant, PTL

\* A locked document, and an upload shown as under way, has a task that can settle it or be retried.
THEOREM NothingIsMarkedForEver == Spec => []MarksHaveATask
<1>1. Inv => MarksHaveATask
  <2> SUFFICES ASSUME Inv PROVE LocksHaveATask
    BY DEF Inv, MarksHaveATask
  <2> QED BY DEF Inv, LocksAreHeld, LocksHaveATask, Open
<1> QED BY <1>1, Invariant, PTL

-----------------------------------------------------------------------------
\* What a step does to the document people see.

Newest ==
    \A d \in Documents : documents[d].born # 0 /\ documents'[d].born = documents[d].born
                            => documents'[d].active >= documents[d].active

LEMMA SameActive ==
    ASSUME Inv, \A d \in Documents : documents'[d].active = documents[d].active
    PROVE  Newest
<1>1. \A d \in Documents : documents[d].active \in Nat
  BY DEF Inv, Types
<1> QED BY <1>1 DEF Newest

LEMMA SameDocuments == ASSUME Inv, documents' = documents PROVE Newest
BY SameActive

\* Taking and giving back a scope changes the locks only.
LEMMA LocksOnly ==
    ASSUME Inv, NEW t, NEW ds, documents' \in {Locked(t, ds), Unlocked(t), documents}
    PROVE  Newest
<1>1. documents \in [Documents -> DocumentStates]
  BY StoreTyped
<1>2. \A d \in Documents : documents'[d].active = documents[d].active
  BY <1>1 DEF Locked, Unlocked, DocumentStates
<1> QED BY <1>2, SameActive

LEMMA PurgeIsNewest ==
    ASSUME Inv, NEW ds, documents' = PurgedDocuments(ds)
    PROVE  Newest
<1>1. ASSUME NEW d \in Documents, documents[d].born # 0, documents'[d].born = documents[d].born
      PROVE  documents'[d].active >= documents[d].active
  <2>1. d \notin ds
    BY <1>1 DEF PurgedDocuments, NoDocument
  <2>2. documents'[d].active = documents[d].active /\ documents[d].active \in Nat
    BY <2>1 DEF PurgedDocuments, Inv, Types
  <2> QED BY <2>2
<1> QED BY <1>1 DEF Newest

LEMMA CommitSyncIsNewest == ASSUME Inv, NEW w \in Workers, CommitSync(w) PROVE Newest
<1>1. /\ Committable(w) /\ Kind(w) = "sync" /\ Current(w) /\ Fenced(w)
      /\ documents' = [documents EXCEPT ![Task(w).document].active = Task(w).version]
  BY DEF CommitSync, Committable
<1>2. documents[Task(w).document].active <= Task(w).version
  BY <1>1, ActivatedIndex
<1>3. documents \in [Documents -> DocumentStates] /\ \A d \in Documents : documents[d].active \in Nat
  BY StoreTyped DEF DocumentStates
<1>4. PICK e : e = Task(w).document
  OBVIOUS
<1>5. PICK v : v = Task(w).version
  OBVIOUS
<1>6. documents' = [documents EXCEPT ![e].active = v] /\ documents[e].active <= v
  BY <1>1, <1>2, <1>4, <1>5
<1>7. Task(w) \in Tasks /\ WellFormed(Task(w))
  BY <1>1, FencedTask
<1>8. v \in Nat
  BY <1>5, <1>7 DEF Tasks
<1>9. ASSUME NEW d \in Documents PROVE documents'[d].active >= documents[d].active
  <2>1. CASE d = e
    <3>1. documents'[d].active = v
      BY <1>3, <1>6, <2>1 DEF DocumentStates
    <3> QED BY <1>3, <1>6, <1>8, <2>1, <3>1
  <2>2. CASE d # e
    <3>1. documents'[d].active = documents[d].active
      BY <1>3, <1>6, <2>2
    <3> QED BY <1>3, <3>1
  <2> QED BY <2>1, <2>2
<1> QED BY <1>9 DEF Newest

LEMMA IngestIsNewest ==
    ASSUME Inv, NEW d \in Documents, NEW content \in Contents, Ingest(d, content) PROVE Newest
<1>1. PICK v : documents' = [documents EXCEPT ![d].born = IF @ = 0 THEN v ELSE @]
  BY DEF Ingest
<1>2. documents \in [Documents -> DocumentStates]
  BY StoreTyped
<1>3. \A e \in Documents : documents'[e].active = documents[e].active
  BY <1>1, <1>2 DEF DocumentStates
<1> QED BY <1>3, SameActive

\* In whatever order synchronisations end, no upload is replaced by an earlier one: a synchronisation
\* looks for newer uploads before it builds, and the index it began from is compared at the end.
THEOREM NewestUploadWins == Spec => NewestVersionWins
<1>1. ASSUME Inv, [Next]_vars PROVE Newest
  <2>1. ASSUME NEW d \in Documents, NEW content \in Contents, Ingest(d, content) PROVE Newest
    BY <1>1, <2>1, IngestIsNewest
  <2>2. ASSUME NEW d \in Documents, DeleteAsset(d) PROVE Newest
    BY <1>1, <2>2, SameDocuments DEF DeleteAsset, store
  <2>3. CASE DeleteDirectory
    BY <1>1, <2>3, LocksOnly DEF DeleteDirectory
  <2>4. CASE QueueRebuild \/ SaveConfig \/ UNCHANGED vars
    BY <1>1, <2>4, SameDocuments DEF QueueRebuild, SaveConfig, vars, store
  <2>5. ASSUME NEW t \in DOMAIN tasks, CancelTask(t) \/ Retry(t) \/ LeaseExpires(t) PROVE Newest
    <3>1. CASE CancelTask(t)
      BY <1>1, <3>1, LocksOnly DEF CancelTask
    <3>2. CASE Retry(t)
      BY <1>1, <3>2, LocksOnly DEF Retry
    <3>3. CASE LeaseExpires(t)
      BY <1>1, <3>3, SameDocuments DEF LeaseExpires, store
    <3> QED BY <2>5, <3>1, <3>2, <3>3
  <2>6. ASSUME NEW w \in Workers, ClaimTask(w) \/ ClaimNothing(w) \/ StopWorker(w) \/ CrashWorker(w) \/ Throw(w)
        PROVE  Newest
    <3>1. documents' = documents
      BY <2>6 DEF ClaimTask, ClaimNothing, StopWorker, CrashWorker, Throw, store
    <3> QED BY <1>1, <3>1, SameDocuments
  <2>7. ASSUME NEW w \in Workers, Work(w) PROVE Newest
    <3>1. CASE \/ Lost(w) \/ RetryFailedTask(w) \/ FindGone(w) \/ FindNewer(w) \/ FindStaleRebuild(w) \/ FindStale(w)
               \/ BeginSync(w) \/ BeginRebuild(w) \/ Fill(w) \/ BeginCleanup(w) \/ CommitRebuild(w)
      <4>1. documents' = documents
        BY <3>1 DEF Lost, RetryFailedTask, FindGone, FindNewer, FindStaleRebuild, FindStale, BeginSync,
                    BeginRebuild, Fill, Refuse, BeginCleanup, CommitRebuild, store
      <4> QED BY <1>1, <4>1, SameDocuments
    <3>2. CASE Fail(w) \/ FindSuperseded(w) \/ FinishCleanup(w)
      <4>1. documents' \in {Unlocked(workers[w].task), documents}
        BY <3>2 DEF Fail, FindSuperseded, FinishCleanup
      <4> QED BY <1>1, <4>1, LocksOnly
    <3>3. CASE CommitSync(w)
      BY <1>1, <3>3, CommitSyncIsNewest
    <3>4. CASE CommitDelete(w) \/ CommitDirectory(w)
      <4>1. documents' = PurgedDocuments(Scope(Task(w)))
        BY <3>4 DEF CommitDelete, CommitDirectory, Purge
      <4> QED BY <1>1, <4>1, PurgeIsNewest
    <3> QED BY <2>7, <3>1, <3>2, <3>3, <3>4 DEF Work
  <2> QED BY <1>1, <2>1, <2>2, <2>3, <2>4, <2>5, <2>6, <2>7 DEF Next
<1>2. Inv /\ [Next]_vars => [Newest]_vars
  BY <1>1
<1> QED BY <1>2, Invariant, PTL DEF Spec, NewestVersionWins, Newest
=============================================================================
