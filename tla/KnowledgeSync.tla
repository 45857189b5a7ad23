---------------------------- MODULE KnowledgeSync ----------------------------
(***************************************************************************)
(* The documents of a knowledge base and the index they are searched by.   *)
(* Uploads, deletions and rebuilds become tasks; a task is claimed by a    *)
(* worker under a lease, builds a candidate index away from the store and  *)
(* activates it in a last transaction, while other workers build theirs    *)
(* and people upload, delete, cancel and retry (knowledge-service.ts, the  *)
(* task queue of postgres-store.ts and the knowledge lane of worker.ts).   *)
(*                                                                         *)
(* A document is one logical path.  A version is the number of an upload;  *)
(* the index is the set of its chunks, of which the version and the        *)
(* configuration they were embedded with are kept.  There is one           *)
(* directory.  A worker is a lane of a worker process: it has one task at  *)
(* a time and a token of its own for each claim.                           *)
(***************************************************************************)
EXTENDS Integers, Sequences, FiniteSets

CONSTANTS Documents,      \* logical paths
          InDirectory,    \* the paths under the directory
          Contents,       \* what people upload
          Configs,        \* versions of the configuration, saved in this order
          Dimension,      \* of the vectors of a configuration
          Workers,
          None,
          MaxAttempts,    \* maxAttempts of a task (3 in the code)
          MaxTasks,       \* bound: tasks of people
          MaxRetries,     \* bound: failed tasks people retry
          MaxFaults       \* bound: exceptions, stopped workers and lost leases

ASSUME ConstantsAssumption ==
    /\ InDirectory \subseteq Documents
    /\ IsFiniteSet(Configs) /\ Configs # {} /\ Configs = 1 .. Cardinality(Configs)
    /\ IsFiniteSet(Documents)
    /\ Dimension \in [Configs -> Nat]
    /\ None \notin Workers /\ None \notin Documents
    /\ MaxAttempts \in Nat \ {0} /\ MaxTasks \in Nat /\ MaxRetries \in Nat /\ MaxFaults \in Nat

VARIABLES documents,   \* per path: its first version (0: no document), active version, lock
          versions,    \* the uploads
          directory,   \* the version that created the directory (0: there is none), lock
          index,       \* the active index
          config,      \* the saved configuration
          outdated,    \* per configuration: requiresRebuild
          tasks,
          workers,     \* what each worker is doing
          overtaken,   \* history: a directory deletion replaced an index it was not built from
          retries, faults

store == <<documents, versions, directory, index, config, outdated>>
vars == <<store, tasks, workers, overtaken, retries, faults>>

NoDocument == [born |-> 0, active |-> 0, lock |-> 0]
Idle == [phase |-> "idle", task |-> 0, previous |-> {}]
NoCandidate == [members |-> {}, chunks |-> {}, open |-> FALSE]

Alive(v) == versions[v].status # "purged"
VersionsOf(ds) == {v \in DOMAIN versions : versions[v].document \in ds /\ Alive(v)}
ActiveOf(ds) == {documents[d].active : d \in ds} \ {0}

NewTask(kind, d, v, c) ==
    [kind |-> kind, document |-> d, version |-> v, config |-> c, targets |-> <<>>, status |-> "queued",
     directory |-> 0, attempts |-> 0, owner |-> None, lease |-> FALSE, candidate |-> NoCandidate, base |-> 0,
     cleanup |-> FALSE]

\* Nothing or every document was uploaded and indexed before, one after the other.
Init ==
    \E seeded \in {{}, Documents}, content \in Contents :
        LET n == Cardinality(seeded)
            number == CHOOSE f \in [seeded -> 1 .. n] : \A d, e \in seeded : f[d] = f[e] => d = e
            first == {number[d] : d \in seeded \cap InDirectory}
        IN  /\ documents = [d \in Documents |->
                               IF d \in seeded THEN [born |-> number[d], active |-> number[d], lock |-> 0]
                                               ELSE NoDocument]
            /\ versions = [v \in 1 .. n |-> [document |-> CHOOSE d \in seeded : number[d] = v,
                                             content |-> content, status |-> "ready", configs |-> {1}]]
            /\ directory = [born |-> IF first = {} THEN 0 ELSE CHOOSE v \in first : TRUE, lock |-> 0]
            /\ index = [number  |-> n, config |-> 1, members |-> 1 .. n,
                        chunks  |-> [version : 1 .. n, config : {1}]]
            /\ config = 1
            /\ outdated = [c \in Configs |-> FALSE]
            /\ tasks = <<>>
            /\ workers = [w \in Workers |-> Idle]
            /\ overtaken = FALSE
            /\ retries = 0 /\ faults = 0

-----------------------------------------------------------------------------
(* What people do.                                                         *)

Unsettled(t) == tasks[t].status \in {"queued", "running"}

\* The task of an upload of this content that is still under way.
UnderWay(d, content) ==
    \E v \in VersionsOf({d}) : /\ versions[v].content = content
                               /\ versions[v].status \in {"pending", "syncing"}
                               /\ \E t \in DOMAIN tasks : tasks[t].kind = "sync" /\ tasks[t].version = v /\ Unsettled(t)

\* ingest: the same content is not taken twice; while a rebuild is due the
\* configuration of the active index is used.
Ingest(d, content) ==
    LET v == Len(versions) + 1
        c == IF outdated[config] /\ index.number # 0 THEN index.config ELSE config
    IN  /\ Len(tasks) < MaxTasks
        /\ d \in InDirectory => directory.lock = 0
        /\ documents[d].active # 0 => versions[documents[d].active].content # content
        /\ ~UnderWay(d, content)
        /\ versions' = Append(versions, [document |-> d, content |-> content, status |-> "pending", configs |-> {}])
        /\ tasks' = Append(tasks, NewTask("sync", d, v, c))
        /\ documents' = [documents EXCEPT ![d].born = IF @ = 0 THEN v ELSE @]
        /\ directory' = [directory EXCEPT !.born = IF d \in InDirectory /\ @ = 0 THEN v ELSE @]
        /\ UNCHANGED <<index, config, outdated, workers, overtaken, retries, faults>>

IndexConfig == IF index.number # 0 THEN index.config ELSE config

\* deleteAsset.
DeleteAsset(d) ==
    /\ Len(tasks) < MaxTasks
    /\ documents[d].active # 0
    /\ \A t \in DOMAIN tasks : ~(tasks[t].kind = "delete" /\ tasks[t].document = d /\ Unsettled(t)
                                  /\ Alive(tasks[t].version))
    /\ tasks' = Append(tasks, NewTask("delete", d, documents[d].active, IndexConfig))
    /\ UNCHANGED <<store, workers, overtaken, retries, faults>>

Locked(t, ds) == [d \in Documents |-> IF d \in ds THEN [documents[d] EXCEPT !.lock = t] ELSE documents[d]]

\* deleteDirectory: the directory and the documents in it are locked for the task.
DeleteDirectory ==
    LET t == Len(tasks) + 1
        inside == {d \in InDirectory : documents[d].born # 0}
    IN  /\ Len(tasks) < MaxTasks
        /\ directory.born # 0
        /\ directory.lock # 0 => ~Unsettled(directory.lock)
        /\ \A u \in DOMAIN tasks : ~(tasks[u].kind = "directory" /\ tasks[u].directory = directory.born /\ Unsettled(u))
        /\ \A d \in inside : documents[d].lock = 0
        /\ tasks' = Append(tasks, [NewTask("directory", None, 0, IndexConfig) EXCEPT
                                       !.directory = directory.born,
                                       !.targets = [d \in inside |-> [born   |-> documents[d].born,
                                                                      active |-> documents[d].active]]])
        /\ documents' = Locked(t, inside)
        /\ directory' = [directory EXCEPT !.lock = t]
        /\ UNCHANGED <<versions, index, config, outdated, workers, overtaken, retries, faults>>

\* queueRebuild.
QueueRebuild ==
    /\ Len(tasks) < MaxTasks
    /\ \A t \in DOMAIN tasks : ~(tasks[t].kind = "rebuild" /\ Unsettled(t))
    /\ tasks' = Append(tasks, NewTask("rebuild", None, 0, config))
    /\ UNCHANGED <<store, workers, overtaken, retries, faults>>

\* saveConfig, of a configuration the index is not compatible with.
SaveConfig ==
    /\ config + 1 \in Configs
    /\ config' = config + 1
    /\ outdated' = [outdated EXCEPT ![config + 1] = index.number # 0]
    /\ UNCHANGED <<documents, versions, directory, index, tasks, workers, overtaken, retries, faults>>

StillLocked(t) == documents           \* mutant: the scope outlives the task

\* releaseDirectoryDeleteScope.
Unlocked(t) == [d \in Documents |-> IF documents[d].lock = t THEN [documents[d] EXCEPT !.lock = 0] ELSE documents[d]]
UnlockedDirectory(t) == IF directory.lock = t THEN [directory EXCEPT !.lock = 0] ELSE directory

\* cancelTask.
CancelledVersions(t) ==
    [v \in DOMAIN versions |->
        IF tasks[t].kind = "sync" /\ tasks[t].version = v /\ versions[v].status \in {"pending", "syncing"}
        THEN [versions[v] EXCEPT !.status = "failed"] ELSE versions[v]]

CancelTask(t) ==
    /\ Unsettled(t) /\ ~tasks[t].cleanup
    /\ tasks' = [tasks EXCEPT ![t].status = "cancelled", ![t].candidate = NoCandidate]
    /\ versions' = CancelledVersions(t)
    /\ documents' = Unlocked(t)
    /\ directory' = UnlockedDirectory(t)
    /\ UNCHANGED <<index, config, outdated, workers, overtaken, retries, faults>>

\* retry: the deletion of a directory takes its scope back, or goes on with the files.
Retry(t) ==
    LET scope == {d \in DOMAIN tasks[t].targets : documents[d].born = tasks[t].targets[d].born}
    IN  /\ retries < MaxRetries /\ retries' = retries + 1
        /\ tasks[t].status = "failed"
        /\ tasks[t].kind = "sync" => Alive(tasks[t].version)
        /\ tasks' = [tasks EXCEPT ![t] =
                        IF @.cleanup THEN [@ EXCEPT !.status = "queued", !.attempts = 0]
                        ELSE [@ EXCEPT !.status = "queued", !.attempts = 0, !.candidate = NoCandidate,
                                       !.owner = None, !.lease = FALSE]]
        /\ versions' = [v \in DOMAIN versions |->
                           IF tasks[t].kind = "sync" /\ tasks[t].version = v
                           THEN [versions[v] EXCEPT !.status = "pending"] ELSE versions[v]]
        /\ IF tasks[t].kind = "directory" /\ ~tasks[t].cleanup
           THEN /\ documents' = Locked(t, scope)
                /\ directory' = IF directory.born = tasks[t].directory
                                THEN [directory EXCEPT !.lock = t] ELSE directory
           ELSE UNCHANGED <<documents, directory>>
        /\ UNCHANGED <<index, config, outdated, workers, overtaken, faults>>

-----------------------------------------------------------------------------
(* The queue.                                                              *)

\* claimTask first recovers the tasks whose lease has expired.
Recovered ==
    [t \in DOMAIN tasks |->
        LET expired == tasks[t].status = "running" /\ ~tasks[t].lease
            spent == tasks[t].attempts >= MaxAttempts
        IN  CASE expired -> [tasks[t] EXCEPT !.status = IF spent THEN "failed" ELSE "queued",
                                             !.owner = None, !.candidate = NoCandidate]
              [] tasks[t].status = "queued" /\ spent -> [tasks[t] EXCEPT !.status = "failed"]
              [] OTHER -> tasks[t]]

Claimable == {t \in DOMAIN tasks : Recovered[t].status = "queued" /\ Recovered[t].attempts < MaxAttempts}

At(w, phase) == workers[w].phase = phase
Task(w) == tasks[workers[w].task]
Goto(w, phase) == workers' = [workers EXCEPT ![w].phase = phase]
Leave(w) == workers' = [workers EXCEPT ![w] = Idle]

ClaimTask(w) ==
    /\ At(w, "idle")
    /\ \E t \in Claimable :
          /\ tasks' = [Recovered EXCEPT ![t].status = "running", ![t].owner = w, ![t].lease = TRUE,
                                        ![t].attempts = @ + 1]
          /\ workers' = [workers EXCEPT ![w] = [Idle EXCEPT !.phase = "claimed", !.task = t]]
    /\ UNCHANGED <<store, overtaken, retries, faults>>

ClaimNothing(w) ==
    /\ At(w, "idle") /\ Claimable = {} /\ Recovered # tasks
    /\ tasks' = Recovered
    /\ UNCHANGED <<store, workers, overtaken, retries, faults>>

\* transactionWithTaskLease, before and after the operation.
Owns(w) == Task(w).owner = w /\ Task(w).lease
Fenced(w) == ~At(w, "idle") /\ Task(w).status = "running" /\ Owns(w)

\* releaseTask: a running or a failed task goes back to the queue.
Released(w) ==
    [tasks EXCEPT ![workers[w].task] =
        IF Owns(w) /\ @.status \in {"running", "failed"}
        THEN [@ EXCEPT !.status = "queued", !.owner = None, !.lease = FALSE] ELSE @]

\* A worker without its lease writes nothing and leaves.
Lost(w) ==
    /\ workers[w].phase \notin {"idle", "failed"} /\ ~Fenced(w)
    /\ Leave(w)
    /\ UNCHANGED <<store, tasks, overtaken, retries, faults>>

\* The heartbeat comes too late.
LeaseExpires(t) ==
    /\ faults < MaxFaults /\ faults' = faults + 1
    /\ tasks[t].lease /\ tasks[t].status \in {"running", "failed"}
    /\ tasks' = [tasks EXCEPT ![t].lease = FALSE]
    /\ UNCHANGED <<store, workers, overtaken, retries>>

\* settleStoppedWork: a stopped worker releases its task, if it still can.
StopWorker(w) ==
    /\ faults < MaxFaults /\ faults' = faults + 1
    /\ ~At(w, "idle")
    /\ tasks' = Released(w)
    /\ Leave(w)
    /\ UNCHANGED <<store, overtaken, retries>>

\* A crash, or a release that fails: the lease is left to expire.
CrashWorker(w) ==
    /\ faults < MaxFaults /\ faults' = faults + 1
    /\ ~At(w, "idle")
    /\ tasks' = [tasks EXCEPT ![workers[w].task].lease = IF Task(w).owner = w THEN FALSE ELSE @]
    /\ Leave(w)
    /\ UNCHANGED <<store, overtaken, retries>>

\* An exception of the embedding, the vector index, a file or a transaction (a
\* rebuild that cannot begin is left to its lease, as after a crash).
Throw(w) ==
    /\ faults < MaxFaults /\ faults' = faults + 1
    /\ workers[w].phase \in {"claimed", "embedding", "indexing", "cleanup"}
    /\ At(w, "claimed") => Task(w).kind # "rebuild"
    /\ Goto(w, "failing")
    /\ UNCHANGED <<store, tasks, overtaken, retries>>

\* What the handler of an exception writes; a directory deletion gives its scope
\* back unless it has only files left to remove.
Fail(w) ==
    LET t == workers[w].task
        releases == Task(w).kind = "directory" /\ ~Task(w).cleanup
    IN  /\ At(w, "failing") /\ Fenced(w)
        /\ tasks' = [tasks EXCEPT ![t].status = "failed", ![t].candidate = NoCandidate]
        /\ versions' = [v \in DOMAIN versions |->
                           IF Task(w).kind = "sync" /\ Task(w).version = v /\ Alive(v)
                           THEN [versions[v] EXCEPT !.status = "failed"] ELSE versions[v]]
        /\ documents' = IF releases THEN Unlocked(t) ELSE documents
        /\ directory' = IF releases THEN UnlockedDirectory(t) ELSE directory
        /\ Goto(w, "failed")
        /\ UNCHANGED <<index, config, outdated, overtaken, retries, faults>>

\* retryFailedTask.
RetryFailedTask(w) ==
    /\ At(w, "failed")
    /\ tasks' = IF Task(w).status = "failed" /\ Task(w).attempts < MaxAttempts THEN Released(w) ELSE tasks
    /\ Leave(w)
    /\ UNCHANGED <<store, overtaken, retries, faults>>

-----------------------------------------------------------------------------
(* Candidates: built away from the store, activated in a last transaction.  *)

Kind(w) == Task(w).kind
Scope(task) == IF task.kind = "directory" THEN DOMAIN task.targets ELSE {task.document} \ {None}

\* The version a task is about has been deleted: its transaction throws.
Gone(w) == Kind(w) \in {"sync", "delete"} /\ ~Alive(Task(w).version)

\* What a deletion was asked to delete is no longer what is there.
Superseded(w) ==
    \/ Kind(w) = "delete" /\ documents[Task(w).document].active # Task(w).version
    \/ /\ Kind(w) = "directory" /\ ~Task(w).cleanup
       /\ \E d \in DOMAIN Task(w).targets :
             \/ documents[d].born # Task(w).targets[d].born
             \/ documents[d].active # Task(w).targets[d].active
             \/ documents[d].lock # workers[w].task

AlwaysCurrent(w) == TRUE              \* mutant: the index is not compared

\* The index is the one the candidate was begun from.
Current(w) == Task(w).base = index.number

NeverNewer(w) == FALSE                \* mutant: later uploads are not looked for

\* A later upload of the document which has not failed.
Newer(w) ==
    \E v \in VersionsOf({Task(w).document}) : v > Task(w).version /\ versions[v].status # "failed"

\* A transaction finds that nothing is left to do, or throws and writes nothing.
Settled(w, status) ==
    [tasks EXCEPT ![workers[w].task].status = status, ![workers[w].task].candidate = NoCandidate]
Refuse(w) == Goto(w, "failing") /\ UNCHANGED <<store, tasks, overtaken, retries, faults>>

FindGone(w) ==
    /\ workers[w].phase \in {"claimed", "embedding", "indexing"} /\ Fenced(w) /\ Gone(w)
    /\ Refuse(w)

FindSuperseded(w) ==
    /\ workers[w].phase \in {"claimed", "indexing"} /\ Fenced(w) /\ ~Gone(w) /\ Superseded(w)
    /\ tasks' = Settled(w, "cancelled")
    /\ documents' = Unlocked(workers[w].task)
    /\ directory' = UnlockedDirectory(workers[w].task)
    /\ Leave(w)
    /\ UNCHANGED <<versions, index, config, outdated, overtaken, retries, faults>>

FindNewer(w) ==
    /\ At(w, "embedding") /\ Kind(w) = "sync" /\ Fenced(w) /\ ~Gone(w) /\ Newer(w)
    /\ tasks' = Settled(w, "cancelled")
    /\ versions' = [versions EXCEPT ![Task(w).version].status = "failed"]
    /\ Leave(w)
    /\ UNCHANGED <<documents, directory, index, config, outdated, overtaken, retries, faults>>

\* A rebuild throws, whoever changed the index.
FindStaleRebuild(w) ==
    /\ workers[w].phase \in {"embedding", "indexing"} /\ Kind(w) = "rebuild" /\ Fenced(w) /\ ~Current(w)
    /\ Refuse(w)

\* A synchronisation or a deletion fails at its commit; the version stays syncing.
FindStale(w) ==
    /\ At(w, "indexing") /\ Kind(w) \in {"sync", "delete"} /\ Fenced(w) /\ ~Gone(w) /\ ~Superseded(w) /\ ~Current(w)
    /\ tasks' = Settled(w, "failed")
    /\ Goto(w, "failed")
    /\ UNCHANGED <<store, overtaken, retries, faults>>

\* The first transaction of a synchronisation and of a rebuild.
BeginSync(w) ==
    LET v == Task(w).version
        active == documents[Task(w).document].active
    IN  /\ At(w, "claimed") /\ Kind(w) = "sync" /\ Fenced(w) /\ ~Gone(w)
        /\ tasks' = [tasks EXCEPT ![workers[w].task].candidate.open = TRUE, ![workers[w].task].base = index.number]
        /\ versions' = [versions EXCEPT ![v].status = "syncing"]
        /\ workers' = [workers EXCEPT ![w].phase = "embedding",
                                      ![w].previous = IF active = 0 THEN {} ELSE versions[active].configs]
        /\ UNCHANGED <<documents, directory, index, config, outdated, overtaken, retries, faults>>

BeginRebuild(w) ==
    /\ At(w, "claimed") /\ Kind(w) = "rebuild" /\ Fenced(w)
    /\ tasks' = [tasks EXCEPT ![workers[w].task].base = index.number,
                              ![workers[w].task].candidate =
                                  [NoCandidate EXCEPT !.members = ActiveOf(Documents), !.open = TRUE]]
    /\ Goto(w, "embedding")
    /\ UNCHANGED <<store, overtaken, retries, faults>>

\* createChunks: unchanged chunks keep the vectors of the version that was active
\* when the synchronisation began, if they have the right dimension.
Embeddings(w) ==
    LET reusable == {c \in workers[w].previous : Dimension[c] = Dimension[Task(w).config]}
    IN  CASE Kind(w) = "sync"    -> {[version : {Task(w).version}, config : cs] :
                                        cs \in (SUBSET (reusable \cup {Task(w).config})) \ {{}}}
          [] Kind(w) = "rebuild" -> {[version : Task(w).candidate.members, config : {Task(w).config}]}
          [] OTHER               -> {{}}

\* What a task makes of the index: a rebuild starts from the documents alone.
Built(w, embedded) ==
    [open    |-> TRUE,
     members |-> CASE Kind(w) = "sync"    -> ActiveOf(Documents \ Scope(Task(w))) \cup {Task(w).version}
                   [] Kind(w) = "rebuild" -> Task(w).candidate.members
                   [] OTHER               -> ActiveOf(Documents \ Scope(Task(w))),
     chunks  |-> IF Kind(w) = "rebuild" THEN embedded
                 ELSE {k \in index.chunks : k.version \notin VersionsOf(Scope(Task(w)))} \cup embedded]

\* validateCandidate.
Valid(task, candidate) ==
    \A k \in candidate.chunks : k.version \in candidate.members /\ Dimension[k.config] = Dimension[task.config]

\* The transaction that fills the candidate: the second one of a synchronisation
\* and of a rebuild, the first one of a deletion.
Fillable(w) ==
    /\ Fenced(w) /\ ~Gone(w)
    /\ \/ At(w, "embedding") /\ Kind(w) = "sync" /\ ~Newer(w)
       \/ At(w, "embedding") /\ Kind(w) = "rebuild" /\ Current(w)
       \/ At(w, "claimed") /\ Kind(w) \in {"delete", "directory"} /\ ~Task(w).cleanup /\ ~Superseded(w)

Fill(w) ==
    /\ Fillable(w)
    /\ \E embedded \in Embeddings(w) :
          IF Valid(Task(w), Built(w, embedded))
          THEN /\ tasks' = [tasks EXCEPT ![workers[w].task].candidate = Built(w, embedded),
                                         ![workers[w].task].base = IF At(w, "claimed") THEN index.number ELSE @]
               /\ Goto(w, "indexing")
               /\ UNCHANGED <<store, overtaken, retries, faults>>
          ELSE Refuse(w)

\* The last transaction.  activateCandidateIndex.
Committable(w) ==
    /\ At(w, "indexing") /\ Fenced(w) /\ ~Gone(w) /\ ~Superseded(w)
    /\ Valid(Task(w), Task(w).candidate)

Activated(task) ==
    [number |-> index.number + 1, config |-> task.config,
     members |-> task.candidate.members, chunks |-> task.candidate.chunks]

CommitSync(w) ==
    LET v == Task(w).version
    IN  /\ Committable(w) /\ Kind(w) = "sync" /\ Current(w)
        /\ index' = Activated(Task(w))
        /\ versions' = [versions EXCEPT ![v].status = "ready",
                                        ![v].configs = {k.config : k \in {k \in Task(w).candidate.chunks : k.version = v}}]
        /\ documents' = [documents EXCEPT ![Task(w).document].active = v]
        /\ tasks' = Settled(w, "succeeded")
        /\ Leave(w)
        /\ UNCHANGED <<directory, config, outdated, overtaken, retries, faults>>

CommitRebuild(w) ==
    /\ Committable(w) /\ Kind(w) = "rebuild" /\ Current(w)
    /\ index' = Activated(Task(w))
    /\ outdated' = [outdated EXCEPT ![Task(w).config] = FALSE]
    /\ tasks' = Settled(w, "succeeded")
    /\ Leave(w)
    /\ UNCHANGED <<documents, versions, directory, config, overtaken, retries, faults>>

\* purgeAssetData: the documents leave the knowledge base and their versions every
\* index, the candidates of other tasks included.
Without(i, vs) == [i EXCEPT !.members = @ \ vs, !.chunks = {k \in @ : k.version \notin vs}]

KeptCandidates(ts, vs) == ts          \* mutant: only the active index is purged

PurgedCandidates(ts, vs) == [t \in DOMAIN ts |-> [ts[t] EXCEPT !.candidate = Without(@, vs)]]

PurgedDocuments(ds) == [d \in Documents |-> IF d \in ds THEN NoDocument ELSE documents[d]]

Purge(ds, activated, ts) ==
    LET gone == VersionsOf(ds)
    IN  /\ index' = Without(activated, gone)
        /\ tasks' = PurgedCandidates(ts, gone)
        /\ versions' = [v \in DOMAIN versions |->
                           IF v \in gone THEN [versions[v] EXCEPT !.status = "purged", !.configs = {}] ELSE versions[v]]
        /\ documents' = PurgedDocuments(ds)

CommitDelete(w) ==
    /\ Committable(w) /\ Kind(w) = "delete" /\ Current(w)
    /\ Purge(Scope(Task(w)), Activated(Task(w)), Settled(w, "succeeded"))
    /\ Leave(w)
    /\ UNCHANGED <<directory, config, outdated, overtaken, retries, faults>>

\* The deletion of a directory does not compare the index.  From here on only
\* its files are left to remove.
CommitDirectory(w) ==
    /\ Committable(w) /\ Kind(w) = "directory"
    /\ Purge(Scope(Task(w)), Activated(Task(w)),
             [tasks EXCEPT ![workers[w].task].cleanup = TRUE, ![workers[w].task].candidate = NoCandidate])
    /\ overtaken' = (overtaken \/ ~Current(w))
    /\ Goto(w, "cleanup")
    /\ UNCHANGED <<directory, config, outdated, retries, faults>>

\* completeDirectoryFileCleanup, of a task that had got so far before.
BeginCleanup(w) ==
    /\ At(w, "claimed") /\ Fenced(w) /\ Task(w).cleanup
    /\ Goto(w, "cleanup")
    /\ UNCHANGED <<store, tasks, overtaken, retries, faults>>

\* finalizeDirectoryDeleteScope.
FinishCleanup(w) ==
    /\ At(w, "cleanup") /\ Fenced(w)
    /\ tasks' = [Settled(w, "succeeded") EXCEPT ![workers[w].task].cleanup = FALSE]
    /\ documents' = Unlocked(workers[w].task)
    /\ directory' = IF directory.born = Task(w).directory THEN [born |-> 0, lock |-> 0] ELSE directory
    /\ Leave(w)
    /\ UNCHANGED <<versions, index, config, outdated, overtaken, retries, faults>>

-----------------------------------------------------------------------------

Work(w) ==
    \/ Lost(w) \/ Fail(w) \/ RetryFailedTask(w)
    \/ FindGone(w) \/ FindSuperseded(w) \/ FindNewer(w) \/ FindStaleRebuild(w) \/ FindStale(w)
    \/ BeginSync(w) \/ BeginRebuild(w) \/ Fill(w) \/ BeginCleanup(w) \/ FinishCleanup(w)
    \/ CommitSync(w) \/ CommitRebuild(w) \/ CommitDelete(w) \/ CommitDirectory(w)

Next ==
    \/ \E d \in Documents, content \in Contents : Ingest(d, content)
    \/ \E d \in Documents : DeleteAsset(d)
    \/ DeleteDirectory \/ QueueRebuild \/ SaveConfig
    \/ \E t \in DOMAIN tasks : CancelTask(t) \/ Retry(t) \/ LeaseExpires(t)
    \/ \E w \in Workers : ClaimTask(w) \/ ClaimNothing(w) \/ StopWorker(w) \/ CrashWorker(w) \/ Throw(w) \/ Work(w)

Spec == Init /\ [][Next]_vars

-----------------------------------------------------------------------------
(* Properties.                                                             *)

TypeOK ==
    /\ documents \in [Documents -> [born : Nat, active : Nat, lock : Nat]]
    /\ \A v \in DOMAIN versions :
          /\ versions[v].document \in Documents /\ versions[v].content \in Contents
          /\ versions[v].status \in {"pending", "syncing", "ready", "failed", "purged"}
          /\ versions[v].configs \subseteq Configs
    /\ \A d \in Documents : documents[d].active # 0 =>
          /\ versions[documents[d].active].document = d
          /\ versions[documents[d].active].status = "ready"
    /\ config \in Configs /\ index.config \in Configs /\ outdated \in [Configs -> BOOLEAN]
    /\ \A t \in DOMAIN tasks :
          /\ tasks[t].status \in {"queued", "running", "failed", "cancelled", "succeeded"}
          /\ tasks[t].owner \in Workers \cup {None}
          /\ tasks[t].attempts \in 0 .. MaxAttempts
    /\ \A w \in Workers : workers[w].phase # "idle" => workers[w].task \in DOMAIN tasks

\* What can be searched is what the documents show: the active index covers the
\* active version of every document and nothing else, through concurrent
\* uploads, deletions and rebuilds, unless the deletion of a directory has
\* replaced an index it was not built from.
ActiveVersionsAreIndexed ==
    ~overtaken => /\ index.members = ActiveOf(Documents)
                  /\ {k.version : k \in index.chunks} = index.members

\* All vectors of the active index have the dimension it is searched with.
IndexIsHomogeneous == \A k \in index.chunks : Dimension[k.config] = Dimension[index.config]

\* A search sees every document as it is shown, and compares vectors of one model.
IndexServesDocuments == ActiveVersionsAreIndexed /\ IndexIsHomogeneous

\* What is shown, what is searched and what is active belong together: an active
\* version is a complete version of its document, and the index covers it.
SearchAgreesWithDocuments == TypeOK /\ IndexServesDocuments

\* A deleted document does not come back: no candidate that was being built
\* when it was purged brings one of its versions into the active index.
DeletedStaysDeleted == \A v \in index.members \cup {k.version : k \in index.chunks} : Alive(v)

\* A document or a directory that refuses changes has a task which still can
\* finish, or fails and can be retried.
LocksHaveATask ==
    \A t \in ({documents[d].lock : d \in Documents} \cup {directory.lock}) \ {0} :
        tasks[t].status \in {"queued", "running", "failed"}

\* An upload that is shown as under way has a task which can finish it.
VersionsHaveATask ==
    \A v \in DOMAIN versions : versions[v].status \in {"pending", "syncing"} =>
        \E t \in DOMAIN tasks : /\ tasks[t].kind = "sync" /\ tasks[t].version = v
                                /\ tasks[t].status \in {"queued", "running", "failed"}

\* Nothing a task has marked outlives every task that could settle it.
MarksHaveATask == LocksHaveATask /\ VersionsHaveATask

\* An upload is never replaced by an earlier one of the same document.
NewestVersionWins ==
    [][\A d \in Documents : documents[d].born # 0 /\ documents'[d].born = documents[d].born
                               => documents'[d].active >= documents[d].active]_vars
=============================================================================
