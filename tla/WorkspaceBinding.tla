-------------------------- MODULE WorkspaceBinding --------------------------
(***************************************************************************)
(* The automation workspace of one project version: implementation files   *)
(* and one execution binding per test case, on disk, shared by the         *)
(* concurrent task executions of one worker process.                       *)
(*                                                                         *)
(* A binding names the files that implement its case, with the content     *)
(* they had, and says whether a real PASS has validated exactly them.      *)
(* Publishing an implementation and validating it hold the mutation lock;  *)
(* resolving a binding before execution and rejecting it do not.  An       *)
(* action is what happens between two awaits that matter: each read of a   *)
(* binding, each write of a file or binding is a step of its own, and a    *)
(* set of reads that is only compared is one.                              *)
(*                                                                         *)
(* The entry file of a case is its own and is named like the case; helper  *)
(* files are shared.  A package maps the paths of an implementation to     *)
(* contents, content standing for its hash.  Left out: bindings in the     *)
(* legacy location and entry files shared by several cases, which current  *)
(* code only reads, and inheritance between project versions.              *)
(***************************************************************************)
EXTENDS Naturals, FiniteSets, Sequences

CONSTANTS
  Cases,      \* test cases, each with its execution type
  Helpers,    \* paths that implementations share
  Contents,   \* what a file may contain
  Actors,     \* concurrent task executions of the process
  MaxTasks,   \* bound: claims of tasks ever started
  None        \* no file, no binding, no case

ASSUME WorkspaceAssumption ==
  /\ Cases \cap Helpers = {}
  /\ MaxTasks \in Nat
  /\ None \notin Contents \cup Cases

Paths == Cases \cup Helpers
\* An implementation of case c: its entry and some helpers.
PackagesOf(c) == UNION {[{c} \cup H -> Contents] : H \in SUBSET Helpers}
Packages == UNION {PackagesOf(c) : c \in Cases}
Statuses == {"needs_validation", "validated", "invalid"}
Bindings == [deps : Packages, status : Statuses]

VARIABLES
  files,      \* [Paths -> Contents \cup {None}]: the workspace on disk
  binding,    \* [Cases -> Bindings \cup {None}]: bindings/*.json
  actor,      \* [Actors -> record]: where a task execution stands
  mutations,  \* the chain of mutationTails: its head holds the lock
  passed,     \* history: [Cases -> SUBSET Packages] that passed in a real execution
  torn,       \* history: paths written by publications that were cut off
  tasks       \* number of claims started

vars == <<files, binding, actor, mutations, passed, torn, tasks>>

-----------------------------------------------------------------------------
Places == {"idle", "resolve", "check", "drifted", "resolved", "reject", "rejecting",
           "generate", "generated", "publish", "write", "execute", "passed", "validate",
           "confirm"}

\* pack is the implementation an execution has built, base what the snapshot its Agent
\* worked on said of the same paths, read a binding it has read, todo the paths it has
\* yet to write, hit the bindings of other cases a publication affects.
Baselines == UNION {[P -> Contents \cup {None}] : P \in SUBSET Paths}
Selections == UNION {[D -> Bindings] : D \in SUBSET Cases}

ActorRecords ==
  [pc : Places, case : Cases \cup {None}, pack : Packages \cup {<<>>}, base : Baselines,
   read : Bindings \cup {None}, todo : SUBSET Paths, hit : Selections]

IdleActor ==
  [pc |-> "idle", case |-> None, pack |-> <<>>, base |-> <<>>, read |-> None,
   todo |-> {}, hit |-> <<>>]

Become(a, r) == actor' = [actor EXCEPT ![a] = r]
Move(a, pc) == Become(a, [actor[a] EXCEPT !.pc = pc])

Usable(b) == b # None /\ b.status # "invalid"
Invalidated(b) == [b EXCEPT !.status = "invalid"]
OnDisk(pack) == \A p \in DOMAIN pack : files[p] = pack[p]

Holds(a) == mutations # <<>> /\ Head(mutations) = a
Enqueue(a) == mutations' = Append(mutations, a)

Init ==
  /\ files = [p \in Paths |-> None]
  /\ binding = [c \in Cases |-> None]
  /\ actor = [a \in Actors |-> IdleActor]
  /\ mutations = <<>>
  /\ passed = [c \in Cases |-> {}]
  /\ torn = {}
  /\ tasks = 0

\* A task of case c is prepared.
Start(a, c) ==
  /\ actor[a].pc = "idle" /\ tasks < MaxTasks
  /\ Become(a, [IdleActor EXCEPT !.pc = "resolve", !.case = c])
  /\ tasks' = tasks + 1
  /\ UNCHANGED <<files, binding, mutations, passed, torn>>

\* A task that passed is claimed again, because its last claim ended before the binding
\* was validated; its package was frozen with its script revision.
Resume(a, c) ==
  /\ actor[a].pc = "idle" /\ tasks < MaxTasks
  /\ \E pack \in passed[c] :
       Become(a, [IdleActor EXCEPT !.pc = "passed", !.case = c, !.pack = pack])
  /\ tasks' = tasks + 1
  /\ UNCHANGED <<files, binding, mutations, passed, torn>>

-----------------------------------------------------------------------------
(***************************************************************************)
(* resolveBinding, outside the lock: it reads the binding, then the files, *)
(* and writes the binding back as invalid when they do not agree.          *)
(***************************************************************************)
ResolveRead(a) ==
  /\ actor[a].pc = "resolve"
  /\ LET b == binding[actor[a].case] IN
     Become(a, [actor[a] EXCEPT !.pc = IF b = None THEN "generate" ELSE "check", !.read = b])
  /\ UNCHANGED <<files, binding, mutations, passed, torn, tasks>>

\* A binding that was invalid before is returned as it is.
ResolveCheck(a) ==
  /\ actor[a].pc = "check"
  /\ Become(a, IF ~Usable(actor[a].read)
               THEN [actor[a] EXCEPT !.pc = "generate", !.read = None]
               ELSE IF OnDisk(actor[a].read.deps)
               THEN [actor[a] EXCEPT !.pc = "resolved", !.read = None]
               ELSE [actor[a] EXCEPT !.pc = "drifted"])
  /\ UNCHANGED <<files, binding, mutations, passed, torn, tasks>>

WriteDrifted(a) ==
  /\ actor[a].pc = "drifted"
  /\ binding' = [binding EXCEPT ![actor[a].case] = Invalidated(actor[a].read)]
  /\ Become(a, [actor[a] EXCEPT !.pc = "generate", !.read = None])
  /\ UNCHANGED <<files, mutations, passed, torn, tasks>>

\* prepareScript goes on with a usable binding: the package is built from the files as
\* they are now, helpers included.
Reuse(a) ==
  LET c == actor[a].case IN
  /\ actor[a].pc = "resolved"
  /\ files[c] # None
  /\ \E H \in SUBSET {p \in Helpers : files[p] # None} :
       Become(a, [actor[a] EXCEPT !.pc = "execute",
                                  !.pack = [p \in {c} \cup H |-> files[p]]])
  /\ UNCHANGED <<files, binding, mutations, passed, torn, tasks>>

\* The binding does not fit the case any more, or no valid package can be built from the
\* files: setBindingStatus(..., 'invalid'), again outside the lock.
Reject(a) ==
  /\ actor[a].pc = "resolved"
  /\ Move(a, "reject")
  /\ UNCHANGED <<files, binding, mutations, passed, torn, tasks>>

RejectRead(a) ==
  LET b == binding[actor[a].case] IN
  /\ actor[a].pc = "reject" /\ b # None
  /\ Become(a, IF Usable(b) THEN [actor[a] EXCEPT !.pc = "rejecting", !.read = b]
               ELSE [actor[a] EXCEPT !.pc = "generate"])
  /\ UNCHANGED <<files, binding, mutations, passed, torn, tasks>>

RejectWrite(a) ==
  /\ actor[a].pc = "rejecting"
  /\ binding' = [binding EXCEPT ![actor[a].case] = Invalidated(actor[a].read)]
  /\ Become(a, [actor[a] EXCEPT !.pc = "generate", !.read = None])
  /\ UNCHANGED <<files, mutations, passed, torn, tasks>>

-----------------------------------------------------------------------------
(***************************************************************************)
(* generateScript and repairScript: an Agent works on a snapshot for       *)
(* minutes; saveBindingImplementation then publishes what it made, under   *)
(* the lock, unless a file it is about to write is not what it was.        *)
(***************************************************************************)
Generate(a) ==
  /\ actor[a].pc = "generate"
  /\ \E pack \in PackagesOf(actor[a].case) :
       Become(a, [actor[a] EXCEPT !.pc = "generated", !.pack = pack,
                                  !.base = [p \in DOMAIN pack |-> files[p]]])
  /\ UNCHANGED <<files, binding, mutations, passed, torn, tasks>>

RequestPublish(a) ==
  /\ actor[a].pc = "generated"
  /\ Move(a, "publish")
  /\ Enqueue(a)
  /\ UNCHANGED <<files, binding, passed, torn, tasks>>

\* Mutant: the baseline is not compared.
AnyBaseline(base) == TRUE

\* assertWorkspaceBaseline.
BaselineHolds(base) == \A p \in DOMAIN base : files[p] = base[p]

\* The other cases that use a file the package changes.
Affected(c, pack) ==
  {d \in Cases \ {c} : /\ binding[d] # None
                       /\ \E p \in DOMAIN binding[d].deps \cap DOMAIN pack :
                            binding[d].deps[p] # pack[p]}

PublishCheck(a) ==
  LET pack == actor[a].pack
      hit == Affected(actor[a].case, pack)
  IN
  /\ actor[a].pc = "publish" /\ Holds(a)
  /\ BaselineHolds(actor[a].base)
  /\ Become(a, [actor[a] EXCEPT !.pc = "write", !.todo = DOMAIN pack,
                                !.hit = [d \in hit |-> binding[d]]])
  /\ UNCHANGED <<files, binding, mutations, passed, torn, tasks>>

WriteFile(a, p) ==
  /\ actor[a].pc = "write" /\ p \in actor[a].todo
  /\ files' = [files EXCEPT ![p] = actor[a].pack[p]]
  /\ Become(a, [actor[a] EXCEPT !.todo = @ \ {p}])
  /\ UNCHANGED <<binding, mutations, passed, torn, tasks>>

\* An affected binding follows the files, and has to be validated again.
Rebased(b, pack) ==
  [deps |-> [p \in DOMAIN b.deps |-> IF p \in DOMAIN pack THEN pack[p] ELSE b.deps[p]],
   status |-> IF b.status = "invalid" THEN "invalid" ELSE "needs_validation"]

RebaseOther(a, d) ==
  /\ actor[a].pc = "write" /\ actor[a].todo = {} /\ d \in DOMAIN actor[a].hit
  /\ binding' = [binding EXCEPT ![d] = Rebased(actor[a].hit[d], actor[a].pack)]
  /\ Become(a, [actor[a] EXCEPT !.hit = [e \in DOMAIN @ \ {d} |-> @[e]]])
  /\ UNCHANGED <<files, mutations, passed, torn, tasks>>

PublishBinding(a) ==
  LET pack == actor[a].pack IN
  /\ actor[a].pc = "write" /\ actor[a].todo = {} /\ DOMAIN actor[a].hit = {}
  /\ binding' = [binding EXCEPT ![actor[a].case] =
                   [deps |-> pack, status |-> "needs_validation"]]
  /\ mutations' = Tail(mutations)
  /\ torn' = torn \ DOMAIN pack
  /\ Become(a, [actor[a] EXCEPT !.pc = "execute", !.base = <<>>])
  /\ UNCHANGED <<files, passed, tasks>>

-----------------------------------------------------------------------------
(***************************************************************************)
(* The runner executes the frozen package; after a PASS                    *)
(* validateBindingAfterPass promotes the binding, under the lock.          *)
(***************************************************************************)
Pass(a) ==
  /\ actor[a].pc = "execute"
  /\ passed' = [passed EXCEPT ![actor[a].case] = @ \cup {actor[a].pack}]
  /\ Move(a, "passed")
  /\ UNCHANGED <<files, binding, mutations, torn, tasks>>

\* A failure that is repaired.
Repair(a) ==
  /\ actor[a].pc = "execute"
  /\ Become(a, [actor[a] EXCEPT !.pc = "generate", !.pack = <<>>])
  /\ UNCHANGED <<files, binding, mutations, passed, torn, tasks>>

RequestValidation(a) ==
  /\ actor[a].pc = "passed"
  /\ Move(a, "validate")
  /\ Enqueue(a)
  /\ UNCHANGED <<files, binding, passed, torn, tasks>>

\* Mutant: a PASS validates whatever binding the case has.
ValidatesAny(b, pack) == Usable(b)

\* The binding is the implementation that was executed, and so are the files.
Validates(b, pack) == Usable(b) /\ b.deps = pack /\ OnDisk(pack)

ValidateCheck(a) ==
  LET b == binding[actor[a].case] IN
  /\ actor[a].pc = "validate" /\ Holds(a)
  /\ Validates(b, actor[a].pack)
  /\ Become(a, [actor[a] EXCEPT !.pc = "confirm", !.read = b])
  /\ UNCHANGED <<files, binding, mutations, passed, torn, tasks>>

\* persistBindingStatus writes nothing if the binding it was given is validated already.
Confirm(a) ==
  LET b == actor[a].read IN
  /\ actor[a].pc = "confirm"
  /\ binding' = IF b.status = "validated" THEN binding
                ELSE [binding EXCEPT ![actor[a].case] = [b EXCEPT !.status = "validated"]]
  /\ mutations' = Tail(mutations)
  /\ Become(a, IdleActor)
  /\ UNCHANGED <<files, passed, torn, tasks>>

-----------------------------------------------------------------------------
\* Mutant: the lock is only released on success.
KeepLock(a) == mutations

\* The finally of withMutation.
ReleaseLock(a) == IF Holds(a) THEN Tail(mutations) ELSE mutations

\* What a publication that ends here leaves behind.
Written(a) ==
  IF actor[a].pc = "write" THEN DOMAIN actor[a].pack \ actor[a].todo ELSE {}

\* Any of these steps may throw, a lock holder's too: a revision conflict, a lost lease
\* (beforePublish), a stopped worker, a file system error; and a task may simply end.
\* Waiting for the lock cannot be cut short.
GiveUp(a) ==
  /\ actor[a].pc # "idle"
  /\ actor[a].pc \in {"publish", "validate"} => Holds(a)
  /\ mutations' = ReleaseLock(a)
  /\ torn' = torn \cup Written(a)
  /\ Become(a, IdleActor)
  /\ UNCHANGED <<files, binding, passed, tasks>>

\* The process dies.
Crash ==
  /\ \E a \in Actors : actor[a].pc # "idle"
  /\ actor' = [a \in Actors |-> IdleActor]
  /\ mutations' = <<>>
  /\ torn' = torn \cup UNION {Written(a) : a \in Actors}
  /\ UNCHANGED <<files, binding, passed, tasks>>

Prepare(a) ==
  \/ ResolveRead(a) \/ ResolveCheck(a) \/ WriteDrifted(a) \/ Reuse(a)
  \/ Reject(a) \/ RejectRead(a) \/ RejectWrite(a)

Publish(a) ==
  \/ PublishCheck(a) \/ PublishBinding(a)
  \/ \E p \in Paths : WriteFile(a, p)
  \/ \E d \in Cases : RebaseOther(a, d)

Validate(a) == ValidateCheck(a) \/ Confirm(a)

Next ==
  \/ \E a \in Actors, c \in Cases : Start(a, c) \/ Resume(a, c)
  \/ \E a \in Actors :
       \/ Prepare(a) \/ Generate(a) \/ RequestPublish(a) \/ Publish(a)
       \/ Pass(a) \/ Repair(a) \/ RequestValidation(a) \/ Validate(a) \/ GiveUp(a)
  \/ Crash

Spec == Init /\ [][Next]_vars

\* The holder of the lock carries on: it waits for files and for the database, both of
\* which answer or throw.
Fairness ==
  \A a \in Actors : WF_vars(Publish(a) \/ Validate(a) \/ (Holds(a) /\ GiveUp(a)))

FairSpec == Spec /\ Fairness

-----------------------------------------------------------------------------
TypeOK ==
  /\ files \in [Paths -> Contents \cup {None}]
  /\ binding \in [Cases -> Bindings \cup {None}]
  /\ \A c \in Cases : binding[c] # None => binding[c].deps \in PackagesOf(c)
  /\ actor \in [Actors -> ActorRecords]
  /\ mutations \in Seq(Actors)
  /\ passed \in [Cases -> SUBSET Packages]
  /\ torn \in SUBSET Paths
  /\ tasks \in 0..MaxTasks

\* "A PASS can validate only the exact implementation it executed"
\* (execution-workspace-store.ts:287): whatever is published, rejected or rebased at the
\* same time, an implementation counts as validated only after it passed.
ValidatedWasExecuted ==
  \A c \in Cases :
    binding[c] # None /\ binding[c].status = "validated" => binding[c].deps \in passed[c]

\* A usable binding describes the files on disk, also those other cases have changed
\* since: only the files of a publication in progress, or of one that was cut off, may
\* differ.
BindingsDescribeFiles ==
  \A c \in Cases : Usable(binding[c]) =>
    \A p \in DOMAIN binding[c].deps :
      \/ files[p] = binding[c].deps[p]
      \/ p \in torn
      \/ \E a \in Actors : p \in Written(a)

\* What a binding claims is true: of the files it names, and of the tests it has passed.
BindingsAreTrue == TypeOK /\ ValidatedWasExecuted /\ BindingsDescribeFiles

\* No update is lost: a publication replaces a file only if it still is what the Agent
\* was given, however long ago (TEST_EXECUTION_WORKSPACE_REVISION_CONFLICT).
NoBlindOverwrite ==
  [][\A p \in Paths : files'[p] # files[p] =>
       \E a \in Actors : /\ p \in actor[a].todo \ actor'[a].todo
                         /\ actor[a].base[p] = files[p]]_vars

\* One broken publication does not block the workspace: whoever waits for the lock gets it.
EveryMutationEnds ==
  \A a \in Actors : actor[a].pc \in {"publish", "validate"} ~>
                      actor[a].pc \notin {"publish", "write", "validate", "confirm"}

\* "Drift cannot rewrite a newer Binding" (execution-workspace-store.ts:311): what a
\* binding says of the implementation changes only by a publication.
OnlyPublicationsReplace ==
  [][\A c \in Cases :
       binding[c] # None /\ binding'[c].deps # binding[c].deps =>
         \E a \in Actors : actor[a].pc = "write" /\ Holds(a)]_vars

=============================================================================
