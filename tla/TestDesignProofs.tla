------------------------- MODULE TestDesignProofs --------------------------
(***************************************************************************)
(* The safety of a test design run, for any number of workers, requests,   *)
(* attempts, generations and kinds of faults.                              *)
(*                                                                         *)
(* What is inductive is about three things at once: the order of the two   *)
(* stages (StagesInOrder), where the owner of a job may stand given the    *)
(* status of its node (OwnersAgree), and who will bring an open stage on   *)
(* (WorkIsKept).  They are stated of tables t, worker states wk and desks  *)
(* dk that need not be those of a state, because a claim recovers several  *)
(* jobs, one after the other, in a single step.                            *)
(***************************************************************************)
EXTENDS TestDesign, TLAPS

RunRows == [status : RunStatuses, repairs : 0 .. MaxRepairs, repair : RepairStatuses]
NodeRows == [Stages -> [generation : Generations, status : NodeStatuses]]
AllTables == [run : RunRows, node : NodeRows, job : [Nodes -> JobRows]]

WorkerStates == [pc : WorkerStages, node : Nodes \union {NoNode},
                 base : Candidates \union {Stale}, targets : SUBSET Nodes, error : Errors]
DeskStates == [pc : {"idle", "schedule", "enqueue", "cancel"}, targets : SUBSET Nodes]
AllWorkers == [Workers -> WorkerStates]
AllDesks == [Handlers -> DeskStates]

\* The present node of a stage, and the status of a node's stage.
Present(t, k) == [stage |-> k, generation |-> t.node[k].generation]
IsPresent(t, n) == n.generation = t.node[n.stage].generation
StatusOf(t, n) == t.node[n.stage].status

Open == {"queued", "running"}

\* A node that has a job, or is about to be given one.
Targeted(wk, dk, n) ==
    (\E w \in Workers : n \in wk[w].targets) \/ (\E h \in Handlers : n \in dk[h].targets)

Used(t, wk, dk, n) == t.job[n].status # "absent" \/ Targeted(wk, dk, n)

\* Nobody knows of generations to come, workers work on jobs, and a job that waits in the
\* queue was not asked to stop.
NodesAreKnown(t, wk, dk) ==
    /\ \A n \in Nodes : Used(t, wk, dk, n) => n.generation <= t.node[n.stage].generation
    /\ \A w \in Workers : wk[w].pc # "idle" =>
           wk[w].node \in Nodes /\ t.job[wk[w].node].status # "absent"
    /\ \A n \in Nodes : t.job[n].status = "queued" => ~t.job[n].cancelAsked

\* The repair begins after the design and ends before the run succeeds; a run is open, or
\* about to be created, exactly as long as one of its stages is open.
StagesInOrder(t, wk, dk) ==
    LET design == t.node[Design].status
        repair == t.node[Repair].status
        unused == ~Used(t, wk, dk, Present(t, Repair))
    IN  /\ design # "pending"
        /\ design # "succeeded" => repair \in {"pending", "cancelled"} /\ unused
        /\ repair = "pending" => unused
        /\ t.run.status \in Open \union {"absent"} <=> design \in Open \/ repair \in Open
        /\ t.run.status = "succeeded" =>
              /\ design = "succeeded"
              /\ repair = "succeeded" \/ (repair \in {"pending", "cancelled"} /\ unused)
              /\ t.run.repair \notin {"idle", "queued", "running"}

\* A worker that holds the live job of a present node, and where it may stand then.
Holds(t, wk, w) ==
    LET n == wk[w].node IN
    /\ wk[w].pc # "idle" /\ IsPresent(t, n)
    /\ t.job[n].status = "running" /\ t.job[n].holder = w /\ t.job[n].live

StandsRight(pc, status, cancelAsked) ==
    /\ pc \in {"start", "read", "execute", "commit", "fail"} => status # "succeeded"
    /\ pc \in {"read", "execute", "commit"} => status # "queued"
    /\ pc \in {"schedule", "enqueue", "respond", "finish"} => status \notin Open
    /\ pc = "settle" /\ ~cancelAsked => status \notin Open

OwnersAgree(t, wk) ==
    \A w \in Workers : Holds(t, wk, w) =>
        StandsRight(wk[w].pc, StatusOf(t, wk[w].node), t.job[wk[w].node].cancelAsked)

Cancelling(dk) == \E h \in Handlers : dk[h].pc = "cancel"

ScheduledBy(agent, n) == agent.pc = "schedule" \/ (agent.pc = "enqueue" /\ n \in agent.targets)

\* A stage that is open has a job, or somebody who schedules it, or is being cancelled.
StageIsKept(k, t, wk, dk, fs) ==
    LET row == t.job[Present(t, k)]
        status == t.node[k].status
    IN  /\ /\ status \in Open
           /\ row.status \in JobEnded \/ (row.status = "running" /\ row.cancelAsked)
           => Cancelling(dk)
        /\ status = "running" => row.status # "absent"
        /\ status = "queued" /\ t.run.status # "absent" /\ row.status = "absent" =>
              \/ \E h \in Handlers : ScheduledBy(dk[h], Present(t, k))
              \/ /\ k = Repair
                 /\ \/ "worker_crash" \in fs
                    \/ \E w \in Workers : ScheduledBy(wk[w], Present(t, k))

WorkIsKept(t, wk, dk, fs) == \A k \in Stages : StageIsKept(k, t, wk, dk, fs)

Calm(fs) == "query_failure" \notin fs
Reliable(fs) == fs \intersect {"api_crash", "query_failure"} = {}

Sound(t, wk, dk, fs) ==
    /\ NodesAreKnown(t, wk, dk)
    /\ Calm(fs) => StagesInOrder(t, wk, dk) /\ OwnersAgree(t, wk)
    /\ Reliable(fs) => WorkIsKept(t, wk, dk, fs)

Inv == TypeOK /\ AuditIsOfTheCases /\ Sound(Tables, worker, desk, faults)

--------------------------------------------------------------------------------
(***************************************************************************)
(* The recovery of a job.                                                   *)
(***************************************************************************)

\* Tables and rows of which one or two fields are replaced.
LEMMA TablesExcept ==
    ASSUME NEW t \in AllTables, NEW v
    PROVE  /\ [t EXCEPT !.run = v] = [run |-> v, node |-> t.node, job |-> t.job]
           /\ [t EXCEPT !.node = v] = [run |-> t.run, node |-> v, job |-> t.job]
           /\ [t EXCEPT !.job = v] = [run |-> t.run, node |-> t.node, job |-> v]
BY DEF AllTables

\* The row of a run of which one field is replaced.
LEMMA RunExcept ==
    ASSUME NEW r \in RunRows, NEW v
    PROVE  /\ [r EXCEPT !.status = v] =
                 [status |-> v, repairs |-> r.repairs, repair |-> r.repair]
           /\ [r EXCEPT !.repair = v] =
                 [status |-> r.status, repairs |-> r.repairs, repair |-> v]
BY DEF RunRows

\* The rows of the nodes of which one status is replaced.
LEMMA NodeExcept ==
    ASSUME NEW nd \in NodeRows, NEW k \in Stages, NEW status \in NodeStatuses
    PROVE  /\ [nd EXCEPT ![k].status = status] \in NodeRows
           /\ [nd EXCEPT ![k].status = status] =
                 [j \in Stages |-> IF j = k THEN [generation |-> nd[k].generation, status |-> status]
                                            ELSE nd[j]]
<1>1. nd[k] = [generation |-> nd[k].generation, status |-> nd[k].status]
  BY DEF NodeRows
<1>2. [nd[k] EXCEPT !.status = status] = [generation |-> nd[k].generation, status |-> status]
  BY <1>1
<1> QED BY <1>2 DEF NodeRows

\* The rows that are written for a job: absent, queued, queued again, ended.
LEMMA JobRowsAre ==
    /\ NoJob \in JobRows /\ Ended("over") \in JobRows /\ Ended("exhausted") \in JobRows
    /\ [NoJob EXCEPT !.status = "queued"] \in JobRows
    /\ [NoJob EXCEPT !.status = "queued"].status = "queued"
    /\ ~[NoJob EXCEPT !.status = "queued"].cancelAsked
    /\ NoJob.status = "absent"
    /\ Ended("over").status = "over" /\ Ended("exhausted").status = "exhausted"
    /\ \A row \in JobRows : /\ Unclaimed(row) \in JobRows /\ Unclaimed(row).status = "queued"
                            /\ Unclaimed(row).cancelAsked = row.cancelAsked
                            /\ Unclaimed(row).attempts = row.attempts
<1>1. ASSUME NEW status \in JobStatuses, NEW row, row = [NoJob EXCEPT !.status = status]
      PROVE  row \in JobRows /\ row.status = status /\ row.cancelAsked = FALSE
  <2>1. row = [status |-> status, attempts |-> 0, holder |-> Nobody,
               live |-> FALSE, cancelAsked |-> FALSE]
    BY <1>1 DEF NoJob
  <2> QED BY <2>1, BoundsAssumption DEF JobRows
<1>2. /\ "over" \in JobStatuses /\ "exhausted" \in JobStatuses /\ "queued" \in JobStatuses
      /\ "absent" \in JobStatuses
  BY DEF JobStatuses, JobEnded
<1>3. ASSUME NEW row \in JobRows, NEW u, u = Unclaimed(row)
      PROVE  /\ u \in JobRows /\ u.status = "queued"
             /\ u.cancelAsked = row.cancelAsked /\ u.attempts = row.attempts
  <2>1. u = [status |-> "queued", attempts |-> row.attempts, holder |-> Nobody,
             live |-> FALSE, cancelAsked |-> row.cancelAsked]
    BY <1>3 DEF Unclaimed, JobRows
  <2> QED BY <2>1, <1>2 DEF JobRows
<1>4. NoJob \in JobRows /\ NoJob.status = "absent"
  BY <1>2, BoundsAssumption DEF NoJob, JobRows
<1> QED BY <1>1, <1>2, <1>3, <1>4 DEF Ended

\* How the rows of run and node end, or are tried again.
LEMMA EndForms ==
    ASSUME NEW t \in AllTables, NEW n \in Nodes, NEW status \in RunStatuses \ {"absent"},
           NEW repair \in RepairStatuses
    PROVE  LET u == WithEnd(t, n, status, repair)
           IN  /\ u \in AllTables /\ u.job = t.job
               /\ u.run.status = status /\ u.run.repairs = t.run.repairs
               /\ u.node = [t.node EXCEPT ![n.stage].status = status]
<1> DEFINE nd == [t.node EXCEPT ![n.stage].status = status]
           rp == IF t.run.repair \in {"queued", "running"} THEN repair ELSE t.run.repair
           r1 == [t.run EXCEPT !.status = status]
           r == [status |-> status, repairs |-> t.run.repairs, repair |-> rp]
           t1 == [t EXCEPT !.node = nd]
           t2 == [t1 EXCEPT !.run = r1]
<1>1. /\ n.stage \in Stages /\ t.run \in RunRows /\ t.node \in NodeRows
      /\ t.job \in [Nodes -> JobRows] /\ status \in NodeStatuses
  BY DEF AllTables, Nodes, RunStatuses, NodeStatuses
<1>2. nd \in NodeRows
  BY <1>1, NodeExcept
<1>3. rp \in RepairStatuses
  BY <1>1 DEF RunRows
<1>4. r1 = [status |-> status, repairs |-> t.run.repairs, repair |-> t.run.repair]
  BY <1>1, RunExcept
<1>5. r1 \in RunRows /\ r \in RunRows
  BY <1>1, <1>3, <1>4 DEF RunRows
<1>6. t1 \in AllTables /\ t1.run = t.run /\ t1.node = nd /\ t1.job = t.job
  BY <1>1, <1>2, TablesExcept DEF AllTables
<1>7. t2 \in AllTables /\ t2.run = r1 /\ t2.node = nd /\ t2.job = t.job
  <2> HIDE DEF nd, r1, t1
  <2>1. t2 = [run |-> r1, node |-> t1.node, job |-> t1.job]
    BY <1>6, TablesExcept
  <2> QED BY <2>1, <1>1, <1>2, <1>5, <1>6 DEF AllTables
<1>8. WithEnd(t, n, status, repair) = [t2 EXCEPT !.run = [t2.run EXCEPT !.repair = rp]]
  BY <1>6 DEF WithEnd
<1>9. [r1 EXCEPT !.repair = rp] = r
  <2>1. r1.status = status /\ r1.repairs = t.run.repairs
    BY <1>4
  <2> HIDE DEF r1, rp
  <2> QED BY <2>1, <1>5, RunExcept
<1> HIDE DEF nd, rp, r1, t1, t2
<1>10. WithEnd(t, n, status, repair) = [run |-> r, node |-> nd, job |-> t.job]
  BY <1>7, <1>8, <1>9, TablesExcept
<1> HIDE DEF r
<1>11. r.status = status /\ r.repairs = t.run.repairs
  BY DEF r
<1> QED BY <1>1, <1>2, <1>5, <1>10, <1>11 DEF AllTables, nd

\* A stage that is tried again: its node and the run wait in the queue.
LEMMA RetryForms ==
    ASSUME NEW t \in AllTables, NEW n \in Nodes
    PROVE  LET u == WithRetry(t, n)
           IN  /\ u \in AllTables /\ u.job = t.job
               /\ u.run.status = "queued" /\ u.run.repairs = t.run.repairs
               /\ u.node = [t.node EXCEPT ![n.stage].status = "queued"]
<1> DEFINE nd == [t.node EXCEPT ![n.stage].status = "queued"]
           rp == IF n.stage = Repair THEN "queued" ELSE t.run.repair
           r1 == [t.run EXCEPT !.status = "queued"]
           r == [status |-> "queued", repairs |-> t.run.repairs, repair |-> rp]
           t1 == [t EXCEPT !.node = nd]
           t2 == [t1 EXCEPT !.run = r1]
<1>1. /\ n.stage \in Stages /\ t.run \in RunRows /\ t.node \in NodeRows
      /\ t.job \in [Nodes -> JobRows] /\ "queued" \in NodeStatuses /\ "queued" \in RunStatuses
  BY DEF AllTables, Nodes, RunStatuses, NodeStatuses
<1>2. nd \in NodeRows
  BY <1>1, NodeExcept
<1>3. rp \in RepairStatuses
  BY <1>1 DEF RunRows, RepairStatuses
<1>4. r1 = [status |-> "queued", repairs |-> t.run.repairs, repair |-> t.run.repair]
  BY <1>1, RunExcept
<1>5. r1 \in RunRows /\ r \in RunRows
  BY <1>1, <1>3, <1>4 DEF RunRows
<1>6. t1 \in AllTables /\ t1.run = t.run /\ t1.node = nd /\ t1.job = t.job
  BY <1>1, <1>2, TablesExcept DEF AllTables
<1>7. t2 \in AllTables /\ t2.run = r1 /\ t2.node = nd /\ t2.job = t.job
  <2> HIDE DEF nd, r1, t1
  <2>1. t2 = [run |-> r1, node |-> t1.node, job |-> t1.job]
    BY <1>6, TablesExcept
  <2> QED BY <2>1, <1>1, <1>2, <1>5, <1>6 DEF AllTables
<1>8. WithRetry(t, n) = [t2 EXCEPT !.run = [t2.run EXCEPT !.repair = rp]]
  BY <1>6 DEF WithRetry
<1>9. [r1 EXCEPT !.repair = rp] = r
  <2>1. r1.status = "queued" /\ r1.repairs = t.run.repairs
    BY <1>4
  <2> HIDE DEF r1, rp
  <2>2. [r1 EXCEPT !.repair = rp] = [status |-> r1.status, repairs |-> r1.repairs, repair |-> rp]
    BY <1>5, RunExcept
  <2> QED BY <2>1, <2>2
<1> HIDE DEF nd, rp, r1, t1, t2
<1>10. WithRetry(t, n) = [run |-> r, node |-> nd, job |-> t.job]
  BY <1>7, <1>8, <1>9, TablesExcept
<1> HIDE DEF r
<1>11. r.status = "queued" /\ r.repairs = t.run.repairs
  BY DEF r
<1> QED BY <1>1, <1>2, <1>5, <1>10, <1>11 DEF AllTables, nd

\* A job row that is replaced leaves run and nodes alone.
LEMMA JobForms ==
    ASSUME NEW t \in AllTables, NEW n \in Nodes, NEW row \in JobRows
    PROVE  LET u == WithJob(t, n, row)
           IN  /\ u \in AllTables /\ u.run = t.run /\ u.node = t.node
               /\ u.job = [t.job EXCEPT ![n] = row]
<1>1. WithJob(t, n, row) = [run |-> t.run, node |-> t.node, job |-> [t.job EXCEPT ![n] = row]]
  BY TablesExcept DEF WithJob
<1> QED BY <1>1 DEF AllTables

\* What recoverJobTree makes of one expired job: nothing but its end when run or node are
\* done with it, else an end or another attempt of job, node and run together.
LEMMA RecoveryForms ==
    ASSUME NEW t \in AllTables, NEW n \in Nodes
    PROVE  LET s == t.node[n.stage].status
               u == Recover(t, n)
               row == u.job[n]
           IN  /\ u \in AllTables /\ u.job = [t.job EXCEPT ![n] = row]
               /\ \/ /\ \/ n.generation # t.node[n.stage].generation
                        \/ t.run.status \in {"cancelled", "succeeded"}
                        \/ s \in {"cancelled", "succeeded"}
                     /\ u.run = t.run /\ u.node = t.node /\ row.status = "over"
                  \/ /\ n.generation = t.node[n.stage].generation
                     /\ t.run.status \notin {"cancelled", "succeeded"}
                     /\ s \notin {"cancelled", "succeeded"}
                     /\ u.run.repairs = t.run.repairs
                     /\ \/ u.run.status \in {"cancelled", "failed"} /\ row.status \in JobEnded
                        \/ /\ u.run.status = "queued" /\ row.status = "queued"
                           /\ ~row.cancelAsked
                     /\ u.node = [t.node EXCEPT ![n.stage].status = u.run.status]
<1> DEFINE o == Outcome(t, n)
           s == t.node[n.stage].status
           over == WithJob(t, n, Ended("over"))
           spent == WithJob(t, n, Ended("exhausted"))
           again == WithJob(t, n, Unclaimed(t.job[n]))
<1>1. /\ t.job \in [Nodes -> JobRows] /\ t.job[n] \in JobRows
      /\ t.job[n].cancelAsked \in BOOLEAN /\ t.job[n].attempts \in Nat
  BY BoundsAssumption DEF AllTables, JobRows
<1>2. /\ over \in AllTables /\ spent \in AllTables /\ again \in AllTables
      /\ over.run = t.run /\ over.node = t.node /\ over.job = [t.job EXCEPT ![n] = Ended("over")]
      /\ spent.run = t.run /\ spent.node = t.node
      /\ spent.job = [t.job EXCEPT ![n] = Ended("exhausted")]
      /\ again.run = t.run /\ again.node = t.node
      /\ again.job = [t.job EXCEPT ![n] = Unclaimed(t.job[n])]
  BY <1>1, JobForms, JobRowsAre
<1>3. /\ Ended("over").status = "over" /\ Ended("exhausted").status = "exhausted"
      /\ Unclaimed(t.job[n]).status = "queued"
      /\ Unclaimed(t.job[n]).cancelAsked = t.job[n].cancelAsked
  BY <1>1, JobRowsAre
<1>4. /\ o \in {"over", "cancel", "fail", "queue"}
      /\ o = "over" => \/ n.generation # t.node[n.stage].generation
                       \/ t.run.status \in {"cancelled", "succeeded"}
                       \/ s \in {"cancelled", "succeeded"}
      /\ o # "over" => /\ n.generation = t.node[n.stage].generation
                       /\ t.run.status \notin {"cancelled", "succeeded"}
                       /\ s \notin {"cancelled", "succeeded"}
      /\ o = "queue" => ~t.job[n].cancelAsked
  BY DEF Outcome, IsOver
<1>5. Recover(t, n) = CASE o = "cancel" -> WithEnd(over, n, "cancelled", "deferred")
                        [] o = "fail" -> WithEnd(spent, n, "failed", "exhausted")
                        [] o = "queue" -> WithRetry(again, n)
                        [] OTHER -> over
  BY DEF Recover
<1>6. "cancelled" \in RunStatuses \ {"absent"} /\ "failed" \in RunStatuses \ {"absent"}
      /\ "deferred" \in RepairStatuses /\ "exhausted" \in RepairStatuses
  BY DEF RunStatuses, RepairStatuses
<1> HIDE DEF o, s, over, spent, again
<1>7. CASE o = "over"
  <2>1. Recover(t, n) = over
    BY <1>5, <1>7
  <2> QED BY <2>1, <1>1, <1>2, <1>3, <1>4, <1>7 DEF s
<1>8. CASE o = "cancel"
  <2>1. Recover(t, n) = WithEnd(over, n, "cancelled", "deferred")
    BY <1>5, <1>8
  <2> DEFINE u == Recover(t, n)
  <2>2. /\ u \in AllTables /\ u.job = over.job /\ u.run.status = "cancelled"
        /\ u.run.repairs = over.run.repairs
        /\ u.node = [over.node EXCEPT ![n.stage].status = "cancelled"]
    BY <2>1, <1>2, <1>6, EndForms
  <2> HIDE DEF u
  <2>3. u.job = [t.job EXCEPT ![n] = Ended("over")] /\ u.job[n] = Ended("over")
    BY <2>2, <1>1, <1>2
  <2>4. u.job = [t.job EXCEPT ![n] = u.job[n]]
    BY <2>3
  <2> QED BY <2>2, <2>3, <2>4, <1>2, <1>3, <1>4, <1>8 DEF s, u, JobEnded
<1>9. CASE o = "fail"
  <2>1. Recover(t, n) = WithEnd(spent, n, "failed", "exhausted")
    BY <1>5, <1>9
  <2> DEFINE u == Recover(t, n)
  <2>2. /\ u \in AllTables /\ u.job = spent.job /\ u.run.status = "failed"
        /\ u.run.repairs = spent.run.repairs
        /\ u.node = [spent.node EXCEPT ![n.stage].status = "failed"]
    BY <2>1, <1>2, <1>6, EndForms
  <2> HIDE DEF u
  <2>3. u.job = [t.job EXCEPT ![n] = Ended("exhausted")] /\ u.job[n] = Ended("exhausted")
    BY <2>2, <1>1, <1>2
  <2>4. u.job = [t.job EXCEPT ![n] = u.job[n]]
    BY <2>3
  <2> QED BY <2>2, <2>3, <2>4, <1>2, <1>3, <1>4, <1>9 DEF s, u, JobEnded
<1>10. CASE o = "queue"
  <2>1. Recover(t, n) = WithRetry(again, n)
    BY <1>5, <1>10
  <2> DEFINE u == Recover(t, n)
  <2>2. /\ u \in AllTables /\ u.job = again.job /\ u.run.status = "queued"
        /\ u.run.repairs = again.run.repairs
        /\ u.node = [again.node EXCEPT ![n.stage].status = "queued"]
    BY <2>1, <1>2, <1>6, RetryForms
  <2> HIDE DEF u
  <2>3. u.job = [t.job EXCEPT ![n] = Unclaimed(t.job[n])] /\ u.job[n] = Unclaimed(t.job[n])
    BY <2>2, <1>1, <1>2
  <2>4. u.job = [t.job EXCEPT ![n] = u.job[n]]
    BY <2>3
  <2> QED BY <2>2, <2>3, <2>4, <1>2, <1>3, <1>4, <1>10 DEF s, u, JobEnded
<1> QED BY <1>4, <1>7, <1>8, <1>9, <1>10

\* Steps that keep the nodes: jobs and their holders may change, and who is about to queue
\* which job, as long as only the present queued nodes get new jobs.
LEMMA MovesKeepSound ==
    ASSUME NEW t \in AllTables, NEW wk, NEW dk, NEW fs, Sound(t, wk, dk, fs),
           NEW u \in AllTables, NEW wj, NEW dj, NEW fj, fs \subseteq fj,
           u.run = t.run, u.node = t.node,
           \A n \in Nodes : Used(u, wj, dj, n) =>
               Used(t, wk, dk, n) \/ (IsPresent(t, n) /\ StatusOf(t, n) = "queued"),
           \A w \in Workers : wj[w].pc # "idle" =>
               wj[w].node \in Nodes /\ u.job[wj[w].node].status # "absent",
           \A n \in Nodes : u.job[n].status = "queued" => ~u.job[n].cancelAsked,
           Calm(fj) => OwnersAgree(u, wj),
           Reliable(fj) => WorkIsKept(u, wj, dj, fj)
    PROVE  Sound(u, wj, dj, fj)
<1>1. /\ \A k \in Stages : Present(t, k) \in Nodes /\ Present(u, k) = Present(t, k)
                           /\ Present(t, k).stage = k
      /\ t.node \in NodeRows /\ Repair \in Stages /\ \A n \in Nodes : n.stage \in Stages
  BY DEF AllTables, NodeRows, Present, Nodes, Stages, Repair
<1>2. NodesAreKnown(u, wj, dj)
  <2>1. ASSUME NEW n \in Nodes, Used(u, wj, dj, n) PROVE n.generation <= u.node[n.stage].generation
    <3>1. n.generation <= t.node[n.stage].generation \/ n.generation = t.node[n.stage].generation
      BY <2>1 DEF Sound, NodesAreKnown, IsPresent
    <3> QED BY <3>1, <1>1 DEF NodeRows, Nodes, Generations
  <2> QED BY <2>1 DEF NodesAreKnown
<1>3. ASSUME Calm(fj) PROVE StagesInOrder(u, wj, dj)
  <2>1. StagesInOrder(t, wk, dk)
    BY <1>3 DEF Calm, Sound
  <2>2. StatusOf(t, Present(t, Repair)) = t.node[Repair].status
    BY <1>1 DEF StatusOf
  <2>3. Used(u, wj, dj, Present(t, Repair)) =>
           Used(t, wk, dk, Present(t, Repair)) \/ t.node[Repair].status = "queued"
    BY <1>1, <2>2
  <2> QED BY <2>1, <2>3, <1>1 DEF StagesInOrder
<1> QED BY <1>2, <1>3 DEF Sound

\* What has no job that is held alive can be recovered, in any order, and what the claim
\* relies on is kept.
LEMMA RecoverKeepsSound ==
    ASSUME NEW t \in AllTables, NEW wk \in AllWorkers, NEW dk \in AllDesks, NEW fs,
           Sound(t, wk, dk, fs), NEW n \in Nodes, t.job[n].status # "absent",
           ~(t.job[n].status = "running" /\ t.job[n].live)
    PROVE  Sound(Recover(t, n), wk, dk, fs)
<1> DEFINE s == StatusOf(t, n)
           u == Recover(t, n)
           row == u.job[n]
<1>1. /\ u \in AllTables /\ u.job = [t.job EXCEPT ![n] = row]
      /\ \/ /\ ~IsPresent(t, n) \/ t.run.status \in {"cancelled", "succeeded"}
               \/ s \in {"cancelled", "succeeded"}
            /\ u.run = t.run /\ u.node = t.node /\ row.status = "over"
         \/ /\ IsPresent(t, n) /\ t.run.status \notin {"cancelled", "succeeded"}
            /\ s \notin {"cancelled", "succeeded"}
            /\ \/ u.run.status \in {"cancelled", "failed"} /\ row.status \in JobEnded
               \/ u.run.status = "queued" /\ row.status = "queued" /\ ~row.cancelAsked
            /\ u.node = [t.node EXCEPT ![n.stage].status = u.run.status]
  BY RecoveryForms DEF IsPresent, StatusOf
<1> HIDE DEF u
<1>2. /\ t.node \in NodeRows /\ t.job \in [Nodes -> JobRows] /\ u.job \in [Nodes -> JobRows]
      /\ n.stage \in Stages
      /\ u.run \in RunRows /\ t.run \in RunRows
  BY <1>1 DEF AllTables, Nodes
<1>3. /\ \A m \in Nodes : m # n => u.job[m] = t.job[m]
      /\ row.status \in JobEnded \union {"queued"}
      /\ row.status = "queued" => ~row.cancelAsked
  BY <1>1, <1>2 DEF JobEnded
<1>4. \A k \in Stages : u.node[k].generation = t.node[k].generation
  <2>1. CASE u.node = t.node
    BY <2>1
  <2>2. CASE u.node = [t.node EXCEPT ![n.stage].status = u.run.status]
    BY <2>2, <1>2 DEF NodeRows
  <2> QED BY <2>1, <2>2, <1>1
<1>5. /\ \A m \in Nodes : u.job[m].status # "absent" <=> t.job[m].status # "absent"
      /\ \A m \in Nodes : Used(u, wk, dk, m) <=> Used(t, wk, dk, m)
      /\ \A k \in Stages : Present(u, k) = Present(t, k) /\ Present(t, k) \in Nodes
      /\ \A m \in Nodes : IsPresent(u, m) <=> IsPresent(t, m)
      /\ \A m \in Nodes : m.stage \in Stages
  <2>1. \A m \in Nodes : u.job[m].status # "absent" <=> t.job[m].status # "absent"
    BY <1>3 DEF JobEnded
  <2>2. \A k \in Stages : Present(t, k) \in Nodes
    BY <1>2 DEF Present, NodeRows, Nodes
  <2>3. \A m \in Nodes : m.stage \in Stages
    BY DEF Nodes
  <2> QED BY <1>4, <2>1, <2>2, <2>3 DEF Used, Present, IsPresent
<1>6. NodesAreKnown(u, wk, dk)
  BY <1>3, <1>4, <1>5 DEF NodesAreKnown, Sound
<1>7. ASSUME Calm(fs) PROVE StagesInOrder(u, wk, dk) /\ OwnersAgree(u, wk)
  <2>1. StagesInOrder(t, wk, dk) /\ OwnersAgree(t, wk)
    BY <1>7 DEF Sound
  <2>2. \A m \in Nodes : IsPresent(t, m) => m = Present(t, m.stage)
    BY DEF IsPresent, Present, Nodes
  <2>3. StagesInOrder(u, wk, dk)
    <3>1. CASE u.run = t.run /\ u.node = t.node
      BY <3>1, <2>1, <1>5 DEF StagesInOrder, Stages, Design, Repair
    <3>2. CASE ~(u.run = t.run /\ u.node = t.node)
      <4>1. /\ IsPresent(t, n) /\ t.run.status \notin {"cancelled", "succeeded"}
            /\ s \notin {"cancelled", "succeeded"}
            /\ u.run.status \in {"cancelled", "failed", "queued"}
            /\ u.node = [t.node EXCEPT ![n.stage].status = u.run.status]
        BY <1>1, <3>2
      <4>2. Used(t, wk, dk, Present(t, n.stage))
        BY <4>1, <2>2 DEF Used
      <4>3. /\ u.node[n.stage].status = u.run.status
            /\ \A k \in Stages : k # n.stage => u.node[k] = t.node[k]
        BY <4>1, <1>2 DEF NodeRows
      <4>4. CASE n.stage = Design
        BY <4>1, <4>3, <4>4, <2>1, <1>5 DEF StagesInOrder, Stages, Design, Repair, Open, StatusOf
      <4>5. CASE n.stage = Repair
        BY <4>1, <4>2, <4>3, <4>5, <2>1, <1>5
        DEF StagesInOrder, Stages, Design, Repair, Open, StatusOf
      <4> QED BY <4>4, <4>5, <1>2 DEF Stages, Design, Repair
    <3> QED BY <3>1, <3>2
  <2>4. OwnersAgree(u, wk)
    <3> SUFFICES ASSUME NEW w \in Workers, Holds(u, wk, w)
                 PROVE  StandsRight(wk[w].pc, StatusOf(u, wk[w].node), u.job[wk[w].node].cancelAsked)
      BY DEF OwnersAgree
    <3> DEFINE m == wk[w].node
    <3>1. m \in Nodes /\ m # n /\ u.job[m] = t.job[m] /\ IsPresent(t, m)
      BY <1>3, <1>5, <1>6 DEF Holds, NodesAreKnown, JobEnded
    <3>2. Holds(t, wk, w)
      BY <3>1 DEF Holds
    <3>3. StatusOf(u, m) = StatusOf(t, m)
      <4>1. IsPresent(t, n) => m.stage # n.stage
        BY <3>1, <2>2
      <4>2. u.node = t.node \/ (IsPresent(t, n) /\ u.node = [t.node EXCEPT ![n.stage].status = u.run.status])
        BY <1>1
      <4> QED BY <4>1, <4>2, <3>1, <1>2, <1>5 DEF StatusOf, NodeRows
    <3> QED BY <3>1, <3>2, <3>3, <2>1 DEF OwnersAgree
  <2> QED BY <2>3, <2>4
<1>8. ASSUME Reliable(fs) PROVE WorkIsKept(u, wk, dk, fs)
  <2>1. StagesInOrder(t, wk, dk) /\ WorkIsKept(t, wk, dk, fs)
    BY <1>8 DEF Sound, Reliable, Calm
  <2>2. \A m \in Nodes : IsPresent(t, m) => m = Present(t, m.stage)
    BY DEF IsPresent, Present, Nodes
  <2> SUFFICES ASSUME NEW k \in Stages PROVE StageIsKept(k, u, wk, dk, fs)
    BY DEF WorkIsKept
  <2> DEFINE p == Present(t, k)
  <2>3. StageIsKept(k, t, wk, dk, fs) /\ Present(u, k) = p /\ p \in Nodes /\ p.stage = k
    BY <2>1, <1>5 DEF WorkIsKept, Present
  <2>4. CASE n = p
    <3>1. n.stage = k /\ IsPresent(t, n) /\ row = u.job[p]
      BY <2>4, <2>3 DEF Present, IsPresent
    <3>2. CASE u.run = t.run /\ u.node = t.node
      <4>1. u.node[k].status \notin Open \/ row.status = "queued"
        BY <3>1, <3>2, <1>1, <2>1
        DEF StagesInOrder, Stages, Design, Repair, Open, StatusOf
      <4> QED BY <4>1, <3>1, <1>3, <2>3 DEF StageIsKept, Open, JobEnded
    <3>3. CASE ~(u.run = t.run /\ u.node = t.node)
      <4>1. /\ u.node[k].status = u.run.status
            /\ \/ u.run.status \in {"cancelled", "failed"}
               \/ u.run.status = "queued" /\ row.status = "queued"
        BY <1>1, <1>2, <3>1, <3>3 DEF NodeRows
      <4> QED BY <4>1, <3>1, <2>3 DEF StageIsKept, Open, JobEnded
    <3> QED BY <3>2, <3>3
  <2>5. CASE n # p
    <3>1. u.job[p] = t.job[p]
      BY <2>5, <2>3, <1>3
    <3>2. CASE u.run = t.run /\ u.node = t.node
      BY <3>1, <3>2, <2>3 DEF StageIsKept
    <3>3. CASE ~(u.run = t.run /\ u.node = t.node)
      <4>1. IsPresent(t, n) /\ s \notin {"cancelled", "succeeded"} /\ n.stage # k
        BY <1>1, <2>2, <2>5, <3>3
      <4>2. u.node[k] = t.node[k]
        BY <4>1, <1>1, <1>2, <3>3 DEF NodeRows
      <4>3. Used(t, wk, dk, Present(t, n.stage))
        BY <4>1, <2>2 DEF Used
      <4>4. t.node[k].status # "queued"
        BY <4>1, <4>3, <2>1, <1>2 DEF StagesInOrder, Stages, Design, Repair, StatusOf
      <4> QED BY <4>2, <4>4, <3>1, <2>3 DEF StageIsKept
    <3> QED BY <3>2, <3>3
  <2> QED BY <2>4, <2>5
<1> QED BY <1>6, <1>7, <1>8 DEF Sound, u

\* The tables of a state have their types, and a node is present when it is current.
LEMMA TablesAre ==
    ASSUME TypeOK
    PROVE  /\ Tables \in AllTables /\ worker \in AllWorkers /\ desk \in AllDesks
           /\ Tables.run = run /\ Tables.node = node /\ Tables.job = job
           /\ run \in RunRows /\ node \in NodeRows /\ job \in [Nodes -> JobRows]
           /\ \A k \in Stages : NodeOf(k) = Present(Tables, k) /\ NodeOf(k) \in Nodes
                                /\ NodeOf(k).stage = k
           /\ \A n \in Nodes : IsPresent(Tables, n) <=> Current(n)
<1>1. /\ worker \in AllWorkers /\ desk \in AllDesks
      /\ run \in RunRows /\ node \in NodeRows /\ job \in [Nodes -> JobRows]
  BY DEF TypeOK, AllWorkers, AllDesks, WorkerStates, DeskStates, RunRows, NodeRows
<1>2. Tables \in AllTables /\ Tables.run = run /\ Tables.node = node /\ Tables.job = job
  BY <1>1 DEF Tables, AllTables
<1>3. \A k \in Stages : NodeOf(k) = Present(Tables, k) /\ NodeOf(k) \in Nodes /\ NodeOf(k).stage = k
  BY <1>1, <1>2 DEF NodeOf, Present, Nodes, NodeRows
<1> QED BY <1>1, <1>2, <1>3 DEF IsPresent, Current

\* Recovering all expired jobs, one after the other, keeps the invariant, every generation,
\* and a cancelled run as it is.
LEMMA RecoveredKeepsSound ==
    ASSUME TypeOK, Sound(Tables, worker, desk, faults), NEW t \in Recovered
    PROVE  /\ t \in AllTables /\ Sound(t, worker, desk, faults)
           /\ \A k \in Stages : t.node[k].generation = node[k].generation
           /\ run.status = "cancelled" => t.run = run /\ t.node = node
<1> DEFINE P(u) == /\ u \in AllTables /\ Sound(u, worker, desk, faults)
                   /\ \A k \in Stages : u.node[k].generation = node[k].generation
                   /\ run.status = "cancelled" => u.run = run /\ u.node = node
                   /\ \A n \in Nodes : job[n].status # "absent" => u.job[n].status # "absent"
           After(u, k) == IF Expired(NodeOf(k)) THEN Recover(u, NodeOf(k)) ELSE u
           Late(u) == [u EXCEPT !.job = [n \in Nodes |-> IF Expired(n) /\ ~Current(n)
                                               THEN Recover(u, n).job[n] ELSE u.job[n]]]
<1>1. P(Tables)
  BY TablesAre
<1>2. ASSUME NEW u, P(u), NEW k \in Stages, u.job[NodeOf(k)] = job[NodeOf(k)]
      PROVE  P(After(u, k)) /\ \A n \in Nodes : n # NodeOf(k) => After(u, k).job[n] = u.job[n]
  <2>1. CASE Expired(NodeOf(k))
    <3> DEFINE n == NodeOf(k)
               v == Recover(u, n)
    <3>1. n \in Nodes /\ n.stage = k
      BY TablesAre
    <3>2. u.job[n].status # "absent" /\ ~(u.job[n].status = "running" /\ u.job[n].live)
      BY <1>2, <2>1 DEF Expired
    <3>3. Sound(v, worker, desk, faults)
      <4>1. worker \in AllWorkers /\ desk \in AllDesks
        BY TablesAre
      <4>2. u \in AllTables /\ Sound(u, worker, desk, faults)
        BY <1>2
      <4> HIDE DEF n, P
      <4> QED BY <3>1, <3>2, <4>1, <4>2, RecoverKeepsSound
    <3>4. /\ v \in AllTables /\ v.job = [u.job EXCEPT ![n] = v.job[n]]
          /\ v.job[n].status # "absent"
          /\ \/ v.run = u.run /\ v.node = u.node
             \/ /\ u.run.status \notin {"cancelled", "succeeded"}
                /\ v.node = [u.node EXCEPT ![k].status = v.run.status]
      <4>1. u \in AllTables
        BY <1>2
      <4> HIDE DEF n, P
      <4>2. /\ v \in AllTables /\ v.job = [u.job EXCEPT ![n] = v.job[n]]
            /\ \/ v.run = u.run /\ v.node = u.node /\ v.job[n].status = "over"
               \/ /\ u.run.status \notin {"cancelled", "succeeded"}
                  /\ v.job[n].status \in JobEnded \union {"queued"}
                  /\ v.node = [u.node EXCEPT ![n.stage].status = v.run.status]
        BY <3>1, <4>1, RecoveryForms
      <4> HIDE DEF v
      <4> QED BY <4>2, <3>1 DEF JobEnded
    <3> HIDE DEF v, n
    <3>5. \A j \in Stages : v.node[j].generation = u.node[j].generation
      <4>1. u.node \in NodeRows
        BY <1>2 DEF AllTables
      <4>2. CASE v.node = u.node
        BY <4>2
      <4>3. CASE v.node = [u.node EXCEPT ![k].status = v.run.status]
        BY <4>1, <4>3 DEF NodeRows
      <4> QED BY <4>2, <4>3, <3>4
    <3>6. \A m \in Nodes : m # n => v.job[m] = u.job[m]
      BY <1>2, <3>4 DEF AllTables
    <3> QED BY <1>2, <2>1, <3>3, <3>4, <3>5, <3>6 DEF v, n
  <2>2. CASE ~Expired(NodeOf(k))
    BY <1>2, <2>2
  <2> QED BY <2>1, <2>2
<1>3. \A k \in Stages, j \in Stages : k # j => P(After(After(Tables, k), j))
  <2> SUFFICES ASSUME NEW k \in Stages, NEW j \in Stages, k # j
               PROVE  P(After(After(Tables, k), j))
    OBVIOUS
  <2> DEFINE u == After(Tables, k)
  <2> HIDE DEF P
  <2>1. NodeOf(j) # NodeOf(k) /\ NodeOf(j) \in Nodes
    BY TablesAre DEF NodeOf
  <2>2. P(u) /\ u.job[NodeOf(j)] = job[NodeOf(j)]
    BY <1>1, <1>2, <2>1, TablesAre
  <2> HIDE DEF u
  <2> QED BY <1>2, <2>2 DEF u
<1>4. ASSUME NEW u, P(u) PROVE P(Late(u))
  <2> DEFINE jb == [n \in Nodes |-> IF Expired(n) /\ ~Current(n)
                                   THEN Recover(u, n).job[n] ELSE u.job[n]]
             v == Late(u)
  <2>1. ASSUME NEW n \in Nodes, Expired(n), ~Current(n)
        PROVE  Recover(u, n).job[n] \in JobRows /\ Recover(u, n).job[n].status = "over"
    <3>1. n.generation # u.node[n.stage].generation
      BY <1>4, <2>1 DEF Current, Nodes
    <3>2. Recover(u, n) \in AllTables /\ Recover(u, n).job[n].status = "over"
      BY <1>4, <3>1, RecoveryForms
    <3> QED BY <3>2 DEF AllTables
  <2>2. ASSUME NEW n \in Nodes, ~(Expired(n) /\ ~Current(n))
        PROVE  u.job[n] \in JobRows
    BY <1>4 DEF AllTables
  <2>3. jb \in [Nodes -> JobRows]
    BY <2>1, <2>2
  <2>4. v = [run |-> u.run, node |-> u.node, job |-> jb]
    BY <1>4, TablesExcept
  <2>5. v \in AllTables /\ v.run = u.run /\ v.node = u.node /\ v.job = jb
    BY <1>4, <2>3, <2>4 DEF AllTables
  <2>6. ASSUME NEW n \in Nodes
        PROVE  \/ v.job[n] = u.job[n]
               \/ ~IsPresent(u, n) /\ v.job[n].status = "over" /\ u.job[n].status # "absent"
    <3>1. CASE Expired(n) /\ ~Current(n)
      <4>1. ~IsPresent(u, n) /\ u.job[n].status # "absent"
        BY <3>1, <1>4 DEF IsPresent, Current, Nodes, Expired
      <4> QED BY <4>1, <3>1, <2>1, <2>5
    <3>2. CASE ~(Expired(n) /\ ~Current(n))
      BY <3>2, <2>5
    <3> QED BY <3>1, <3>2
  <2> HIDE DEF v, jb, Rest
  <2>7. /\ \A n \in Nodes : Used(v, worker, desk, n) => Used(u, worker, desk, n)
        /\ \A n \in Nodes : u.job[n].status # "absent" => v.job[n].status # "absent"
        /\ \A n \in Nodes : v.job[n].status = "queued" => u.job[n].status = "queued" /\ v.job[n] = u.job[n]
    BY <2>6 DEF Used
  <2>8. NodesAreKnown(u, worker, desk)
    BY <1>4 DEF Sound
  <2>9. ASSUME Calm(faults) PROVE OwnersAgree(v, worker)
    <3>1. OwnersAgree(u, worker)
      BY <1>4, <2>9 DEF Sound
    <3>2. ASSUME NEW w \in Workers, Holds(v, worker, w)
          PROVE  worker[w].node \in Nodes /\ v.job[worker[w].node] = u.job[worker[w].node]
      BY <3>2, <2>6, <2>8 DEF Holds, NodesAreKnown
    <3> QED BY <3>1, <3>2, <2>5 DEF OwnersAgree, Holds, IsPresent, StatusOf
  <2>10. ASSUME Reliable(faults) PROVE WorkIsKept(v, worker, desk, faults)
    <3>1. WorkIsKept(u, worker, desk, faults)
      BY <1>4, <2>10 DEF Sound
    <3>2. \A k \in Stages : Present(v, k) = Present(u, k) /\ v.job[Present(u, k)] = u.job[Present(u, k)]
      <4>1. \A k \in Stages : Present(u, k) \in Nodes /\ IsPresent(u, Present(u, k))
        BY <1>4 DEF AllTables, NodeRows, Present, IsPresent, Nodes
      <4> QED BY <4>1, <2>5, <2>6 DEF Present
    <3> QED BY <3>1, <3>2, <2>5 DEF WorkIsKept, StageIsKept
  <2>11. Sound(v, worker, desk, faults)
    <3>1. \A w \in Workers : worker[w].pc # "idle" =>
              worker[w].node \in Nodes /\ v.job[worker[w].node].status # "absent"
      BY <2>7, <2>8 DEF NodesAreKnown
    <3>2. \A n \in Nodes : v.job[n].status = "queued" => ~v.job[n].cancelAsked
      BY <2>7, <2>8 DEF NodesAreKnown
    <3> QED BY <1>4, <2>5, <2>7, <2>9, <2>10, <3>1, <3>2, MovesKeepSound
  <2>12. P(v)
    BY <1>4, <2>5, <2>7, <2>11
  <2> HIDE DEF P
  <2> QED BY <2>12 DEF v
<1>5. PICK u \in {After(After(Tables, Design), Repair), After(After(Tables, Repair), Design)} :
         t = Late(u)
  BY DEF Recovered
<1> HIDE DEF P, After, Rest
<1>6. P(u)
  BY <1>3, <1>5 DEF Stages, Design, Repair
<1>7. P(t)
  BY <1>4, <1>5, <1>6
<1> QED BY <1>7 DEF P

--------------------------------------------------------------------------------
(***************************************************************************)
(* Where a worker goes, and the rows of the jobs.                           *)
(***************************************************************************)

\* Worker w goes on at pc with the node it works on, and has queued no further job.
Moves(w, pc) ==
    /\ worker' \in AllWorkers
    /\ \A v \in Workers : v # w => worker'[v] = worker[v]
    /\ worker'[w].pc = pc /\ worker'[w].node = worker[w].node
    /\ worker'[w].targets \subseteq worker[w].targets

Rests(w) ==
    /\ worker' \in AllWorkers
    /\ \A v \in Workers : v # w => worker'[v] = worker[v]
    /\ worker'[w].pc = "idle" /\ worker'[w].targets = {}

LEMMA WorkerForms ==
    ASSUME TypeOK, NEW w \in Workers
    PROVE  /\ \A pc \in WorkerStages : Goto(w, pc) \/ Leave(w, pc) => Moves(w, pc)
           /\ \A pc \in WorkerStages, error \in Errors : Fail(w, pc, error) => Moves(w, pc)
           /\ Rest(w) => Rests(w)
<1>1. worker \in AllWorkers /\ worker[w] \in WorkerStates
  BY TablesAre DEF AllWorkers
<1>2. Idle \in WorkerStates /\ Idle.pc = "idle" /\ Idle.targets = {}
  BY DEF Idle, WorkerStates, WorkerStages, Errors
<1>3. ASSUME NEW pc \in WorkerStages, Goto(w, pc) PROVE Moves(w, pc)
  BY <1>1, <1>3 DEF Goto, Moves, AllWorkers, WorkerStates
<1>4. ASSUME NEW pc \in WorkerStages, Leave(w, pc) PROVE Moves(w, pc)
  BY <1>1, <1>4 DEF Leave, Moves, AllWorkers, WorkerStates
<1>5. ASSUME NEW pc \in WorkerStages, NEW error \in Errors, Fail(w, pc, error) PROVE Moves(w, pc)
  <2> DEFINE new == [Idle EXCEPT !.pc = pc, !.node = worker[w].node, !.error = error]
  <2>2. new \in WorkerStates /\ new.pc = pc /\ new.node = worker[w].node /\ new.targets = {}
    <3> DEFINE i1 == [Idle EXCEPT !.pc = pc]
               i2 == [i1 EXCEPT !.node = worker[w].node]
    <3>1. i1 \in WorkerStates /\ i1.pc = pc /\ i1.targets = {}
      BY <1>2 DEF WorkerStates
    <3> HIDE DEF i1
    <3>2. i2 \in WorkerStates /\ i2.pc = pc /\ i2.node = worker[w].node /\ i2.targets = {}
      BY <1>1, <3>1 DEF WorkerStates
    <3>3. new = [i2 EXCEPT !.error = error]
      BY DEF i1
    <3> HIDE DEF i2, new
    <3> QED BY <3>2, <3>3 DEF WorkerStates
  <2>3. worker' = [worker EXCEPT ![w] = new]
    BY <1>5 DEF Fail
  <2> HIDE DEF new
  <2> QED BY <1>1, <2>2, <2>3 DEF Moves, AllWorkers
<1>6. Rest(w) => Rests(w)
  BY <1>1, <1>2 DEF Rest, Rests, AllWorkers
<1> QED BY <1>3, <1>4, <1>5, <1>6

\* The rows that a worker or a scheduler leaves.
LEMMA JobsAre ==
    ASSUME TypeOK
    PROVE  /\ \A n \in Nodes : Enqueued(n) \in [Nodes -> JobRows]
           /\ \A w \in Workers : worker[w].node \in Nodes =>
                 /\ ReleasedJob(w) \in [Nodes -> JobRows]
                 /\ FinishedJob(w) \in [Nodes -> JobRows]
<1>1. job \in [Nodes -> JobRows]
  BY TablesAre
<1>2. ASSUME NEW n \in Nodes, NEW row \in JobRows PROVE [job EXCEPT ![n] = row] \in [Nodes -> JobRows]
  BY <1>1
<1>3. \A n \in Nodes : Enqueued(n) \in [Nodes -> JobRows]
  BY <1>1, <1>2, JobRowsAre DEF Enqueued
<1>4. ASSUME NEW w \in Workers, worker[w].node \in Nodes
      PROVE  ReleasedJob(w) \in [Nodes -> JobRows] /\ FinishedJob(w) \in [Nodes -> JobRows]
  <2> DEFINE n == worker[w].node
  <2>1. ReleasedJob(w) \in {job, [job EXCEPT ![n] = Unclaimed(job[n])]}
    BY <1>1, <1>4 DEF ReleasedJob
  <2>2. FinishedJob(w) \in {job, [job EXCEPT ![n] = Ended("over")]}
    BY DEF FinishedJob
  <2>3. Unclaimed(job[n]) \in JobRows /\ Ended("over") \in JobRows
    BY <1>1, <1>4, JobRowsAre
  <2> HIDE DEF n
  <2>4. n \in Nodes
    BY <1>4 DEF n
  <2> QED BY <1>1, <1>2, <2>1, <2>2, <2>3, <2>4
<1> QED BY <1>3, <1>4

--------------------------------------------------------------------------------
(***************************************************************************)
(* Types.                                                                   *)
(***************************************************************************)
\* A worker that is not idle has a stage whose job exists.
LEMMA WorkersWork ==
    ASSUME Inv, NEW w \in Workers, worker[w].pc # "idle"
    PROVE  /\ worker[w].node \in Nodes /\ Stage(w) \in Stages
           /\ job[worker[w].node].status # "absent"
BY TablesAre DEF Inv, Sound, NodesAreKnown, Stage, Nodes

\* The nodes after a design is committed with an automatic repair.
LEMMA RepairQueuedIs ==
    ASSUME node \in NodeRows
    PROVE  RepairQueued =
              [k \in Stages |->
                  IF k = Design
                  THEN [generation |-> node[Design].generation, status |-> "succeeded"]
                  ELSE [generation |-> IF node[Repair].status = "pending"
                                       THEN node[Repair].generation
                                       ELSE node[Repair].generation + 1,
                        status |-> "queued"]]
<1>1. Design \in Stages /\ Repair \in Stages /\ Design # Repair /\ Stages = {Design, Repair}
  BY DEF Stages, Design, Repair
<1>2. node[Repair] = [generation |-> node[Repair].generation, status |-> node[Repair].status]
      /\ node[Design] = [generation |-> node[Design].generation, status |-> node[Design].status]
  BY <1>1 DEF NodeRows
<1>3. DOMAIN RepairQueued = Stages
  BY <1>1 DEF RepairQueued, NodeRows
<1>4. RepairQueued[Design] = [node[Design] EXCEPT !.status = "succeeded"]
  BY <1>1 DEF RepairQueued, NodeRows
<1>5. RepairQueued[Repair] = IF node[Repair].status = "pending"
                             THEN [node[Repair] EXCEPT !.status = "queued"]
                             ELSE [generation |-> node[Repair].generation + 1, status |-> "queued"]
  BY <1>1 DEF RepairQueued, NodeRows
<1> QED BY <1>1, <1>2, <1>3, <1>4, <1>5 DEF RepairQueued

\* Every step keeps the types.
LEMMA TypeIsKept == ASSUME Inv, [Next]_vars PROVE TypeOK'
<1> USE DEF AtRest
<1> DEFINE Typed == /\ run \in RunRows /\ node \in NodeRows /\ candidate \in Candidates
                    /\ audit \in Candidates \union {Stale} /\ job \in [Nodes -> JobRows]
                    /\ worker \in AllWorkers /\ desk \in AllDesks
                    /\ requests \in 0 .. MaxRequests /\ faults \subseteq Faults
<1>1. TypeOK /\ Typed
  BY DEF Inv, TypeOK, RunRows, NodeRows, AllWorkers, AllDesks, WorkerStates, DeskStates
<1>2. Typed' => TypeOK'
  BY DEF TypeOK, RunRows, NodeRows, AllWorkers, AllDesks, WorkerStates, DeskStates
<1>3. \A k \in Stages, status \in NodeStatuses : [node EXCEPT ![k].status = status] \in NodeRows
  BY <1>1, NodeExcept
<1>4. \A w \in Workers : /\ \A pc : Moves(w, pc) => worker' \in AllWorkers
                         /\ Rests(w) => worker' \in AllWorkers
  BY DEF Moves, Rests
<1>5. \A kind : Fault(kind) => faults' \subseteq Faults
  BY <1>1 DEF Fault
<1>6. NewRequest => requests' \in 0 .. MaxRequests
  BY <1>1, BoundsAssumption DEF NewRequest
<1>7. /\ \A pc \in {"idle", "schedule", "enqueue", "cancel"} : \A h \in Handlers :
            [desk EXCEPT ![h].pc = pc] \in AllDesks
      /\ \A h \in Handlers, new \in DeskStates : [desk EXCEPT ![h] = new] \in AllDesks
      /\ \A h \in Handlers : desk[h] \in DeskStates
      /\ [pc |-> "idle", targets |-> {}] \in DeskStates
  BY <1>1 DEF AllDesks, DeskStates
<1>8. QueuedNodes \subseteq Nodes
  BY <1>1, TablesAre DEF QueuedNodes
<1>9. [by |-> NoNode, edits |-> 0] \in Candidates
  BY BoundsAssumption DEF Candidates
<1>10. /\ "queued" \in RunStatuses /\ "cancelled" \in RunStatuses /\ "failed" \in RunStatuses
       /\ "running" \in RunStatuses /\ "succeeded" \in RunStatuses
       /\ "idle" \in RepairStatuses /\ "queued" \in RepairStatuses /\ "running" \in RepairStatuses
       /\ \A pc \in {"fail", "settle", "finish", "start", "read", "execute", "commit", "schedule",
                     "enqueue", "respond"} : pc \in WorkerStages
       /\ "running" \in NodeStatuses /\ "failed" \in NodeStatuses /\ "succeeded" \in NodeStatuses
       /\ "queued" \in NodeStatuses /\ "cancelled" \in NodeStatuses /\ "pending" \in NodeStatuses
       /\ Design \in Stages /\ Repair \in Stages
       /\ "other" \in Errors /\ "model" \in Errors
  BY DEF RunStatuses, RepairStatuses, WorkerStages, NodeStatuses, Stages, Design, Repair, Errors
<1>11. \A status \in RunStatuses : [run EXCEPT !.status = status] \in RunRows
  BY <1>1, RunExcept DEF RunRows
<1> HIDE DEF Typed
<1>20. ASSUME NEW h \in Handlers, CreateRun(h) PROVE TypeOK'
  <2>1. run' \in RunRows
    BY <1>20, <1>10, <1>11 DEF CreateRun
  <2>2. requests' \in 0 .. MaxRequests
    BY <1>20, <1>1, <1>6 DEF CreateRun, Typed
  <2> QED BY <1>20, <2>1, <2>2, <1>1, <1>2, <1>7 DEF CreateRun, Typed
<1>21. ASSUME NEW h \in Handlers, CancelTestDesignJob(h) PROVE TypeOK'
  <2>1. job' \in [Nodes -> JobRows]
    <3>1. \A n \in Nodes : [job[n] EXCEPT !.cancelAsked = TRUE] \in JobRows /\ job[n] \in JobRows
      BY <1>1 DEF Typed, JobRows
    <3> QED BY <1>21, <3>1, JobRowsAre DEF CancelTestDesignJob
  <2> QED BY <1>21, <2>1, <1>1, <1>2, <1>6, <1>7 DEF CancelTestDesignJob, Typed
<1>22. ASSUME NEW h \in Handlers, Resynthesize(h) PROVE TypeOK'
  <2>1. run' \in RunRows
    BY <1>22, <1>10, BoundsAssumption DEF Resynthesize, RunRows
  <2>2. node' \in NodeRows
    <3>1. \A k \in Stages : node[k].generation + 1 \in Generations
      BY <1>1, <1>22, BoundsAssumption DEF Resynthesize, Typed, NodeRows, Generations
    <3> QED BY <1>22, <3>1, <1>10 DEF Resynthesize, Regenerated, NodeRows
  <2> QED BY <1>22, <2>1, <2>2, <1>1, <1>2, <1>6, <1>7, <1>9 DEF Resynthesize, Typed
<1>23. ASSUME NEW h \in Handlers, HandlerStep(h) PROVE TypeOK'
  <2>1. CASE Schedule(h)
    <3>1. [pc |-> "enqueue", targets |-> QueuedNodes] \in DeskStates
      BY <1>8 DEF DeskStates
    <3> QED BY <2>1, <3>1, <1>1, <1>2, <1>7 DEF Schedule, Typed
  <2>2. CASE Enqueue(h)
    <3>1. PICK n \in desk[h].targets :
             /\ job' = Enqueued(n)
             /\ desk' = [desk EXCEPT ![h] =
                   IF desk[h].targets = {n} THEN AtRest
                   ELSE [pc |-> "enqueue", targets |-> desk[h].targets \ {n}]]
      BY <2>2 DEF Enqueue
    <3>2. n \in Nodes /\ [pc |-> "enqueue", targets |-> desk[h].targets \ {n}] \in DeskStates
      BY <1>7, <3>1 DEF DeskStates
    <3>3. job' \in [Nodes -> JobRows]
      BY <1>1, <3>1, <3>2, JobsAre
    <3>4. desk' \in AllDesks
      BY <1>7, <3>1, <3>2
    <3> QED BY <2>2, <3>3, <3>4, <1>1, <1>2 DEF Enqueue, Typed
  <2>3. CASE CancelRun(h)
    <3>1. CancelledNodes \in NodeRows
      BY <1>1, <1>10 DEF CancelledNodes, Typed, NodeRows
    <3>2. run' \in RunRows /\ node' \in NodeRows
      BY <2>3, <3>1, <1>1, <1>10, <1>11 DEF CancelRun, Typed
    <3> QED BY <2>3, <3>2, <1>1, <1>2, <1>7 DEF CancelRun, Typed
  <2> QED BY <1>23, <2>1, <2>2, <2>3 DEF HandlerStep
<1>24. ASSUME EditCase \/ ReAudit PROVE TypeOK'
  <2>1. candidate.edits < MaxEdits => Edited \in Candidates
    BY <1>1, BoundsAssumption DEF Typed, Candidates, Edited
  <2> QED BY <1>24, <2>1, <1>1, <1>2 DEF EditCase, ReAudit, Typed
<1>25. ASSUME NEW w \in Workers, ClaimTestDesignJob(w) PROVE TypeOK'
  <2>1. PICK t \in Recovered : \E n \in Nodes :
          /\ Claimable(t, n)
          /\ run' = t.run /\ node' = t.node
          /\ job' = [t.job EXCEPT ![n] = [status |-> "running", holder |-> w, live |-> TRUE,
                                          attempts |-> t.job[n].attempts + 1,
                                          cancelAsked |-> t.job[n].cancelAsked]]
          /\ worker' = [worker EXCEPT ![w] = [Idle EXCEPT !.pc = "begin", !.node = n]]
    BY <1>25 DEF ClaimTestDesignJob
  <2>2. PICK n \in Nodes :
          /\ Claimable(t, n)
          /\ run' = t.run /\ node' = t.node
          /\ job' = [t.job EXCEPT ![n] = [status |-> "running", holder |-> w, live |-> TRUE,
                                          attempts |-> t.job[n].attempts + 1,
                                          cancelAsked |-> t.job[n].cancelAsked]]
          /\ worker' = [worker EXCEPT ![w] = [Idle EXCEPT !.pc = "begin", !.node = n]]
    BY <2>1
  <2>3. t \in AllTables
    BY <1>1, RecoveredKeepsSound DEF Inv
  <2>4. job' \in [Nodes -> JobRows]
    <3> DEFINE row == [status |-> "running", holder |-> w, live |-> TRUE,
                       attempts |-> t.job[n].attempts + 1, cancelAsked |-> t.job[n].cancelAsked]
    <3>1. t.job \in [Nodes -> JobRows] /\ t.job[n] \in JobRows
      BY <2>3 DEF AllTables
    <3>2. t.job[n].attempts + 1 \in 0 .. MaxAttempts
      BY <2>2, <3>1, BoundsAssumption DEF Claimable, JobRows
    <3>3. row \in JobRows
      BY <3>1, <3>2 DEF JobRows, JobStatuses
    <3> HIDE DEF row
    <3>4. job' = [t.job EXCEPT ![n] = row]
      BY <2>2 DEF row
    <3> QED BY <3>1, <3>3, <3>4
  <2>5. worker' \in AllWorkers
    <3>1. [Idle EXCEPT !.pc = "begin", !.node = n] \in WorkerStates
      BY DEF Idle, WorkerStates, WorkerStages, Errors
    <3> QED BY <2>2, <3>1, <1>1 DEF Typed, AllWorkers
  <2>6. run' \in RunRows /\ node' \in NodeRows
    BY <2>2, <2>3 DEF AllTables
  <2> QED BY <1>25, <2>4, <2>5, <2>6, <1>1, <1>2 DEF ClaimTestDesignJob, Typed
<1>26. ASSUME NEW w \in Workers, ClaimNothing(w) PROVE TypeOK'
  <2>1. run' \in RunRows /\ node' \in NodeRows /\ job' \in [Nodes -> JobRows]
    BY <1>1, <1>26, RecoveredKeepsSound DEF ClaimNothing, Inv, AllTables
  <2> QED BY <1>26, <2>1, <1>1, <1>2 DEF ClaimNothing, Typed
<1>27. ASSUME NEW w \in Workers, WorkerStep(w) PROVE TypeOK'
  <2>1. worker[w].pc # "idle"
    BY <1>27 DEF WorkerStep, Begin, StartNode, ReadInput, Execute, Commit, RejectCandidate, ScheduleRepair,
       EnqueueRepair, Respond, FailNode, SettleFailure, Finish, At
  <2>2. /\ worker[w].node \in Nodes /\ Stage(w) \in Stages
        /\ FinishedJob(w) \in [Nodes -> JobRows] /\ ReleasedJob(w) \in [Nodes -> JobRows]
    BY <1>1, <2>1, WorkersWork, JobsAre
  <2>3. CASE Begin(w)
    <3>1. worker' \in AllWorkers
      <4>1. Fail(w, "settle", "other") \/ Goto(w, "finish") \/ Goto(w, "start")
        BY <2>3 DEF Begin
      <4> QED BY <4>1, <1>1, <1>4, <1>10, WorkerForms
    <3> QED BY <2>3, <3>1, <1>1, <1>2 DEF Begin, KeepTables, Typed
  <2>4. CASE StartNode(w)
    <3>1. worker' \in AllWorkers
      <4>1. Goto(w, "read") \/ Fail(w, "fail", "other") \/ Fail(w, "settle", "other")
        BY <2>4 DEF StartNode, Throw, ThrowLeaseLost
      <4> QED BY <4>1, <1>1, <1>4, <1>10, WorkerForms
    <3>2. run' \in RunRows /\ node' \in NodeRows
      <4>1. ASSUME NEW repair \in RepairStatuses
            PROVE  [run EXCEPT !.status = "running", !.repair = repair] \in RunRows
        BY <1>1, <1>10 DEF Typed, RunRows
      <4>2. run.repair \in RepairStatuses
        BY <1>1 DEF Typed, RunRows
      <4>3. run' = run \/ \E repair \in RepairStatuses :
                              run' = [run EXCEPT !.status = "running", !.repair = repair]
        BY <2>4, <4>2, <1>10 DEF StartNode
      <4>4. node' = node \/ node' = [node EXCEPT ![Stage(w)].status = "running"]
        BY <2>4 DEF StartNode
      <4> QED BY <4>1, <4>3, <4>4, <2>2, <1>1, <1>3, <1>10 DEF Typed
    <3> QED BY <2>4, <3>1, <3>2, <1>1, <1>2 DEF StartNode, Typed
  <2>5. CASE ReadInput(w)
    <3>1. worker' \in AllWorkers
      <4>1. CASE Fail(w, "fail", "other")
        BY <4>1, <1>1, <1>4, <1>10, WorkerForms
      <4>2. CASE worker' = [worker EXCEPT ![w].pc = "execute",
                              ![w].base = IF Stage(w) = Repair THEN candidate ELSE worker[w].base]
        BY <4>2, <1>1, <1>10 DEF Typed, AllWorkers, WorkerStates
      <4> QED BY <2>5, <4>1, <4>2 DEF ReadInput, Throw
    <3> QED BY <2>5, <3>1, <1>1, <1>2 DEF ReadInput, KeepTables, Typed
  <2>6. CASE Execute(w) \/ RejectCandidate(w) \/ Respond(w)
    <3>1. worker' \in AllWorkers
      <4>1. \/ Goto(w, "commit") \/ Goto(w, "finish")
            \/ \E error \in {"model", "other"} : Fail(w, "fail", error)
            \/ Fail(w, "settle", "other")
        BY <2>6 DEF Execute, RejectCandidate, Respond, Throw, ThrowLeaseLost
      <4> QED BY <4>1, <1>1, <1>4, <1>10, WorkerForms
    <3> QED BY <2>6, <3>1, <1>1, <1>2 DEF Execute, RejectCandidate, Respond, KeepTables, Typed
  <2>7. CASE Commit(w)
    <3>1. worker' \in AllWorkers
      BY <2>7, <1>1, <1>4, <1>10, WorkerForms DEF Commit
    <3>2. candidate' \in Candidates /\ audit' \in Candidates
      <4>1. Stage(w) = Repair => worker[w].base \in Candidates
        BY <2>7, <1>1 DEF Commit, Committable, Typed
      <4>2. Written(w) \in Candidates
        BY <4>1, <2>2, BoundsAssumption DEF Written, Candidates
      <4> QED BY <2>7, <4>2 DEF Commit
    <3>3. CASE /\ run.repairs < MaxRepairs /\ RepairQueued[Repair].generation <= MaxGenerations
               /\ node' = RepairQueued
               /\ run' = [status |-> "queued", repairs |-> run.repairs + 1, repair |-> "queued"]
      <4>1. run' \in RunRows
        BY <3>3, <1>1, <1>10, BoundsAssumption DEF Typed, RunRows
      <4>2. node' \in NodeRows
        <5>1. node \in NodeRows
          BY <1>1 DEF Typed
        <5> DEFINE Row == [generation : Generations, status : NodeStatuses]
                   done == [generation |-> node[Design].generation, status |-> "succeeded"]
                   next == [generation |-> IF node[Repair].status = "pending"
                                           THEN node[Repair].generation
                                           ELSE node[Repair].generation + 1,
                            status |-> "queued"]
        <5>2. node' = [k \in Stages |-> IF k = Design THEN done ELSE next]
          BY <3>3, <5>1, RepairQueuedIs
        <5>3. done \in Row
          BY <5>1, <1>10 DEF NodeRows
        <5>4. next \in Row
          <6>1. next = node'[Repair] /\ next.generation = RepairQueued[Repair].generation
            BY <3>3, <5>2, <1>10 DEF Design, Repair
          <6>2. next.generation \in Generations
            BY <6>1, <5>1, <3>3, <1>10, BoundsAssumption DEF NodeRows, Generations
          <6> QED BY <6>2, <1>10
        <5> HIDE DEF done, next
        <5> QED BY <5>2, <5>3, <5>4 DEF NodeRows
      <4> QED BY <2>7, <3>1, <3>2, <4>1, <4>2, <1>1, <1>2 DEF Commit, Typed
    <3>4. CASE /\ node' = [node EXCEPT ![Stage(w)].status = "succeeded"]
               /\ \E repair \in SettledRepairs :
                     run' = [run EXCEPT !.status = "succeeded", !.repair = repair]
      <4>1. SettledRepairs \subseteq RepairStatuses
        BY DEF SettledRepairs, RepairStatuses
      <4>2. run' \in RunRows
        BY <3>4, <4>1, <1>1, <1>10 DEF Typed, RunRows
      <4>3. node' \in NodeRows
        BY <3>4, <2>2, <1>3, <1>10
      <4> QED BY <2>7, <3>1, <3>2, <4>2, <4>3, <1>1, <1>2 DEF Commit, Typed
    <3> QED BY <2>7, <3>3, <3>4 DEF Commit
  <2>8. CASE ScheduleRepair(w)
    <3>1. worker' \in AllWorkers
      <4>1. PICK pc \in WorkerStages :
               worker' = [worker EXCEPT ![w].pc = pc, ![w].targets = QueuedNodes]
        BY <2>8, <1>10 DEF ScheduleRepair
      <4> QED BY <4>1, <1>1, <1>8 DEF Typed, AllWorkers, WorkerStates
    <3> QED BY <2>8, <3>1, <1>1, <1>2 DEF ScheduleRepair, KeepTables, Typed
  <2>9. CASE EnqueueRepair(w)
    <3>1. PICK n \in worker[w].targets :
             /\ job' = Enqueued(n)
             /\ worker' = [worker EXCEPT ![w].targets = worker[w].targets \ {n},
                   ![w].pc = IF worker[w].targets = {n} THEN "respond" ELSE "enqueue"]
      BY <2>9, <1>1 DEF EnqueueRepair, Typed, AllWorkers
    <3>2. n \in Nodes
      BY <3>1, <1>1 DEF Typed, AllWorkers, WorkerStates
    <3>3. worker' \in AllWorkers
      BY <3>1, <1>1, <1>10 DEF Typed, AllWorkers, WorkerStates
    <3>4. job' \in [Nodes -> JobRows]
      BY <1>1, <3>1, <3>2, JobsAre
    <3> QED BY <2>9, <3>3, <3>4, <1>1, <1>2 DEF EnqueueRepair, Typed
  <2>10. CASE FailNode(w)
    <3>1. worker' \in AllWorkers
      BY <2>10, <1>1, <1>4, <1>10, WorkerForms DEF FailNode
    <3>2. FailedNode(w) \in Stages
      BY <2>2, <1>10 DEF FailedNode
    <3>3. run' \in RunRows /\ node' \in NodeRows
      BY <2>10, <3>2, <1>1, <1>3, <1>10, <1>11 DEF FailNode, Typed
    <3> QED BY <2>10, <3>1, <3>3, <1>1, <1>2 DEF FailNode, Typed
  <2>11. CASE SettleFailure(w) \/ Finish(w)
    <3>1. worker' \in AllWorkers
      BY <2>11, <1>1, <1>4, WorkerForms DEF SettleFailure, Finish
    <3>2. job' \in [Nodes -> JobRows]
      BY <2>2, <2>11 DEF SettleFailure, Finish
    <3> QED BY <2>11, <3>1, <3>2, <1>1, <1>2 DEF SettleFailure, Finish, Typed
  <2> QED BY <1>27, <2>3, <2>4, <2>5, <2>6, <2>7, <2>8, <2>9, <2>10, <2>11 DEF WorkerStep
<1>28. ASSUME NEW w \in Workers, SettleStoppedWork(w) \/ StopWorker(w) PROVE TypeOK'
  <2>1. worker[w].node \in Nodes
    BY <1>28, WorkersWork DEF SettleStoppedWork, StopWorker, Checked
  <2>2. worker' \in AllWorkers
    BY <1>28, <1>1, <1>4, WorkerForms DEF SettleStoppedWork, StopWorker
  <2>3. job' \in [Nodes -> JobRows]
    BY <1>28, <1>1, <2>1, JobsAre DEF SettleStoppedWork, StopWorker, Typed
  <2>4. faults' \subseteq Faults
    BY <1>28, <1>1, <1>5 DEF SettleStoppedWork, StopWorker, Typed
  <2> QED BY <1>28, <2>2, <2>3, <2>4, <1>1, <1>2 DEF SettleStoppedWork, StopWorker, Typed
<1>29. ASSUME NEW w \in Workers, CrashWorker(w) \/ FailToRead(w) \/ FailToEnqueue(w) \/ LoseFailure(w)
       PROVE  TypeOK'
  <2>1. worker' \in AllWorkers
    <3>1. Rest(w) \/ Goto(w, "settle") \/ Fail(w, "settle", "other") \/ Fail(w, "fail", "other")
      BY <1>29 DEF CrashWorker, FailToRead, FailToEnqueue, LoseFailure, Throw
    <3> QED BY <3>1, <1>1, <1>4, <1>10, WorkerForms
  <2>2. faults' \subseteq Faults
    BY <1>29, <1>5 DEF CrashWorker, FailToRead, FailToEnqueue, LoseFailure
  <2> QED BY <1>29, <2>1, <2>2, <1>1, <1>2
      DEF CrashWorker, FailToRead, FailToEnqueue, LoseFailure, KeepTables, Typed
<1>30. ASSUME NEW n \in Nodes, LeaseExpires(n) \/ PauseWorker(n) PROVE TypeOK'
  <2>1. job' \in [Nodes -> JobRows]
    BY <1>30, <1>1 DEF LeaseExpires, PauseWorker, Typed, JobRows
  <2>2. faults' \subseteq Faults
    BY <1>30, <1>1, <1>5 DEF LeaseExpires, PauseWorker, Typed
  <2> QED BY <1>30, <2>1, <2>2, <1>1, <1>2 DEF LeaseExpires, PauseWorker, Typed
<1>31. ASSUME CrashApi PROVE TypeOK'
  <2>1. desk' \in AllDesks
    BY <1>31, <1>7 DEF CrashApi, AllDesks
  <2> QED BY <1>31, <2>1, <1>1, <1>2, <1>5 DEF CrashApi, KeepTables, Typed
<1>32. ASSUME UNCHANGED vars PROVE TypeOK'
  BY <1>32, <1>1, <1>2 DEF vars, Typed
<1> QED BY <1>20, <1>21, <1>22, <1>23, <1>24, <1>25, <1>26, <1>27, <1>28, <1>29, <1>30, <1>31, <1>32
    DEF Next

--------------------------------------------------------------------------------
(***************************************************************************)
(* Every step keeps what Sound says.                                        *)
(***************************************************************************)
SoundNow == Sound(Tables, worker, desk, faults)

\* The tables of the next state are those of the primed variables.
LEMMA SoundNext ==
    ASSUME Sound([run |-> run', node |-> node', job |-> job'], worker', desk', faults')
    PROVE  SoundNow'
BY DEF SoundNow, Tables

\* A step of a worker that only goes on, fails, or rests.
LEMMA QuietStep ==
    ASSUME Inv, TypeOK', NEW w \in Workers, worker[w].pc # "idle",
           \A v \in Workers : v # w => worker'[v] = worker[v],
           worker'[w].targets \subseteq worker[w].targets,
           worker'[w].pc = "idle" \/ worker'[w].node = worker[w].node,
           UNCHANGED <<run, node, job, desk>>, faults \subseteq faults',
           Calm(faults') /\ Holds(Tables, worker, w) /\ worker'[w].pc # "idle" =>
               StandsRight(worker'[w].pc, StatusOf(Tables, worker[w].node),
                           job[worker[w].node].cancelAsked),
           Reliable(faults') /\ worker[w].pc \in {"schedule", "enqueue"} =>
               "worker_crash" \in faults'
    PROVE  SoundNow'
<1> DEFINE wj == worker'
           fj == faults'
<1>1. /\ Tables \in AllTables /\ Sound(Tables, worker, desk, faults) /\ NodesAreKnown(Tables, worker, desk)
      /\ Tables.job = job
  BY TablesAre DEF Inv, Sound
<1>2. \A n \in Nodes : Used(Tables, wj, desk, n) => Used(Tables, worker, desk, n)
  <2>1. \A v \in Workers : wj[v].targets \subseteq worker[v].targets
    OBVIOUS
  <2> HIDE DEF wj
  <2> QED BY <2>1 DEF Used, Targeted
<1>3. \A v \in Workers : wj[v].pc # "idle" =>
          worker[v].pc # "idle" /\ wj[v].node = worker[v].node
  OBVIOUS
<1>4. \A v \in Workers : wj[v].pc # "idle" =>
          wj[v].node \in Nodes /\ Tables.job[wj[v].node].status # "absent"
  BY <1>1, <1>3 DEF NodesAreKnown
<1>5. ASSUME Calm(fj) PROVE OwnersAgree(Tables, wj)
  <2>1. OwnersAgree(Tables, worker)
    BY <1>1, <1>5 DEF Sound, Calm
  <2> SUFFICES ASSUME NEW v \in Workers, Holds(Tables, wj, v)
               PROVE  StandsRight(wj[v].pc, StatusOf(Tables, wj[v].node),
                                  Tables.job[wj[v].node].cancelAsked)
    BY DEF OwnersAgree
  <2>2. Holds(Tables, worker, v) /\ wj[v].node = worker[v].node /\ wj[v].pc # "idle"
    BY <1>3 DEF Holds
  <2>3. CASE v = w
    BY <1>1, <1>5, <2>2, <2>3
  <2>4. CASE v # w
    BY <2>1, <2>2, <2>4 DEF OwnersAgree
  <2> QED BY <2>3, <2>4
<1>6. ASSUME Reliable(fj) PROVE WorkIsKept(Tables, wj, desk, fj)
  <2>1. WorkIsKept(Tables, worker, desk, faults)
    BY <1>1, <1>6 DEF Sound, Reliable
  <2> SUFFICES ASSUME NEW k \in Stages PROVE StageIsKept(k, Tables, wj, desk, fj)
    BY DEF WorkIsKept
  <2>2. StageIsKept(k, Tables, worker, desk, faults)
    BY <2>1 DEF WorkIsKept
  <2>3. ASSUME NEW v \in Workers, ScheduledBy(worker[v], Present(Tables, k))
        PROVE  "worker_crash" \in fj \/ ScheduledBy(wj[v], Present(Tables, k))
    BY <2>3, <1>6 DEF ScheduledBy
  <2>4. "worker_crash" \in faults => "worker_crash" \in fj
    OBVIOUS
  <2> HIDE DEF wj, fj
  <2> QED BY <2>2, <2>3, <2>4 DEF StageIsKept
<1>7. \A n \in Nodes : Tables.job[n].status = "queued" => ~Tables.job[n].cancelAsked
  BY <1>1 DEF NodesAreKnown
<1>8. Sound(Tables, wj, desk, fj)
  <2>1. faults \subseteq fj
    OBVIOUS
  <2> HIDE DEF wj, fj
  <2>2. \A n \in Nodes : Used(Tables, wj, desk, n) =>
          \/ Used(Tables, worker, desk, n)
          \/ IsPresent(Tables, n) /\ StatusOf(Tables, n) = "queued"
    BY <1>2
  <2> QED BY <1>1, <1>4, <1>5, <1>6, <1>7, <2>1, <2>2, MovesKeepSound
<1>9. Sound([run |-> run', node |-> node', job |-> job'], worker', desk', faults')
  BY <1>8 DEF Tables
<1> QED BY <1>9, SoundNext

\* The job of a worker that rests was queued again or ended, if it still was its own.
LEMMA SettleStep ==
    ASSUME Inv, TypeOK', NEW w \in Workers, worker[w].pc \notin {"idle", "schedule", "enqueue"},
           Rests(w), UNCHANGED <<run, node, desk>>, faults \subseteq faults',
           job' \in {job, ReleasedJob(w), FinishedJob(w)},
           Reliable(faults') /\ job' # job /\ job' # ReleasedJob(w) /\ Owns(w)
               /\ Current(worker[w].node) /\ StatusOf(Tables, worker[w].node) \in Open =>
               Cancelling(desk)
    PROVE  SoundNow'
<1> DEFINE u == [run |-> run, node |-> node, job |-> job']
           wj == worker'
           fj == faults'
           n == worker[w].node
<1>1. /\ Tables \in AllTables /\ Sound(Tables, worker, desk, faults) /\ NodesAreKnown(Tables, worker, desk)
      /\ Tables.job = job /\ Tables.run = run /\ Tables.node = node
      /\ job \in [Nodes -> JobRows] /\ job' \in [Nodes -> JobRows]
      /\ run \in RunRows /\ node \in NodeRows
  BY TablesAre DEF Inv, Sound, TypeOK
<1>2. u \in AllTables /\ u.run = run /\ u.node = node /\ u.job = job'
  BY <1>1 DEF AllTables
<1>3. n \in Nodes /\ job[n].status # "absent" /\ job[n] \in JobRows
  BY <1>1, WorkersWork
<1>4. \/ job' = job
      \/ /\ Owns(w) /\ job' = [job EXCEPT ![n] = Unclaimed(job[n])] /\ ~job[n].cancelAsked
         /\ job' = ReleasedJob(w)
      \/ Owns(w) /\ job' = [job EXCEPT ![n] = Ended("over")] /\ job' = FinishedJob(w)
  <2>1. ReleasedJob(w) = job
        \/ (Owns(w) /\ ~job[n].cancelAsked /\ ReleasedJob(w) = [job EXCEPT ![n] = Unclaimed(job[n])])
    BY DEF ReleasedJob
  <2>2. FinishedJob(w) = job \/ (Owns(w) /\ FinishedJob(w) = [job EXCEPT ![n] = Ended("over")])
    BY DEF FinishedJob
  <2> QED BY <2>1, <2>2
<1>5. /\ \A m \in Nodes : m # n => job'[m] = job[m]
      /\ \/ job'[n] = job[n]
         \/ Owns(w) /\ job'[n].status = "queued" /\ ~job'[n].cancelAsked
         \/ Owns(w) /\ job' # job /\ job' # ReleasedJob(w) /\ job'[n].status = "over"
  <2>1. Unclaimed(job[n]).status = "queued" /\ Unclaimed(job[n]).cancelAsked = job[n].cancelAsked
        /\ Ended("over").status = "over"
    BY <1>3, JobRowsAre
  <2>2. Owns(w) => job[n].status = "running"
    BY DEF Owns
  <2>3. CASE job' = job
    BY <2>3
  <2>4. CASE Owns(w) /\ job' = [job EXCEPT ![n] = Unclaimed(job[n])] /\ ~job[n].cancelAsked
    BY <1>1, <1>3, <2>1, <2>4
  <2>5. CASE Owns(w) /\ job' = [job EXCEPT ![n] = Ended("over")] /\ job' = FinishedJob(w)
    <3>1. job'[n] = Ended("over") /\ \A m \in Nodes : m # n => job'[m] = job[m]
      BY <1>1, <1>3, <2>5
    <3>2. job' # job
      BY <3>1, <2>1, <2>2, <2>5
    <3>3. job' # ReleasedJob(w)
      <4>1. ReleasedJob(w) = job \/ ReleasedJob(w) = [job EXCEPT ![n] = Unclaimed(job[n])]
        BY DEF ReleasedJob
      <4>2. [job EXCEPT ![n] = Unclaimed(job[n])][n] = Unclaimed(job[n])
        BY <1>1, <1>3
      <4> QED BY <4>1, <4>2, <3>1, <3>2, <2>1
    <3> QED BY <3>1, <3>2, <3>3, <2>1, <2>5
  <2> QED BY <1>4, <2>3, <2>4, <2>5
<1>6. \A v \in Workers : wj[v].pc # "idle" => v # w /\ wj[v] = worker[v]
  BY DEF Rests
<1>7. \A m \in Nodes : Used(u, wj, desk, m) => Used(Tables, worker, desk, m)
  <2>1. \A v \in Workers : wj[v].targets \subseteq worker[v].targets
    BY DEF Rests
  <2>2. \A m \in Nodes : job'[m].status # "absent" => job[m].status # "absent"
    BY <1>3, <1>5
  <2> HIDE DEF wj, u
  <2> QED BY <1>1, <1>2, <2>1, <2>2 DEF Used, Targeted
<1>8. \A v \in Workers : wj[v].pc # "idle" =>
          wj[v].node \in Nodes /\ u.job[wj[v].node].status # "absent"
  <2>1. \A m \in Nodes : job[m].status # "absent" => job'[m].status # "absent"
    BY <1>5
  <2> QED BY <1>1, <1>2, <1>6, <2>1 DEF NodesAreKnown
<1>9. ASSUME Calm(fj) PROVE OwnersAgree(u, wj)
  <2>1. OwnersAgree(Tables, worker)
    BY <1>1, <1>9 DEF Sound, Calm
  <2> SUFFICES ASSUME NEW v \in Workers, Holds(u, wj, v)
               PROVE  StandsRight(wj[v].pc, StatusOf(u, wj[v].node), u.job[wj[v].node].cancelAsked)
    BY DEF OwnersAgree
  <2>2. v # w /\ wj[v] = worker[v] /\ worker[v].node \in Nodes
    BY <1>6, <1>8 DEF Holds
  <2>3. job'[worker[v].node] = job[worker[v].node]
    BY <1>2, <1>5, <2>2 DEF Holds
  <2>4. Holds(Tables, worker, v)
    BY <1>1, <1>2, <2>2, <2>3 DEF Holds, IsPresent
  <2> QED BY <1>1, <1>2, <2>1, <2>2, <2>3, <2>4 DEF OwnersAgree, StatusOf
<1>10. ASSUME Reliable(fj) PROVE WorkIsKept(u, wj, desk, fj)
  <2>1. WorkIsKept(Tables, worker, desk, faults)
    BY <1>1, <1>10 DEF Sound, Reliable
  <2> SUFFICES ASSUME NEW k \in Stages PROVE StageIsKept(k, u, wj, desk, fj)
    BY DEF WorkIsKept
  <2> DEFINE p == Present(Tables, k)
  <2>2. StageIsKept(k, Tables, worker, desk, faults)
    BY <2>1 DEF WorkIsKept
  <2>3. Present(u, k) = p /\ p \in Nodes
    BY <1>1, <1>2, TablesAre DEF Present, Inv
  <2>4. \A v \in Workers : ScheduledBy(worker[v], p) => ScheduledBy(wj[v], p)
    BY <1>6 DEF ScheduledBy, Rests
  <2>5. "worker_crash" \in faults => "worker_crash" \in fj
    OBVIOUS
  <2>6. \/ job'[p] = job[p]
        \/ job'[p].status = "queued"
        \/ job'[p].status = "over" /\ (node[k].status \in Open => Cancelling(desk))
    <3>1. p = n => Current(n) /\ StatusOf(Tables, n) = node[k].status
      BY <1>1 DEF Present, Current, StatusOf
    <3> QED BY <1>5, <1>10, <2>3, <3>1
  <2> HIDE DEF wj, fj, u, p, n
  <2> QED BY <1>1, <1>2, <2>2, <2>3, <2>4, <2>5, <2>6 DEF StageIsKept, p, JobEnded, Open
<1>11. \A m \in Nodes : u.job[m].status = "queued" => ~u.job[m].cancelAsked
  BY <1>1, <1>2, <1>5 DEF NodesAreKnown
<1>12. Sound(u, wj, desk, fj)
  <2>1. faults \subseteq fj
    OBVIOUS
  <2>2. u.run = Tables.run /\ u.node = Tables.node
    BY <1>1, <1>2
  <2> HIDE DEF wj, fj, u
  <2> QED BY <1>1, <1>2, <1>7, <1>8, <1>9, <1>10, <1>11, <2>1, <2>2, MovesKeepSound
<1> QED BY <1>12, SoundNext

\* A node that was going to be queued has a job now.
LEMMA EnqueueStep ==
    ASSUME Inv, TypeOK', NEW n \in Nodes, Targeted(worker, desk, n), job' = Enqueued(n),
           UNCHANGED <<run, node, faults>>,
           \A v \in Workers : worker'[v].targets \subseteq worker[v].targets,
           \A h \in Handlers : desk'[h].targets \subseteq desk[h].targets,
           \A v \in Workers : worker'[v].pc # "idle" =>
               /\ worker[v].pc # "idle" /\ worker'[v].node = worker[v].node
               /\ worker'[v].pc = worker[v].pc
                  \/ (worker[v].pc = "enqueue" /\ worker'[v].pc = "respond"),
           Cancelling(desk) => Cancelling(desk'),
           \A v \in Workers, m \in Nodes :
               m # n /\ ScheduledBy(worker[v], m) => ScheduledBy(worker'[v], m),
           \A h \in Handlers, m \in Nodes :
               m # n /\ ScheduledBy(desk[h], m) => ScheduledBy(desk'[h], m)
    PROVE  SoundNow'
<1> DEFINE u == [run |-> run, node |-> node, job |-> job']
           wj == worker'
           dj == desk'
<1>1. /\ Tables \in AllTables /\ Sound(Tables, worker, desk, faults) /\ NodesAreKnown(Tables, worker, desk)
      /\ Tables.job = job /\ Tables.run = run /\ Tables.node = node
      /\ job \in [Nodes -> JobRows] /\ job' \in [Nodes -> JobRows]
      /\ run \in RunRows /\ node \in NodeRows
  BY TablesAre DEF Inv, Sound, TypeOK
<1>2. u \in AllTables /\ u.run = run /\ u.node = node /\ u.job = job'
  BY <1>1 DEF AllTables
<1>3. /\ \A m \in Nodes : m # n => job'[m] = job[m]
      /\ \/ job'[n] = job[n] /\ job[n].status \in {"queued", "running"}
         \/ /\ job'[n].status = "queued" /\ ~job'[n].cancelAsked
            /\ job[n].status \in {"absent"} \union JobEnded
  <2>1. CASE job[n].status \in {"absent"} \union JobEnded
    <3>1. job' = [job EXCEPT ![n] = [NoJob EXCEPT !.status = "queued"]]
      BY <2>1 DEF Enqueued
    <3>2. job'[n] = [NoJob EXCEPT !.status = "queued"] /\ \A m \in Nodes : m # n => job'[m] = job[m]
      BY <1>1, <3>1
    <3> QED BY <2>1, <3>2, JobRowsAre
  <2>2. CASE job[n].status \notin {"absent"} \union JobEnded
    BY <1>1, <2>2 DEF Enqueued, JobRows, JobStatuses
  <2> QED BY <2>1, <2>2
<1> HIDE DEF wj, dj
<1>4. \A m \in Nodes : Used(u, wj, dj, m) => Used(Tables, worker, desk, m)
  <2>1. \A m \in Nodes : m # n => job'[m] = job[m]
    BY <1>3
  <2>2. \A m \in Nodes : Targeted(wj, dj, m) => Targeted(worker, desk, m)
    BY DEF Targeted, wj, dj
  <2> QED BY <1>1, <1>2, <2>1, <2>2 DEF Used
<1>5. \A v \in Workers : wj[v].pc # "idle" =>
          wj[v].node \in Nodes /\ u.job[wj[v].node].status # "absent"
  <2>1. \A m \in Nodes : job[m].status # "absent" => job'[m].status # "absent"
    BY <1>3
  <2> QED BY <1>1, <1>2, <2>1 DEF NodesAreKnown, wj
<1>6. ASSUME Calm(faults) PROVE OwnersAgree(u, wj)
  <2>1. OwnersAgree(Tables, worker)
    BY <1>1, <1>6 DEF Sound
  <2> SUFFICES ASSUME NEW v \in Workers, Holds(u, wj, v)
               PROVE  StandsRight(wj[v].pc, StatusOf(u, wj[v].node), u.job[wj[v].node].cancelAsked)
    BY DEF OwnersAgree
  <2>2. /\ worker[v].pc # "idle" /\ wj[v].node = worker[v].node /\ worker[v].node \in Nodes
        /\ \/ wj[v].pc = worker[v].pc
           \/ worker[v].pc = "enqueue" /\ wj[v].pc = "respond"
    BY <1>5 DEF Holds, wj
  <2>3. job'[worker[v].node] = job[worker[v].node]
    BY <1>2, <1>3, <2>2 DEF Holds
  <2>4. Holds(Tables, worker, v)
    BY <1>1, <1>2, <2>2, <2>3 DEF Holds, IsPresent
  <2>5. StandsRight(worker[v].pc, StatusOf(Tables, worker[v].node), job[worker[v].node].cancelAsked)
    BY <1>1, <2>1, <2>4 DEF OwnersAgree
  <2>6. StatusOf(u, wj[v].node) = StatusOf(Tables, worker[v].node)
        /\ u.job[wj[v].node].cancelAsked = job[worker[v].node].cancelAsked
    BY <1>1, <1>2, <2>2, <2>3 DEF StatusOf
  <2> HIDE DEF u
  <2> QED BY <2>2, <2>5, <2>6 DEF StandsRight
<1>7. ASSUME Reliable(faults) PROVE WorkIsKept(u, wj, dj, faults)
  <2>1. WorkIsKept(Tables, worker, desk, faults)
    BY <1>1, <1>7 DEF Sound
  <2> SUFFICES ASSUME NEW k \in Stages PROVE StageIsKept(k, u, wj, dj, faults)
    BY DEF WorkIsKept
  <2> DEFINE p == Present(Tables, k)
  <2>2. StageIsKept(k, Tables, worker, desk, faults)
    BY <2>1 DEF WorkIsKept
  <2>3. Present(u, k) = p /\ p \in Nodes
    BY <1>1, <1>2, TablesAre DEF Present, Inv
  <2>4. CASE p = n
    <3>1. \/ job'[p] = job[p] /\ job[p].status \in {"queued", "running"}
          \/ job'[p].status = "queued"
      BY <1>3, <2>4
    <3>2. Cancelling(desk) => Cancelling(dj)
      BY DEF dj
    <3> HIDE DEF u, p
    <3> QED BY <1>1, <1>2, <2>2, <2>3, <3>1, <3>2 DEF StageIsKept, p, JobEnded
  <2>5. CASE p # n
    <3>1. /\ \A v \in Workers : ScheduledBy(worker[v], p) => ScheduledBy(wj[v], p)
          /\ \A h \in Handlers : ScheduledBy(desk[h], p) => ScheduledBy(dj[h], p)
          /\ Cancelling(desk) => Cancelling(dj)
          /\ job'[p] = job[p]
      BY <1>3, <2>3, <2>5 DEF wj, dj
    <3> HIDE DEF u, p
    <3> QED BY <1>1, <1>2, <2>2, <2>3, <3>1 DEF StageIsKept, p
  <2> QED BY <2>4, <2>5
<1>8. \A m \in Nodes : u.job[m].status = "queued" => ~u.job[m].cancelAsked
  BY <1>1, <1>2, <1>3 DEF NodesAreKnown
<1>9. Sound(u, wj, dj, faults)
  <2>1. u.run = Tables.run /\ u.node = Tables.node
    BY <1>1, <1>2
  <2> HIDE DEF u
  <2> QED BY <1>1, <1>2, <1>4, <1>5, <1>6, <1>7, <1>8, <2>1, MovesKeepSound
<1> QED BY <1>9, SoundNext DEF wj, dj

\* A lease runs out.
LEMMA LeaseStep ==
    ASSUME Inv, TypeOK', NEW n \in Nodes, job[n].status = "running",
           job' = [job EXCEPT ![n].live = FALSE],
           UNCHANGED <<run, node, worker, desk>>, faults \subseteq faults'
    PROVE  SoundNow'
<1> DEFINE u == [run |-> run, node |-> node, job |-> job']
           fj == faults'
<1>1. /\ Tables \in AllTables /\ Sound(Tables, worker, desk, faults) /\ NodesAreKnown(Tables, worker, desk)
      /\ Tables.job = job /\ Tables.run = run /\ Tables.node = node
      /\ job \in [Nodes -> JobRows] /\ job' \in [Nodes -> JobRows]
      /\ run \in RunRows /\ node \in NodeRows
  BY TablesAre DEF Inv, Sound, TypeOK
<1>2. u \in AllTables /\ u.run = run /\ u.node = node /\ u.job = job'
  BY <1>1 DEF AllTables
<1>3. /\ \A m \in Nodes : m # n => job'[m] = job[m]
      /\ \A m \in Nodes : job'[m].status = job[m].status /\ job'[m].cancelAsked = job[m].cancelAsked
      /\ \A m \in Nodes : job'[m].live => job'[m] = job[m]
  <2>1. /\ job[n] \in JobRows /\ job'[n] = [job[n] EXCEPT !.live = FALSE]
        /\ \A m \in Nodes : m # n => job'[m] = job[m]
    BY <1>1
  <2>2. job'[n].status = job[n].status /\ job'[n].cancelAsked = job[n].cancelAsked /\ ~job'[n].live
    BY <2>1 DEF JobRows
  <2> QED BY <2>1, <2>2
<1> HIDE DEF fj
<1>4. \A m \in Nodes : Used(u, worker, desk, m) => Used(Tables, worker, desk, m)
  BY <1>1, <1>2, <1>3 DEF Used
<1>5. /\ \A v \in Workers : worker[v].pc # "idle" =>
            worker[v].node \in Nodes /\ u.job[worker[v].node].status # "absent"
      /\ \A m \in Nodes : u.job[m].status = "queued" => ~u.job[m].cancelAsked
  BY <1>1, <1>2, <1>3 DEF NodesAreKnown
<1>6. ASSUME Calm(fj) PROVE OwnersAgree(u, worker)
  <2>1. OwnersAgree(Tables, worker)
    BY <1>1, <1>6 DEF Sound, Calm, fj
  <2>2. \A v \in Workers : Holds(u, worker, v) => Holds(Tables, worker, v) /\ worker[v].node \in Nodes
    BY <1>1, <1>2, <1>3, <1>5 DEF Holds, IsPresent
  <2> QED BY <1>1, <1>2, <1>3, <2>1, <2>2 DEF OwnersAgree, StatusOf
<1>7. ASSUME Reliable(fj) PROVE WorkIsKept(u, worker, desk, fj)
  <2>1. WorkIsKept(Tables, worker, desk, faults)
    BY <1>1, <1>7 DEF Sound, Reliable, fj
  <2>2. \A k \in Stages : Present(u, k) = Present(Tables, k) /\ Present(u, k) \in Nodes
    BY <1>1, <1>2, TablesAre DEF Present, Inv
  <2>3. "worker_crash" \in faults => "worker_crash" \in fj
    BY DEF fj
  <2> HIDE DEF u
  <2> QED BY <1>1, <1>2, <1>3, <2>1, <2>2, <2>3 DEF WorkIsKept, StageIsKept
<1>8. Sound(u, worker, desk, fj)
  <2>1. u.run = Tables.run /\ u.node = Tables.node /\ faults \subseteq fj
    BY <1>1, <1>2 DEF fj
  <2> HIDE DEF u
  <2> QED BY <1>1, <1>2, <1>4, <1>5, <1>6, <1>7, <2>1, MovesKeepSound
<1> QED BY <1>8, SoundNext DEF fj

\* A snapshot of the run was read, to queue the jobs of its queued nodes.
LEMMA ScheduleStep ==
    ASSUME Inv, TypeOK', UNCHANGED <<run, node, job, faults>>,
           \A v \in Workers : worker'[v].targets \subseteq worker[v].targets \union QueuedNodes,
           \A h \in Handlers : desk'[h].targets \subseteq desk[h].targets \union QueuedNodes,
           \A v \in Workers : worker'[v].pc # "idle" =>
               /\ worker[v].pc # "idle" /\ worker'[v].node = worker[v].node
               /\ worker'[v].pc = worker[v].pc
                  \/ (worker[v].pc = "schedule" /\ worker'[v].pc \in {"enqueue", "respond"}),
           Cancelling(desk) => Cancelling(desk'),
           \A v \in Workers, m \in QueuedNodes : ScheduledBy(worker[v], m) => ScheduledBy(worker'[v], m),
           \A h \in Handlers, m \in QueuedNodes : ScheduledBy(desk[h], m) => ScheduledBy(desk'[h], m)
    PROVE  SoundNow'
<1> DEFINE wj == worker'
           dj == desk'
<1>1. /\ Tables \in AllTables /\ Sound(Tables, worker, desk, faults) /\ NodesAreKnown(Tables, worker, desk)
      /\ Tables.job = job /\ Tables.run = run /\ Tables.node = node
      /\ job \in [Nodes -> JobRows] /\ run \in RunRows /\ node \in NodeRows
      /\ worker \in AllWorkers /\ desk \in AllDesks
  BY TablesAre DEF Inv, Sound
<1>2. \A n \in QueuedNodes : n \in Nodes /\ IsPresent(Tables, n) /\ StatusOf(Tables, n) = "queued"
  BY <1>1, TablesAre DEF QueuedNodes, IsPresent, StatusOf, Present, Inv
<1> HIDE DEF wj, dj
<1>3. \A m \in Nodes : Used(Tables, wj, dj, m) =>
         Used(Tables, worker, desk, m) \/ (IsPresent(Tables, m) /\ StatusOf(Tables, m) = "queued")
  <2>1. \A m \in Nodes : Targeted(wj, dj, m) => Targeted(worker, desk, m) \/ m \in QueuedNodes
    BY DEF Targeted, wj, dj
  <2> QED BY <1>2, <2>1 DEF Used
<1>4. /\ \A v \in Workers : wj[v].pc # "idle" =>
            wj[v].node \in Nodes /\ Tables.job[wj[v].node].status # "absent"
      /\ \A m \in Nodes : Tables.job[m].status = "queued" => ~Tables.job[m].cancelAsked
  BY <1>1 DEF NodesAreKnown, wj
<1>5. ASSUME Calm(faults) PROVE OwnersAgree(Tables, wj)
  <2>1. OwnersAgree(Tables, worker)
    BY <1>1, <1>5 DEF Sound
  <2>2. ASSUME NEW v \in Workers, Holds(Tables, wj, v)
        PROVE  StandsRight(wj[v].pc, StatusOf(Tables, wj[v].node), Tables.job[wj[v].node].cancelAsked)
    <3>1. /\ worker[v].pc # "idle" /\ wj[v].node = worker[v].node
          /\ \/ wj[v].pc = worker[v].pc
             \/ worker[v].pc = "schedule" /\ wj[v].pc \in {"enqueue", "respond"}
      BY <2>2 DEF Holds, wj
    <3>2. Holds(Tables, worker, v)
      BY <2>2, <3>1 DEF Holds
    <3>3. StandsRight(worker[v].pc, StatusOf(Tables, worker[v].node), Tables.job[worker[v].node].cancelAsked)
      BY <2>1, <3>2 DEF OwnersAgree
    <3> QED BY <3>1, <3>3 DEF StandsRight
  <2> QED BY <2>2 DEF OwnersAgree
<1>6. ASSUME Reliable(faults) PROVE WorkIsKept(Tables, wj, dj, faults)
  <2>1. WorkIsKept(Tables, worker, desk, faults)
    BY <1>1, <1>6 DEF Sound
  <2> SUFFICES ASSUME NEW k \in Stages PROVE StageIsKept(k, Tables, wj, dj, faults)
    BY DEF WorkIsKept
  <2>2. StageIsKept(k, Tables, worker, desk, faults)
    BY <2>1 DEF WorkIsKept
  <2>3. node[k].status = "queued" => Present(Tables, k) \in QueuedNodes
    BY <1>1, TablesAre DEF QueuedNodes, Inv
  <2>4. Cancelling(desk) => Cancelling(dj)
    BY DEF dj
  <2>5. node[k].status = "queued" =>
          /\ \A v \in Workers : ScheduledBy(worker[v], Present(Tables, k)) => ScheduledBy(wj[v], Present(Tables, k))
          /\ \A h \in Handlers : ScheduledBy(desk[h], Present(Tables, k)) => ScheduledBy(dj[h], Present(Tables, k))
    BY <2>3 DEF wj, dj
  <2> QED BY <1>1, <2>2, <2>4, <2>5 DEF StageIsKept
<1>7. Sound(Tables, wj, dj, faults)
  BY <1>1, <1>3, <1>4, <1>5, <1>6, MovesKeepSound
<1> QED BY <1>7, SoundNext DEF wj, dj, Tables

\* A request flags the jobs, and is going to cancel the run.
LEMMA CancelJobsStep ==
    ASSUME Inv, TypeOK', NEW h \in Handlers, CancelTestDesignJob(h)
    PROVE  SoundNow'
<1> DEFINE u == [run |-> run, node |-> node, job |-> job']
           dj == desk'
<1>1. /\ Tables \in AllTables /\ Sound(Tables, worker, desk, faults) /\ NodesAreKnown(Tables, worker, desk)
      /\ Tables.job = job /\ Tables.run = run /\ Tables.node = node
      /\ job \in [Nodes -> JobRows] /\ run \in RunRows /\ node \in NodeRows
      /\ worker \in AllWorkers /\ desk \in AllDesks
  BY TablesAre DEF Inv, Sound
<1>2. u \in AllTables /\ u.run = run /\ u.node = node /\ u.job = job'
  BY <1>1 DEF AllTables, TypeOK
<1>3. \A m \in Nodes :
         /\ job'[m].status # "absent" <=> job[m].status # "absent"
         /\ job'[m].status # "queued"
         /\ job'[m].status = "running" =>
               job[m].status = "running" /\ job'[m].holder = job[m].holder /\ job'[m].live = job[m].live
               /\ job'[m].cancelAsked
  <2>1. \A m \in Nodes : job[m] \in JobRows
    BY <1>1
  <2>2. \A m \in Nodes :
          \/ job[m].status = "queued" /\ job'[m] = Ended("over")
          \/ job[m].status = "running" /\ job'[m] = [job[m] EXCEPT !.cancelAsked = TRUE]
          \/ job[m].status \notin {"queued", "running"} /\ job'[m] = job[m]
    BY DEF CancelTestDesignJob
  <2> SUFFICES ASSUME NEW m \in Nodes
               PROVE  /\ job'[m].status # "absent" <=> job[m].status # "absent"
                      /\ job'[m].status # "queued"
                      /\ job'[m].status = "running" =>
                            /\ job[m].status = "running" /\ job'[m].holder = job[m].holder
                            /\ job'[m].live = job[m].live /\ job'[m].cancelAsked
    OBVIOUS
  <2>3. CASE job[m].status = "queued" /\ job'[m] = Ended("over")
    BY <2>3, JobRowsAre
  <2>4. CASE job[m].status = "running" /\ job'[m] = [job[m] EXCEPT !.cancelAsked = TRUE]
    <3> DEFINE row == [job[m] EXCEPT !.cancelAsked = TRUE]
    <3>1. /\ row.status = job[m].status /\ row.holder = job[m].holder /\ row.live = job[m].live
          /\ row.cancelAsked
      BY <2>1 DEF JobRows
    <3>2. job'[m] = row
      BY <2>4
    <3> HIDE DEF row
    <3> QED BY <2>4, <3>1, <3>2
  <2>5. CASE job[m].status \notin {"queued", "running"} /\ job'[m] = job[m]
    BY <2>5
  <2> QED BY <2>2, <2>3, <2>4, <2>5
<1>4. /\ \A m \in Nodes : Targeted(worker, dj, m) => Targeted(worker, desk, m)
      /\ Cancelling(dj)
      /\ \A i \in Handlers, m \in Nodes : ScheduledBy(desk[i], m) => ScheduledBy(dj[i], m)
  <2>1. /\ desk[h].pc = "idle" /\ desk' = [desk EXCEPT ![h].pc = "cancel"]
        /\ \A i \in Handlers : desk[i] \in DeskStates
    BY <1>1 DEF CancelTestDesignJob, AllDesks
  <2>2. dj[h].pc = "cancel" /\ dj[h].targets = desk[h].targets /\ \A i \in Handlers : i # h => dj[i] = desk[i]
    BY <2>1, <1>1 DEF AllDesks, DeskStates
  <2> HIDE DEF dj
  <2> QED BY <2>1, <2>2 DEF Targeted, Cancelling, ScheduledBy
<1>5. UNCHANGED <<run, node, worker, faults>>
  BY DEF CancelTestDesignJob
<1> HIDE DEF dj
<1>6. \A m \in Nodes : Used(u, worker, dj, m) => Used(Tables, worker, desk, m)
  BY <1>1, <1>2, <1>3, <1>4 DEF Used
<1>7. /\ \A v \in Workers : worker[v].pc # "idle" =>
            worker[v].node \in Nodes /\ u.job[worker[v].node].status # "absent"
      /\ \A m \in Nodes : u.job[m].status = "queued" => ~u.job[m].cancelAsked
  BY <1>1, <1>2, <1>3 DEF NodesAreKnown
<1>8. ASSUME Calm(faults) PROVE OwnersAgree(u, worker)
  <2>1. OwnersAgree(Tables, worker)
    BY <1>1, <1>8 DEF Sound
  <2>2. ASSUME NEW v \in Workers, Holds(u, worker, v)
        PROVE  StandsRight(worker[v].pc, StatusOf(u, worker[v].node), u.job[worker[v].node].cancelAsked)
    <3>1. worker[v].node \in Nodes /\ Holds(Tables, worker, v) /\ u.job[worker[v].node].cancelAsked
      BY <1>1, <1>2, <1>3, <1>7, <2>2 DEF Holds, IsPresent
    <3>2. StandsRight(worker[v].pc, StatusOf(Tables, worker[v].node), job[worker[v].node].cancelAsked)
      BY <1>1, <2>1, <3>1 DEF OwnersAgree
    <3>3. StatusOf(u, worker[v].node) = StatusOf(Tables, worker[v].node)
      BY <1>1, <1>2 DEF StatusOf
    <3> HIDE DEF u
    <3> QED BY <3>1, <3>2, <3>3 DEF StandsRight
  <2> QED BY <2>2 DEF OwnersAgree
<1>9. ASSUME Reliable(faults) PROVE WorkIsKept(u, worker, dj, faults)
  <2>1. WorkIsKept(Tables, worker, desk, faults)
    BY <1>1, <1>9 DEF Sound
  <2>2. \A k \in Stages : Present(u, k) = Present(Tables, k) /\ Present(u, k) \in Nodes
    BY <1>1, <1>2, TablesAre DEF Present, Inv
  <2> HIDE DEF u
  <2> QED BY <1>1, <1>2, <1>3, <1>4, <2>1, <2>2 DEF WorkIsKept, StageIsKept
<1>10. Sound(u, worker, dj, faults)
  <2>1. u.run = Tables.run /\ u.node = Tables.node
    BY <1>1, <1>2
  <2> HIDE DEF u
  <2> QED BY <1>1, <1>2, <1>6, <1>7, <1>8, <1>9, <2>1, MovesKeepSound
<1> QED BY <1>5, <1>10, SoundNext DEF dj

\* The HTTP process stops in the middle of its requests.
LEMMA CrashApiStep == ASSUME Inv, TypeOK', CrashApi PROVE SoundNow'
<1> DEFINE dj == desk'
           fj == faults'
<1>1. /\ Tables \in AllTables /\ Sound(Tables, worker, desk, faults) /\ NodesAreKnown(Tables, worker, desk)
      /\ Tables.job = job /\ Tables.run = run /\ Tables.node = node
      /\ job \in [Nodes -> JobRows] /\ run \in RunRows /\ node \in NodeRows
      /\ worker \in AllWorkers /\ desk \in AllDesks
  BY TablesAre DEF Inv, Sound
<1>2. /\ UNCHANGED <<run, node, job, worker>> /\ faults \subseteq fj /\ "api_crash" \in fj
      /\ \A h \in Handlers : dj[h].targets = {}
  BY DEF CrashApi, KeepTables, Fault, AtRest
<1> HIDE DEF dj, fj
<1>3. \A m \in Nodes : Used(Tables, worker, dj, m) => Used(Tables, worker, desk, m)
  BY <1>2 DEF Used, Targeted
<1>4. /\ \A v \in Workers : worker[v].pc # "idle" =>
            worker[v].node \in Nodes /\ Tables.job[worker[v].node].status # "absent"
      /\ \A m \in Nodes : Tables.job[m].status = "queued" => ~Tables.job[m].cancelAsked
  BY <1>1 DEF NodesAreKnown
<1>5. Calm(fj) => OwnersAgree(Tables, worker)
  BY <1>1, <1>2 DEF Sound, Calm
<1>6. ~Reliable(fj)
  BY <1>2 DEF Reliable
<1>7. Sound(Tables, worker, dj, fj)
  BY <1>1, <1>2, <1>3, <1>4, <1>5, <1>6, MovesKeepSound
<1> QED BY <1>2, <1>7, SoundNext DEF dj, fj, Tables

\* A worker that holds the job of a present node knows how far the stages are.
LEMMA OwnerKnows ==
    ASSUME Inv, Calm(faults), NEW w \in Workers, Holds(Tables, worker, w),
           worker[w].pc \in {"start", "read", "execute", "commit", "fail"}
    PROVE  /\ node[Stage(w)].status # "succeeded"
           /\ Stage(w) = Design => /\ node[Repair].status \in {"pending", "cancelled"}
                                   /\ ~Used(Tables, worker, desk, Present(Tables, Repair))
           /\ Stage(w) = Repair => node[Design].status = "succeeded" /\ node[Repair].status # "pending"
           /\ worker[w].node = Present(Tables, Stage(w)) /\ Stage(w) \in Stages
<1>1. /\ Tables \in AllTables /\ Sound(Tables, worker, desk, faults) /\ NodesAreKnown(Tables, worker, desk)
      /\ Tables.job = job /\ Tables.run = run /\ Tables.node = node
      /\ job \in [Nodes -> JobRows] /\ run \in RunRows /\ node \in NodeRows
      /\ worker \in AllWorkers /\ desk \in AllDesks
  BY TablesAre DEF Inv, Sound
<1>2. StagesInOrder(Tables, worker, desk) /\ OwnersAgree(Tables, worker)
  BY <1>1 DEF Sound
<1>3. worker[w].node \in Nodes /\ Stage(w) \in Stages
  BY WorkersWork
<1>4. worker[w].node = Present(Tables, Stage(w))
  BY <1>3 DEF Holds, IsPresent, Present, Nodes, Stage
<1>5. Used(Tables, worker, desk, Present(Tables, Stage(w)))
  BY <1>4 DEF Holds, Used
<1>6. node[Stage(w)].status # "succeeded"
  BY <1>1, <1>2 DEF OwnersAgree, StandsRight, StatusOf, Stage
<1> QED BY <1>1, <1>2, <1>3, <1>4, <1>5, <1>6 DEF StagesInOrder

\* The status of a node and of the run change together.
LEMMA NodeStep ==
    ASSUME Inv, TypeOK', NEW w \in Workers, Fenced(w), NEW pc, Moves(w, pc),
           worker[w].pc \in {"start", "commit", "fail"}, pc # "idle",
           NEW k \in Stages, NEW status \in NodeStatuses, Calm(faults) => k = Stage(w),
           node' = [node EXCEPT ![k].status = status],
           UNCHANGED <<job, desk, faults>>,
           StandsRight(pc, status, FALSE),
           run'.status = status,
           \/ status \in {"running", "failed"}
           \/ status = "succeeded" /\ run'.repair \notin {"idle", "queued", "running"}
    PROVE  SoundNow'
<1> DEFINE u == [run |-> run', node |-> node', job |-> job]
           wj == worker'
           n == worker[w].node
<1>1. /\ Tables \in AllTables /\ Sound(Tables, worker, desk, faults) /\ NodesAreKnown(Tables, worker, desk)
      /\ Tables.job = job /\ Tables.run = run /\ Tables.node = node
      /\ job \in [Nodes -> JobRows] /\ run \in RunRows /\ node \in NodeRows
      /\ worker \in AllWorkers /\ desk \in AllDesks
  BY TablesAre DEF Inv, Sound
<1>2. u \in AllTables /\ u.run = run' /\ u.node = node' /\ u.job = job
  BY <1>1 DEF AllTables, TypeOK, RunRows, NodeRows
<1>3. /\ Holds(Tables, worker, w) /\ ~job[n].cancelAsked
      /\ n \in Nodes /\ Stage(w) \in Stages /\ job[n].status = "running"
  BY <1>1, TablesAre, WorkersWork DEF Holds, Fenced, Owns, Inv
<1>4. /\ \A j \in Stages : node'[j].generation = node[j].generation
      /\ \A j \in Stages : j # k => node'[j].status = node[j].status
      /\ node'[k].status = status
  BY <1>1 DEF NodeRows
<1>5. /\ \A j \in Stages : Present(u, j) = Present(Tables, j) /\ Present(u, j) \in Nodes
      /\ \A m \in Nodes : IsPresent(u, m) <=> IsPresent(Tables, m)
  <2>1. \A j \in Stages : Present(Tables, j) \in Nodes
    BY TablesAre DEF Inv
  <2>2. \A m \in Nodes : m.stage \in Stages
    BY DEF Nodes
  <2> QED BY <1>1, <1>2, <1>4, <2>1, <2>2 DEF Present, IsPresent
<1>6. /\ \A v \in Workers : wj[v].pc # "idle" => worker[v].pc # "idle" /\ wj[v].node = worker[v].node
      /\ \A v \in Workers : v # w => wj[v] = worker[v]
      /\ \A v \in Workers : wj[v].targets \subseteq worker[v].targets
      /\ wj[w].pc = pc
  BY DEF Moves
<1> HIDE DEF wj, u
<1>7. \A m \in Nodes : Used(u, wj, desk, m) => Used(Tables, worker, desk, m)
  BY <1>1, <1>2, <1>6 DEF Used, Targeted
<1>8. NodesAreKnown(u, wj, desk)
  <2>1. \A m \in Nodes : m.stage \in Stages
    BY DEF Nodes
  <2> QED BY <1>1, <1>2, <1>4, <1>6, <1>7, <2>1 DEF NodesAreKnown
<1>9. ASSUME Calm(faults) PROVE StagesInOrder(u, wj, desk) /\ OwnersAgree(u, wj)
  <2>1. k = Stage(w) /\ StagesInOrder(Tables, worker, desk) /\ OwnersAgree(Tables, worker)
    BY <1>1, <1>9 DEF Sound
  <2>2. /\ k = Design => /\ node[Repair].status \in {"pending", "cancelled"}
                         /\ ~Used(Tables, worker, desk, Present(Tables, Repair))
        /\ k = Repair => node[Design].status = "succeeded" /\ node[Repair].status # "pending"
    BY <1>3, <1>9, <2>1, OwnerKnows
  <2>3. ~Used(Tables, worker, desk, Present(Tables, Repair)) => ~Used(u, wj, desk, Present(u, Repair))
    BY <1>5, <1>7 DEF Stages, Repair
  <2>4. StagesInOrder(u, wj, desk)
    <3>1. CASE k = Design
      BY <1>1, <1>2, <1>4, <2>1, <2>2, <2>3, <3>1 DEF StagesInOrder, Open, Stages, Design, Repair
    <3>2. CASE k = Repair
      BY <1>1, <1>2, <1>4, <2>1, <2>2, <2>3, <3>2 DEF StagesInOrder, Open, Stages, Design, Repair
    <3> QED BY <3>1, <3>2 DEF Stages, Design, Repair
  <2>5. ASSUME NEW v \in Workers, Holds(u, wj, v)
        PROVE  StandsRight(wj[v].pc, StatusOf(u, wj[v].node), u.job[wj[v].node].cancelAsked)
    <3>1. Holds(Tables, worker, v) /\ wj[v].node = worker[v].node /\ worker[v].node \in Nodes
      BY <1>1, <1>2, <1>5, <1>6, <1>8, <2>5 DEF Holds, NodesAreKnown
    <3>2. CASE v = w
      BY <1>2, <1>3, <1>4, <1>6, <2>1, <3>1, <3>2 DEF StatusOf, Stage, StandsRight
    <3>3. CASE v # w
      <4>1. worker[v].node.stage # k
        <5>1. worker[v].node # n
          BY <1>1, <1>3, <3>1, <3>3 DEF Holds
        <5> QED BY <5>1, <1>3, <2>1, <3>1 DEF Holds, IsPresent, Nodes, Stage
      <4>2. StatusOf(u, worker[v].node) = StatusOf(Tables, worker[v].node)
        BY <4>1, <1>1, <1>2, <1>4, <3>1 DEF StatusOf, Nodes
      <4> QED BY <1>1, <1>2, <1>6, <2>1, <3>1, <3>3, <4>2 DEF OwnersAgree
    <3> QED BY <3>2, <3>3
  <2> QED BY <2>4, <2>5 DEF OwnersAgree
<1>10. ASSUME Reliable(faults) PROVE WorkIsKept(u, wj, desk, faults)
  <2>1. Calm(faults) /\ k = Stage(w)
    BY <1>10 DEF Reliable, Calm
  <2>2. /\ k = Design => node[Repair].status \in {"pending", "cancelled"}
        /\ k = Repair => node[Design].status = "succeeded"
        /\ n = Present(Tables, k)
    BY <1>3, <2>1, OwnerKnows
  <2>3. \A j \in Stages : j # k => node'[j].status \notin Open
    BY <1>4, <2>2 DEF Stages, Open, Design, Repair
  <2>4. status = "queued" => FALSE
    OBVIOUS
  <2> QED BY <1>2, <1>3, <1>4, <1>5, <2>2, <2>3, <2>4 DEF WorkIsKept, StageIsKept, Open, JobEnded
<1>11. Sound(u, wj, desk, faults)
  BY <1>8, <1>9, <1>10 DEF Sound
<1> QED BY <1>11, SoundNext DEF wj, u

\* The design is committed, and its automatic repair is queued with it.
LEMMA RepairStep ==
    ASSUME Inv, TypeOK', NEW w \in Workers, Fenced(w), Moves(w, "schedule"),
           worker[w].pc = "commit", Stage(w) = Design, node' = RepairQueued,
           run'.status = "queued", UNCHANGED <<job, desk, faults>>
    PROVE  SoundNow'
<1> DEFINE u == [run |-> run', node |-> node', job |-> job]
           wj == worker'
           n == worker[w].node
<1>1. /\ Tables \in AllTables /\ Sound(Tables, worker, desk, faults) /\ NodesAreKnown(Tables, worker, desk)
      /\ Tables.job = job /\ Tables.run = run /\ Tables.node = node
      /\ job \in [Nodes -> JobRows] /\ run \in RunRows /\ node \in NodeRows
      /\ worker \in AllWorkers /\ desk \in AllDesks
  BY TablesAre DEF Inv, Sound
<1>2. u \in AllTables /\ u.run = run' /\ u.node = node' /\ u.job = job
  BY <1>1 DEF AllTables, TypeOK, RunRows, NodeRows
<1>3. /\ Holds(Tables, worker, w) /\ ~job[n].cancelAsked /\ n \in Nodes /\ n.stage = Design
  BY <1>1, TablesAre, WorkersWork DEF Holds, Fenced, Owns, Inv, Stage
<1>4. /\ node'[Design].generation = node[Design].generation /\ node'[Design].status = "succeeded"
      /\ node'[Repair].status = "queued"
      /\ node'[Repair].generation = IF node[Repair].status = "pending" THEN node[Repair].generation
                                    ELSE node[Repair].generation + 1
  BY <1>1, RepairQueuedIs DEF Stages, Design, Repair
<1>5. \A j \in Stages : /\ node[j].generation \in Nat /\ node'[j].generation \in Nat
                        /\ node'[j].generation >= node[j].generation
                        /\ Present(u, j) \in Nodes /\ Present(u, j).stage = j
                        /\ Present(Tables, j) \in Nodes
  <2>1. node \in NodeRows /\ node' \in NodeRows
    BY <1>1, <1>2 DEF AllTables
  <2>2. \A j \in Stages : Present(u, j) \in Nodes /\ Present(u, j).stage = j
    BY <1>2, <2>1 DEF Present, Nodes, NodeRows
  <2>3. \A j \in Stages : Present(Tables, j) \in Nodes
    BY TablesAre DEF Inv
  <2> QED BY <1>4, <2>1, <2>2, <2>3 DEF NodeRows, Generations, Stages, Design, Repair
<1>6. /\ \A v \in Workers : wj[v].pc # "idle" => worker[v].pc # "idle" /\ wj[v].node = worker[v].node
      /\ \A v \in Workers : v # w => wj[v] = worker[v]
      /\ \A v \in Workers : wj[v].targets \subseteq worker[v].targets
      /\ wj[w].pc = "schedule"
  BY DEF Moves
<1> HIDE DEF wj, u
<1>7. \A m \in Nodes : Used(u, wj, desk, m) => Used(Tables, worker, desk, m)
  BY <1>1, <1>2, <1>6 DEF Used, Targeted
<1>8. NodesAreKnown(u, wj, desk)
  <2>1. ASSUME NEW m \in Nodes, Used(u, wj, desk, m) PROVE m.generation <= u.node[m.stage].generation
    <3>1. m.generation <= node[m.stage].generation
      BY <1>1, <1>7, <2>1 DEF NodesAreKnown
    <3>2. m.stage \in Stages /\ m.generation \in Nat
      BY DEF Nodes, Generations
    <3> QED BY <1>2, <1>5, <3>1, <3>2
  <2> QED BY <1>1, <1>2, <1>6, <2>1 DEF NodesAreKnown
<1>9. ASSUME Calm(faults) PROVE ~Used(u, wj, desk, Present(u, Repair))
  <2>1. /\ node[Repair].status \in {"pending", "cancelled"}
        /\ ~Used(Tables, worker, desk, Present(Tables, Repair))
    BY <1>3, <1>9, OwnerKnows
  <2>2. CASE node[Repair].status = "pending"
    <3>1. Present(u, Repair) = Present(Tables, Repair)
      BY <1>1, <1>2, <1>4, <2>2 DEF Present
    <3> QED BY <1>5, <1>7, <2>1, <3>1 DEF Stages, Repair
  <2>3. CASE node[Repair].status # "pending"
    <3>1. Present(u, Repair).generation = node[Repair].generation + 1
      BY <1>2, <1>4, <2>3 DEF Present
    <3>2. ~(Present(u, Repair).generation <= node[Repair].generation)
      BY <1>5, <3>1 DEF Stages, Repair
    <3> QED BY <1>1, <1>5, <1>7, <3>2 DEF NodesAreKnown, Stages, Repair
  <2> QED BY <2>2, <2>3
<1>10. ASSUME Calm(faults) PROVE StagesInOrder(u, wj, desk) /\ OwnersAgree(u, wj)
  <2>1. StagesInOrder(u, wj, desk)
    BY <1>2, <1>4 DEF StagesInOrder, Open
  <2>2. ASSUME NEW v \in Workers, Holds(u, wj, v)
        PROVE  StandsRight(wj[v].pc, StatusOf(u, wj[v].node), u.job[wj[v].node].cancelAsked)
    <3>1. wj[v].node = worker[v].node /\ worker[v].node \in Nodes
      BY <1>6, <1>8, <2>2 DEF Holds, NodesAreKnown
    <3>2. worker[v].node = Present(u, worker[v].node.stage) /\ worker[v].node.stage \in Stages
      BY <2>2, <3>1 DEF Holds, IsPresent, Present, Nodes
    <3>3. worker[v].node.stage = Design
      <4>1. Used(u, wj, desk, worker[v].node)
        BY <2>2, <3>1 DEF Holds, Used
      <4> QED BY <1>9, <1>10, <3>2, <4>1 DEF Stages, Design, Repair
    <3>4. v = w
      <4>1. worker[v].node = n
        BY <1>1, <1>2, <1>3, <1>4, <3>1, <3>2, <3>3 DEF Present, Holds, IsPresent, Nodes
      <4> QED BY <1>1, <1>2, <1>3, <2>2, <3>1, <4>1 DEF Holds
    <3> QED BY <1>2, <1>4, <1>6, <3>1, <3>3, <3>4 DEF StandsRight, StatusOf, Open
  <2> QED BY <2>1, <2>2 DEF OwnersAgree
<1>11. ASSUME Reliable(faults) PROVE WorkIsKept(u, wj, desk, faults)
  <2>1. job[Present(u, Repair)].status = "absent"
    BY <1>2, <1>9, <1>11 DEF Reliable, Calm, Used
  <2>2. StageIsKept(Repair, u, wj, desk, faults)
    BY <1>2, <1>4, <1>6, <2>1 DEF StageIsKept, ScheduledBy, JobEnded
  <2>3. StageIsKept(Design, u, wj, desk, faults)
    BY <1>2, <1>4 DEF StageIsKept, Open
  <2> QED BY <2>2, <2>3 DEF WorkIsKept, Stages, Design, Repair
<1>12. Sound(u, wj, desk, faults)
  BY <1>8, <1>10, <1>11 DEF Sound
<1> QED BY <1>12, SoundNext DEF wj, u

\* The row of the run is there, and its nodes will be scheduled.
LEMMA CreateRunStep ==
    ASSUME Inv, TypeOK', NEW h \in Handlers, CreateRun(h)
    PROVE  SoundNow'
<1> DEFINE u == [run |-> run', node |-> node, job |-> job]
           dj == desk'
<1>1. /\ Tables \in AllTables /\ Sound(Tables, worker, desk, faults) /\ NodesAreKnown(Tables, worker, desk)
      /\ Tables.job = job /\ Tables.run = run /\ Tables.node = node
      /\ job \in [Nodes -> JobRows] /\ run \in RunRows /\ node \in NodeRows
      /\ worker \in AllWorkers /\ desk \in AllDesks
  BY TablesAre DEF Inv, Sound
<1>2. /\ run.status \in {"absent", "queued"} /\ UNCHANGED <<node, job, worker, faults>>
      /\ run'.status = "queued" /\ run' \in RunRows
  <2>1. run.status \in {"absent", "queued"} /\ UNCHANGED <<node, job, worker, faults>>
        /\ run' = [run EXCEPT !.status = "queued"]
    BY DEF CreateRun
  <2> QED BY <1>1, <2>1 DEF TypeOK, RunRows
<1>3. u \in AllTables /\ u.run = run' /\ u.node = node /\ u.job = job
  BY <1>1, <1>2 DEF AllTables
<1>4. /\ \A m \in Nodes : Targeted(worker, dj, m) => Targeted(worker, desk, m)
      /\ dj[h].pc = "schedule"
      /\ Cancelling(desk) => Cancelling(dj)
  <2>1. /\ desk[h].pc = "idle" /\ desk' = [desk EXCEPT ![h].pc = "schedule"] /\ desk[h] \in DeskStates
    BY <1>1 DEF CreateRun, AllDesks
  <2>2. dj[h].pc = "schedule" /\ dj[h].targets = desk[h].targets
        /\ \A i \in Handlers : i # h => dj[i] = desk[i]
    BY <2>1, <1>1 DEF AllDesks, DeskStates
  <2> HIDE DEF dj
  <2> QED BY <2>1, <2>2 DEF Targeted, Cancelling
<1> HIDE DEF u, dj
<1>5. /\ \A j \in Stages : Present(u, j) = Present(Tables, j) /\ Present(u, j) \in Nodes
      /\ \A m \in Nodes : Used(u, worker, dj, m) => Used(Tables, worker, desk, m)
  BY <1>1, <1>3, <1>4, TablesAre DEF Present, Used, Inv
<1>6. NodesAreKnown(u, worker, dj)
  BY <1>1, <1>3, <1>5 DEF NodesAreKnown
<1>7. ASSUME Calm(faults) PROVE StagesInOrder(u, worker, dj) /\ OwnersAgree(u, worker)
  <2>1. StagesInOrder(Tables, worker, desk) /\ OwnersAgree(Tables, worker)
    BY <1>1, <1>7 DEF Sound
  <2>2. StagesInOrder(u, worker, dj)
    BY <1>1, <1>2, <1>3, <1>5, <2>1 DEF StagesInOrder, Open, Stages, Repair
  <2>3. OwnersAgree(u, worker)
    BY <1>1, <1>3, <2>1 DEF OwnersAgree, Holds, IsPresent, StatusOf
  <2> QED BY <2>2, <2>3
<1>8. ASSUME Reliable(faults) PROVE WorkIsKept(u, worker, dj, faults)
  <2>1. WorkIsKept(Tables, worker, desk, faults)
    BY <1>1, <1>8 DEF Sound
  <2>2. \A m : ScheduledBy(dj[h], m)
    BY <1>4 DEF ScheduledBy
  <2> QED BY <1>1, <1>3, <1>4, <1>5, <2>1, <2>2 DEF WorkIsKept, StageIsKept
<1>9. Sound(u, worker, dj, faults)
  BY <1>6, <1>7, <1>8 DEF Sound
<1> QED BY <1>2, <1>9, SoundNext DEF u, dj

\* The run and what is not over of its stages are cancelled.
LEMMA CancelRunStep ==
    ASSUME Inv, TypeOK', NEW h \in Handlers, CancelRun(h)
    PROVE  SoundNow'
<1> DEFINE u == [run |-> run', node |-> node', job |-> job]
           dj == desk'
<1>1. /\ Tables \in AllTables /\ Sound(Tables, worker, desk, faults) /\ NodesAreKnown(Tables, worker, desk)
      /\ Tables.job = job /\ Tables.run = run /\ Tables.node = node
      /\ job \in [Nodes -> JobRows] /\ run \in RunRows /\ node \in NodeRows
      /\ worker \in AllWorkers /\ desk \in AllDesks
  BY TablesAre DEF Inv, Sound
<1>2. u \in AllTables /\ u.run = run' /\ u.node = node' /\ u.job = job
      /\ UNCHANGED <<job, worker, faults>>
  BY <1>1 DEF AllTables, TypeOK, RunRows, NodeRows, CancelRun
<1>3. \A m \in Nodes : Targeted(worker, dj, m) => Targeted(worker, desk, m)
  <2>1. desk' = [desk EXCEPT ![h].pc = "idle"] /\ desk[h] \in DeskStates
    BY <1>1 DEF CancelRun, AllDesks
  <2>2. dj[h].targets = desk[h].targets /\ \A i \in Handlers : i # h => dj[i] = desk[i]
    BY <2>1, <1>1 DEF AllDesks, DeskStates
  <2> HIDE DEF dj
  <2> QED BY <2>2 DEF Targeted
<1>4. \/ run.status = "succeeded" /\ run' = run /\ node' = node
      \/ /\ run'.status = "cancelled"
         /\ \A k \in Stages : /\ node'[k].generation = node[k].generation
                              /\ node'[k].status = IF node[k].status \in {"pending", "queued", "running"}
                                                   THEN "cancelled" ELSE node[k].status
  <2>1. CASE run.status = "succeeded"
    BY <2>1 DEF CancelRun
  <2>2. CASE run.status # "succeeded"
    <3>1. run' = [run EXCEPT !.status = "cancelled"] /\ node' = CancelledNodes
      BY <2>2 DEF CancelRun
    <3>2. run'.status = "cancelled"
      BY <1>1, <3>1 DEF RunRows
    <3>3. ASSUME NEW k \in Stages
          PROVE  /\ node'[k].generation = node[k].generation
                 /\ node'[k].status = IF node[k].status \in {"pending", "queued", "running"}
                                      THEN "cancelled" ELSE node[k].status
      BY <1>1, <3>1 DEF CancelledNodes, NodeRows
    <3> QED BY <3>2, <3>3
  <2> QED BY <2>1, <2>2
<1> HIDE DEF u, dj
<1>5. \A k \in Stages : node'[k].generation = node[k].generation
  BY <1>4
<1>6. /\ \A j \in Stages : Present(u, j) = Present(Tables, j) /\ Present(u, j) \in Nodes
      /\ \A m \in Nodes : Used(u, worker, dj, m) => Used(Tables, worker, desk, m)
      /\ \A m \in Nodes : m.stage \in Stages /\ (IsPresent(u, m) <=> IsPresent(Tables, m))
  <2>1. \A m \in Nodes : m.stage \in Stages
    BY DEF Nodes
  <2> QED BY <1>1, <1>2, <1>3, <1>5, <2>1, TablesAre DEF Present, Used, Inv, IsPresent
<1>7. NodesAreKnown(u, worker, dj)
  BY <1>1, <1>2, <1>5, <1>6 DEF NodesAreKnown
<1>8. ASSUME Calm(faults)
      PROVE  /\ StagesInOrder(u, worker, dj) /\ OwnersAgree(u, worker)
             /\ \A k \in Stages : node'[k].status \notin Open
  <2>1. StagesInOrder(Tables, worker, desk) /\ OwnersAgree(Tables, worker)
    BY <1>1, <1>8 DEF Sound
  <2>2. StagesInOrder(u, worker, dj) /\ \A k \in Stages : node'[k].status \notin Open
    <3>1. CASE run.status = "succeeded" /\ run' = run /\ node' = node
      BY <1>1, <1>2, <1>6, <2>1, <3>1 DEF StagesInOrder, Open, Stages, Design, Repair
    <3>2. CASE /\ run'.status = "cancelled"
               /\ \A k \in Stages : node'[k].status = IF node[k].status \in {"pending", "queued", "running"}
                                                      THEN "cancelled" ELSE node[k].status
      BY <1>1, <1>2, <1>6, <2>1, <3>2 DEF StagesInOrder, Open, Stages, Design, Repair
    <3> QED BY <1>4, <3>1, <3>2
  <2>3. ASSUME NEW v \in Workers, Holds(u, worker, v)
        PROVE  StandsRight(worker[v].pc, StatusOf(u, worker[v].node), u.job[worker[v].node].cancelAsked)
    <3>1. Holds(Tables, worker, v) /\ worker[v].node \in Nodes
      BY <1>1, <1>2, <1>6, <1>7, <2>3 DEF Holds, NodesAreKnown
    <3>2. StandsRight(worker[v].pc, StatusOf(Tables, worker[v].node), job[worker[v].node].cancelAsked)
      BY <1>1, <2>1, <3>1 DEF OwnersAgree
    <3>3. \/ StatusOf(u, worker[v].node) = StatusOf(Tables, worker[v].node)
          \/ StatusOf(u, worker[v].node) = "cancelled"
      BY <1>1, <1>2, <1>4, <1>6, <3>1 DEF StatusOf
    <3> QED BY <1>2, <3>2, <3>3 DEF StandsRight, Open
  <2> QED BY <2>2, <2>3 DEF OwnersAgree
<1>9. ASSUME Reliable(faults) PROVE WorkIsKept(u, worker, dj, faults)
  BY <1>2, <1>8, <1>9 DEF Reliable, Calm, WorkIsKept, StageIsKept, Open
<1>10. Sound(u, worker, dj, faults)
  BY <1>7, <1>8, <1>9 DEF Sound
<1> QED BY <1>2, <1>10, SoundNext DEF u, dj

\* Both stages get a new generation, which nobody has heard of.
LEMMA ResynthesizeStep ==
    ASSUME Inv, TypeOK', NEW h \in Handlers, Resynthesize(h)
    PROVE  SoundNow'
<1> DEFINE u == [run |-> run', node |-> node', job |-> job]
           dj == desk'
<1>1. /\ Tables \in AllTables /\ Sound(Tables, worker, desk, faults) /\ NodesAreKnown(Tables, worker, desk)
      /\ Tables.job = job /\ Tables.run = run /\ Tables.node = node
      /\ job \in [Nodes -> JobRows] /\ run \in RunRows /\ node \in NodeRows
      /\ worker \in AllWorkers /\ desk \in AllDesks
  BY TablesAre DEF Inv, Sound
<1>2. u \in AllTables /\ u.run = run' /\ u.node = node' /\ u.job = job
      /\ UNCHANGED <<job, worker, faults>> /\ run'.status = "queued"
  BY <1>1 DEF AllTables, TypeOK, RunRows, NodeRows, Resynthesize
<1>3. \A m \in Nodes : Targeted(worker, dj, m) => Targeted(worker, desk, m)
  <2>1. desk' = [desk EXCEPT ![h].pc = "schedule"] /\ desk[h] \in DeskStates
    BY <1>1 DEF Resynthesize, AllDesks
  <2>2. dj[h].targets = desk[h].targets /\ \A i \in Handlers : i # h => dj[i] = desk[i]
    BY <2>1, <1>1 DEF AllDesks, DeskStates
  <2> HIDE DEF dj
  <2> QED BY <2>2 DEF Targeted
<1>4. dj[h].pc = "schedule"
  BY <1>1 DEF Resynthesize, AllDesks
<1>5. /\ \A k \in Stages : node'[k].generation = node[k].generation + 1 /\ node[k].generation \in Nat
      /\ node'[Design].status = "queued" /\ node'[Repair].status = "pending"
  BY <1>1 DEF Resynthesize, Regenerated, NodeRows, Stages, Design, Repair, Generations
<1> HIDE DEF u, dj
<1>6. \A m \in Nodes : Used(u, worker, dj, m) =>
          Used(Tables, worker, desk, m) /\ m.generation < node'[m.stage].generation
  <2>1. \A m \in Nodes : Used(u, worker, dj, m) => Used(Tables, worker, desk, m)
    BY <1>1, <1>2, <1>3 DEF Used
  <2>2. \A m \in Nodes : Used(Tables, worker, desk, m) => m.generation <= node[m.stage].generation
    BY <1>1 DEF NodesAreKnown
  <2>3. \A m \in Nodes : m.stage \in Stages /\ m.generation \in Nat
    BY DEF Nodes, Generations
  <2> QED BY <1>5, <2>1, <2>2, <2>3
<1>7. \A k \in Stages : Present(u, k) \in Nodes /\ ~Used(u, worker, dj, Present(u, k))
  <2>1. \A k \in Stages : /\ Present(u, k) \in Nodes /\ Present(u, k).stage = k
                          /\ Present(u, k).generation = node'[k].generation
    BY <1>2 DEF AllTables, NodeRows, Present, Nodes
  <2> QED BY <1>5, <1>6, <2>1
<1>8. NodesAreKnown(u, worker, dj)
  <2>1. \A m \in Nodes : Used(u, worker, dj, m) => m.generation <= u.node[m.stage].generation
    <3>1. \A m \in Nodes : m.stage \in Stages /\ m.generation \in Nat
      BY DEF Nodes, Generations
    <3> QED BY <1>2, <1>5, <1>6, <3>1
  <2> QED BY <1>1, <1>2, <2>1 DEF NodesAreKnown
<1>9. StagesInOrder(u, worker, dj)
  BY <1>2, <1>5, <1>7 DEF StagesInOrder, Open, Stages, Repair
<1>10. OwnersAgree(u, worker)
  <2>1. ASSUME NEW v \in Workers, Holds(u, worker, v) PROVE FALSE
    <3>1. /\ worker[v].node \in Nodes /\ Used(u, worker, dj, worker[v].node)
          /\ worker[v].node.generation = node'[worker[v].node.stage].generation
      BY <1>2, <1>8, <2>1 DEF Holds, NodesAreKnown, Used, IsPresent
    <3>2. worker[v].node.stage \in Stages /\ worker[v].node.generation \in Nat
      BY <3>1 DEF Nodes, Generations
    <3> QED BY <1>5, <1>6, <3>1, <3>2
  <2> QED BY <2>1 DEF OwnersAgree
<1>11. WorkIsKept(u, worker, dj, faults)
  <2>1. \A k \in Stages : u.job[Present(u, k)].status = "absent" /\ u.node[k].status # "running"
    BY <1>2, <1>5, <1>7 DEF Used, Stages, Design, Repair
  <2>2. \A m : ScheduledBy(dj[h], m)
    BY <1>4 DEF ScheduledBy
  <2> QED BY <2>1, <2>2 DEF WorkIsKept, StageIsKept, JobEnded
<1>12. Sound(u, worker, dj, faults)
  BY <1>8, <1>9, <1>10, <1>11 DEF Sound
<1> QED BY <1>2, <1>12, SoundNext DEF u, dj

\* A worker recovers what has expired and takes a queued job.
LEMMA ClaimStep ==
    ASSUME Inv, TypeOK', NEW w \in Workers, ClaimTestDesignJob(w)
    PROVE  SoundNow'
<1>1. worker[w].pc = "idle" /\ UNCHANGED <<desk, faults>>
      /\ worker \in AllWorkers /\ desk \in AllDesks
  BY TablesAre DEF ClaimTestDesignJob, Inv
<1>2. PICK t \in Recovered, n \in Nodes :
          /\ Claimable(t, n)
          /\ run' = t.run /\ node' = t.node
          /\ job' = [t.job EXCEPT ![n] = [status |-> "running", holder |-> w, live |-> TRUE,
                                          attempts |-> t.job[n].attempts + 1,
                                          cancelAsked |-> t.job[n].cancelAsked]]
          /\ worker' = [worker EXCEPT ![w] = [Idle EXCEPT !.pc = "begin", !.node = n]]
  BY DEF ClaimTestDesignJob
<1>3. t \in AllTables /\ Sound(t, worker, desk, faults)
  BY <1>2, RecoveredKeepsSound DEF Inv, SoundNow
<1>4. t.job \in [Nodes -> JobRows] /\ NodesAreKnown(t, worker, desk)
      /\ t.job[n].status = "queued" /\ ~t.job[n].cancelAsked
  BY <1>2, <1>3 DEF AllTables, Sound, NodesAreKnown, Claimable
<1> DEFINE row == [status |-> "running", holder |-> w, live |-> TRUE,
                   attempts |-> t.job[n].attempts + 1, cancelAsked |-> t.job[n].cancelAsked]
           new == [Idle EXCEPT !.pc = "begin", !.node = n]
           u == [run |-> t.run, node |-> t.node, job |-> job']
           wj == worker'
<1>5. row.status = "running" /\ row.holder = w /\ ~row.cancelAsked
  BY <1>4
<1>6. new.pc = "begin" /\ new.node = n /\ new.targets = {}
  BY DEF Idle
<1> HIDE DEF row, new
<1>7. job' = [t.job EXCEPT ![n] = row] /\ worker' = [worker EXCEPT ![w] = new]
  BY <1>2 DEF row, new
<1>8. /\ \A m \in Nodes : m # n => job'[m] = t.job[m]
      /\ job'[n].status = "running" /\ job'[n].holder = w /\ ~job'[n].cancelAsked
  BY <1>4, <1>5, <1>7
<1>9. /\ \A v \in Workers : v # w => wj[v] = worker[v]
      /\ wj[w].pc = "begin" /\ wj[w].node = n /\ wj[w].targets = {}
  BY <1>1, <1>6, <1>7 DEF AllWorkers
<1>10. u \in AllTables /\ u.run = t.run /\ u.node = t.node /\ u.job = job'
  BY <1>2, <1>3 DEF AllTables, TypeOK
<1> HIDE DEF u, wj
<1>11. \A m \in Nodes : Used(u, wj, desk, m) => Used(t, worker, desk, m)
  <2>1. \A v \in Workers : wj[v].targets \subseteq worker[v].targets
    BY <1>9
  <2>2. \A m \in Nodes : job'[m].status # "absent" => t.job[m].status # "absent"
    BY <1>4, <1>8
  <2> QED BY <1>10, <2>1, <2>2 DEF Used, Targeted
<1>12. \A v \in Workers : wj[v].pc # "idle" =>
           wj[v].node \in Nodes /\ u.job[wj[v].node].status # "absent"
  BY <1>4, <1>8, <1>9, <1>10 DEF NodesAreKnown
<1>13. \A m \in Nodes : u.job[m].status = "queued" => ~u.job[m].cancelAsked
  BY <1>4, <1>8, <1>10 DEF NodesAreKnown
<1>14. ASSUME Calm(faults) PROVE OwnersAgree(u, wj)
  <2>1. OwnersAgree(t, worker)
    BY <1>3, <1>14 DEF Sound
  <2>2. ASSUME NEW v \in Workers, Holds(u, wj, v)
        PROVE  StandsRight(wj[v].pc, StatusOf(u, wj[v].node), u.job[wj[v].node].cancelAsked)
    <3>1. CASE v = w
      BY <1>9, <3>1 DEF StandsRight
    <3>2. CASE v # w
      <4>1. wj[v] = worker[v] /\ worker[v].node \in Nodes /\ worker[v].node # n
        BY <1>8, <1>9, <1>10, <1>12, <2>2, <3>2 DEF Holds
      <4>2. Holds(t, worker, v)
        BY <1>8, <1>10, <2>2, <4>1 DEF Holds, IsPresent
      <4> QED BY <1>8, <1>10, <2>1, <4>1, <4>2 DEF OwnersAgree, StatusOf
    <3> QED BY <3>1, <3>2
  <2> QED BY <2>2 DEF OwnersAgree
<1>15. ASSUME Reliable(faults) PROVE WorkIsKept(u, wj, desk, faults)
  <2>1. WorkIsKept(t, worker, desk, faults)
    BY <1>3, <1>15 DEF Sound
  <2> SUFFICES ASSUME NEW k \in Stages PROVE StageIsKept(k, u, wj, desk, faults)
    BY DEF WorkIsKept
  <2> DEFINE p == Present(t, k)
  <2>2. StageIsKept(k, t, worker, desk, faults) /\ Present(u, k) = p
    BY <1>10, <2>1 DEF WorkIsKept, Present
  <2>3. p \in Nodes
    BY <1>3 DEF Present, AllTables, NodeRows, Nodes
  <2>4. \A v \in Workers : ScheduledBy(worker[v], p) => ScheduledBy(wj[v], p)
    BY <1>1, <1>9 DEF ScheduledBy
  <2>5. CASE p = n
    BY <1>8, <1>10, <2>2, <2>5 DEF StageIsKept, JobEnded
  <2>6. CASE p # n
    <3>1. job'[p] = t.job[p]
      BY <1>8, <2>3, <2>6
    <3> QED BY <1>10, <2>2, <2>4, <3>1 DEF StageIsKept
  <2> QED BY <2>5, <2>6
<1>16. Sound(u, wj, desk, faults)
  BY <1>3, <1>10, <1>11, <1>12, <1>13, <1>14, <1>15, MovesKeepSound
<1> QED BY <1>1, <1>2, <1>16, SoundNext DEF u, wj

\* A worker recovers what has expired and finds nothing to take.
LEMMA ClaimNothingStep ==
    ASSUME Inv, TypeOK', NEW w \in Workers, ClaimNothing(w)
    PROVE  SoundNow'
<1>1. PICK t \in Recovered : run' = t.run /\ node' = t.node /\ job' = t.job
  BY DEF ClaimNothing
<1>2. t \in AllTables /\ Sound(t, worker, desk, faults)
  BY RecoveredKeepsSound DEF Inv
<1>3. t = [run |-> run', node |-> node', job |-> job']
  BY <1>1, <1>2 DEF AllTables
<1>4. UNCHANGED <<worker, desk, faults>>
  BY DEF ClaimNothing
<1> QED BY <1>2, <1>3, <1>4, SoundNext

\* Each step of a worker is one of the kinds above.
LEMMA WorkerStepKeepsSound ==
    ASSUME Inv, TypeOK', NEW w \in Workers, WorkerStep(w)
    PROVE  SoundNow'
<1> USE DEF SoundNow
<1>1. /\ TypeOK /\ Sound(Tables, worker, desk, faults) /\ Tables.job = job /\ Tables.run = run
      /\ Tables.node = node /\ job \in [Nodes -> JobRows] /\ worker \in AllWorkers
  BY TablesAre DEF Inv
<1>2. worker[w].pc # "idle"
  BY DEF WorkerStep, Begin, StartNode, ReadInput, Execute, Commit, RejectCandidate, ScheduleRepair,
     EnqueueRepair, Respond, FailNode, SettleFailure, Finish, At
<1>3. worker[w].node \in Nodes /\ Stage(w) \in Stages
  BY <1>2, WorkersWork
<1>4. \A pc \in {"begin", "start", "read", "execute", "commit", "schedule", "enqueue", "respond",
                 "finish", "fail", "settle"} : pc \in WorkerStages /\ pc # "idle"
      /\ "other" \in Errors /\ "model" \in Errors
  BY DEF WorkerStages, Errors
<1>5. ASSUME Calm(faults) PROVE StagesInOrder(Tables, worker, desk) /\ OwnersAgree(Tables, worker)
  BY <1>1, <1>5 DEF Sound
<1>6. Holds(Tables, worker, w) <=> Owns(w) /\ Current(worker[w].node)
  BY <1>1, <1>2, <1>3, TablesAre DEF Holds, Owns
<1>7. StatusOf(Tables, worker[w].node) = node[Stage(w)].status
  BY <1>1 DEF StatusOf, Stage
\* What the owner of the job may do next, for a step that changes nothing but its own state.
<1> DEFINE Right(pc) == Calm(faults) /\ Holds(Tables, worker, w) =>
                            StandsRight(pc, node[Stage(w)].status, job[worker[w].node].cancelAsked)
<1>8. Right(worker[w].pc)
  BY <1>1, <1>5, <1>7 DEF OwnersAgree
<1>9. ASSUME NEW pc, Moves(w, pc), pc # "idle", Right(pc), UNCHANGED <<run, node, job, desk, faults>>,
             worker[w].pc \notin {"schedule", "enqueue"}
      PROVE  SoundNow'
  <2>1. /\ \A v \in Workers : v # w => worker'[v] = worker[v]
        /\ worker'[w].targets \subseteq worker[w].targets /\ worker'[w].node = worker[w].node
        /\ worker'[w].pc = pc
    BY <1>9 DEF Moves
  <2> QED BY <1>2, <1>7, <1>9, <2>1, QuietStep
<1>10. CASE Begin(w)
  <2>1. UNCHANGED <<run, node, job, desk, faults>> /\ worker[w].pc = "begin"
    BY <1>10 DEF Begin, KeepTables, At
  <2>2. CASE ~Current(worker[w].node)
    <3>1. Moves(w, "settle")
      BY <1>1, <1>4, <1>10, <2>2, WorkerForms DEF Begin
    <3>2. Right("settle")
      BY <1>6, <2>2
    <3> QED BY <1>4, <1>9, <2>1, <3>1, <3>2
  <2>3. CASE Current(worker[w].node) /\ (run.status = "cancelled"
                          \/ node[worker[w].node.stage].status \in {"succeeded", "cancelled"})
    <3>1. Moves(w, "finish")
      BY <1>1, <1>4, <1>10, <2>3, WorkerForms DEF Begin
    <3>2. Right("finish")
      <4>1. Calm(faults) => node[Stage(w)].status \notin Open
        BY <1>1, <1>3, <1>5, <2>3 DEF StagesInOrder, Open, Stage, Stages, Design, Repair
      <4> QED BY <4>1 DEF StandsRight
    <3> QED BY <1>4, <1>9, <2>1, <3>1, <3>2
  <2>4. CASE Current(worker[w].node) /\ ~(run.status = "cancelled"
                          \/ node[worker[w].node.stage].status \in {"succeeded", "cancelled"})
    <3>1. Moves(w, "start")
      BY <1>1, <1>4, <1>10, <2>4, WorkerForms DEF Begin
    <3>2. Right("start")
      BY <2>4 DEF StandsRight, Stage
    <3> QED BY <1>4, <1>9, <2>1, <3>1, <3>2
  <2> QED BY <2>2, <2>3, <2>4
<1>11. CASE StartNode(w)
  <2>1. UNCHANGED <<job, desk, faults>> /\ worker[w].pc = "start"
    BY <1>11 DEF StartNode, At
  <2>2. CASE Fenced(w) /\ Startable(Stage(w)) /\ node' = [node EXCEPT ![Stage(w)].status = "running"]
             /\ Goto(w, "read")
    <3>1. Moves(w, "read") /\ "running" \in NodeStatuses
      BY <1>1, <1>4, <2>2, WorkerForms DEF NodeStatuses
    <3>2. run'.status = "running"
      BY <1>1, <1>11, <2>2, TablesAre DEF StartNode, RunRows
    <3>3. StandsRight("read", "running", FALSE)
      BY DEF StandsRight
    <3> QED BY <1>3, <2>1, <2>2, <3>1, <3>2, <3>3, NodeStep
  <2>3. CASE UNCHANGED <<run, node>> /\ (IF Fenced(w) THEN Throw(w, "other") ELSE ThrowLeaseLost(w))
    <3>1. CASE Fenced(w)
      <4>1. Moves(w, "fail")
        BY <1>1, <1>4, <2>3, <3>1, WorkerForms DEF Throw
      <4>2. Right("fail")
        BY <1>8, <2>1 DEF StandsRight
      <4> QED BY <1>4, <1>9, <2>1, <2>3, <4>1, <4>2
    <3>2. CASE ~Fenced(w)
      <4>1. Moves(w, "settle")
        BY <1>1, <1>4, <2>3, <3>2, WorkerForms DEF ThrowLeaseLost
      <4>2. Right("settle")
        BY <1>6, <3>2 DEF Fenced, StandsRight
      <4> QED BY <1>4, <1>9, <2>1, <2>3, <4>1, <4>2
    <3> QED BY <3>1, <3>2
  <2> QED BY <1>11, <2>2, <2>3 DEF StartNode
<1>12. CASE ReadInput(w)
  <2>1. UNCHANGED <<run, node, job, desk, faults>> /\ worker[w].pc = "read"
    BY <1>12 DEF ReadInput, KeepTables, At
  <2>2. Right("fail") /\ Right("execute")
    BY <1>8, <2>1 DEF StandsRight
  <2>3. Moves(w, "fail") \/ Moves(w, "execute")
    <3>1. CASE Throw(w, "other")
      BY <1>1, <1>4, <3>1, WorkerForms DEF Throw
    <3>2. CASE worker' = [worker EXCEPT ![w].pc = "execute",
                             ![w].base = IF Stage(w) = Repair THEN candidate ELSE @]
      <4>1. worker' \in AllWorkers
        BY DEF TypeOK, AllWorkers, WorkerStates
      <4> QED BY <1>1, <3>2, <4>1 DEF Moves, AllWorkers, WorkerStates
    <3> QED BY <1>12, <3>1, <3>2 DEF ReadInput
  <2> QED BY <1>4, <1>9, <2>1, <2>2, <2>3
<1>13. CASE Execute(w)
  <2>1. UNCHANGED <<run, node, job, desk, faults>> /\ worker[w].pc = "execute"
    BY <1>13 DEF Execute, KeepTables, At
  <2>2. Right("commit") /\ Right("fail")
    BY <1>8, <2>1 DEF StandsRight
  <2>3. ~Fenced(w) => Right("settle")
    BY <1>6 DEF Fenced, StandsRight
  <2>4. Moves(w, "commit") \/ Moves(w, "fail") \/ (~Fenced(w) /\ Moves(w, "settle"))
    BY <1>1, <1>4, <1>13, WorkerForms DEF Execute, Throw, ThrowLeaseLost
  <2> QED BY <1>4, <1>9, <2>1, <2>2, <2>3, <2>4
<1>14. CASE Commit(w)
  <2>1. UNCHANGED <<job, desk, faults>> /\ worker[w].pc = "commit" /\ Fenced(w)
    BY <1>14 DEF Commit, Committable, At
  <2>2. CASE /\ Stage(w) = Design /\ node' = RepairQueued
             /\ run' = [status |-> "queued", repairs |-> run.repairs + 1, repair |-> "queued"]
             /\ Leave(w, "schedule")
    <3>1. Moves(w, "schedule") /\ run'.status = "queued"
      BY <1>1, <1>4, <2>2, WorkerForms
    <3> QED BY <2>1, <2>2, <3>1, RepairStep
  <2>3. CASE /\ node' = [node EXCEPT ![Stage(w)].status = "succeeded"]
             /\ \E repair \in SettledRepairs :
                   run' = [run EXCEPT !.status = "succeeded", !.repair = repair]
             /\ Leave(w, "respond")
    <3>1. Moves(w, "respond") /\ "succeeded" \in NodeStatuses
      BY <1>1, <1>4, <2>3, WorkerForms DEF NodeStatuses
    <3>2. run'.status = "succeeded" /\ run'.repair \notin {"idle", "queued", "running"}
      <4>1. PICK repair \in SettledRepairs : run' = [run EXCEPT !.status = "succeeded", !.repair = repair]
        BY <2>3
      <4>2. repair \notin {"idle", "queued", "running"}
        BY <4>1 DEF SettledRepairs
      <4> QED BY <1>1, <4>1, <4>2, TablesAre DEF RunRows
    <3>3. StandsRight("respond", "succeeded", FALSE)
      BY DEF StandsRight, Open
    <3> QED BY <1>3, <2>1, <2>3, <3>1, <3>2, <3>3, NodeStep
  <2> QED BY <1>14, <2>2, <2>3 DEF Commit
<1>15. CASE RejectCandidate(w)
  <2>1. UNCHANGED <<run, node, job, desk, faults>> /\ worker[w].pc = "commit"
    BY <1>15 DEF RejectCandidate, KeepTables, At
  <2>2. CASE Fenced(w) /\ node[Stage(w)].status = "running"
    <3>1. Moves(w, "fail")
      BY <1>1, <1>4, <1>15, <2>2, WorkerForms DEF RejectCandidate, Throw
    <3>2. Right("fail")
      BY <1>8, <2>1 DEF StandsRight
    <3> QED BY <1>4, <1>9, <2>1, <3>1, <3>2
  <2>3. CASE ~(Fenced(w) /\ node[Stage(w)].status = "running")
    <3>1. Moves(w, "settle")
      BY <1>1, <1>4, <1>15, <2>3, WorkerForms DEF RejectCandidate, ThrowLeaseLost
    <3>2. Right("settle")
      BY <1>6, <1>8, <2>1, <2>3 DEF Fenced, StandsRight, Open
    <3> QED BY <1>4, <1>9, <2>1, <3>1, <3>2
  <2> QED BY <2>2, <2>3
<1>16. CASE ScheduleRepair(w)
  <2>1. /\ UNCHANGED <<run, node, job, desk, faults>> /\ worker[w].pc = "schedule"
        /\ \A v \in Workers : v # w => worker'[v] = worker[v]
        /\ worker'[w].pc = IF QueuedNodes = {} THEN "respond" ELSE "enqueue"
        /\ worker'[w].targets = QueuedNodes /\ worker'[w].node = worker[w].node
    BY <1>1, <1>16 DEF ScheduleRepair, KeepTables, At, AllWorkers, WorkerStates
  <2>2. \A v \in Workers : worker'[v].targets \subseteq worker[v].targets \union QueuedNodes
    BY <2>1
  <2>3. \A h \in Handlers : desk'[h].targets \subseteq desk[h].targets \union QueuedNodes
    BY <2>1
  <2>4. \A v \in Workers : worker'[v].pc # "idle" =>
          /\ worker[v].pc # "idle" /\ worker'[v].node = worker[v].node
          /\ worker'[v].pc = worker[v].pc
             \/ (worker[v].pc = "schedule" /\ worker'[v].pc \in {"enqueue", "respond"})
    BY <1>2, <2>1
  <2>5. \A v \in Workers, m \in QueuedNodes : ScheduledBy(worker[v], m) => ScheduledBy(worker'[v], m)
    BY <2>1 DEF ScheduledBy
  <2>6. \A h \in Handlers, m \in QueuedNodes : ScheduledBy(desk[h], m) => ScheduledBy(desk'[h], m)
    BY <2>1
  <2> QED BY <2>1, <2>2, <2>3, <2>4, <2>5, <2>6, ScheduleStep
<1>17. CASE EnqueueRepair(w)
  <2>1. PICK n \in worker[w].targets :
           /\ job' = Enqueued(n)
           /\ worker' = [worker EXCEPT
                 ![w].targets = worker[w].targets \ {n},
                 ![w].pc = IF worker[w].targets = {n} THEN "respond" ELSE "enqueue"]
    BY <1>1, <1>17 DEF EnqueueRepair, AllWorkers
  <2>2. /\ UNCHANGED <<run, node, desk, faults>> /\ worker[w].pc = "enqueue"
        /\ \A v \in Workers : v # w => worker'[v] = worker[v]
        /\ worker'[w].pc = IF worker[w].targets = {n} THEN "respond" ELSE "enqueue"
        /\ worker'[w].targets = worker[w].targets \ {n} /\ worker'[w].node = worker[w].node
        /\ n \in Nodes
    BY <1>1, <1>17, <2>1 DEF EnqueueRepair, At, AllWorkers, WorkerStates
  <2>3. Targeted(worker, desk, n)
    BY <2>1 DEF Targeted
  <2>4. /\ \A v \in Workers : worker'[v].targets \subseteq worker[v].targets
        /\ \A h \in Handlers : desk'[h].targets \subseteq desk[h].targets
        /\ \A v \in Workers : worker'[v].pc # "idle" =>
             /\ worker[v].pc # "idle" /\ worker'[v].node = worker[v].node
             /\ worker'[v].pc = worker[v].pc
                \/ (worker[v].pc = "enqueue" /\ worker'[v].pc = "respond")
    BY <1>2, <2>2
  <2>5. /\ \A v \in Workers, m \in Nodes :
             m # n /\ ScheduledBy(worker[v], m) => ScheduledBy(worker'[v], m)
        /\ \A h \in Handlers, m \in Nodes :
             m # n /\ ScheduledBy(desk[h], m) => ScheduledBy(desk'[h], m)
    BY <2>2 DEF ScheduledBy
  <2> QED BY <2>1, <2>2, <2>3, <2>4, <2>5, EnqueueStep
<1>18. CASE Respond(w)
  <2>1. UNCHANGED <<run, node, job, desk, faults>> /\ worker[w].pc = "respond"
    BY <1>18 DEF Respond, KeepTables, At
  <2>2. Right("finish")
    BY <1>8, <2>1 DEF StandsRight
  <2>3. Moves(w, "finish")
    BY <1>1, <1>4, <1>18, WorkerForms DEF Respond
  <2> QED BY <1>4, <1>9, <2>1, <2>2, <2>3
<1>19. CASE FailNode(w)
  <2>1. UNCHANGED <<job, desk, faults>> /\ worker[w].pc = "fail" /\ Moves(w, "settle")
    BY <1>1, <1>4, <1>19, WorkerForms DEF FailNode, At
  <2>2. CASE Fenced(w) /\ run.status # "cancelled"
    <3>1. node' = [node EXCEPT ![FailedNode(w)].status = "failed"] /\ run' = [run EXCEPT !.status = "failed"]
      BY <1>19, <2>2 DEF FailNode
    <3>2. FailedNode(w) \in Stages /\ "failed" \in NodeStatuses /\ run'.status = "failed"
      <4>1. run'.status = "failed"
        BY <1>1, <3>1, TablesAre DEF RunRows
      <4>2. Design \in Stages
        BY DEF Stages, Design
      <4>3. FailedNode(w) \in Stages
        BY <1>3, <4>2 DEF FailedNode
      <4> QED BY <4>1, <4>3 DEF NodeStatuses
    <3>3. ASSUME Calm(faults) PROVE FailedNode(w) = Stage(w)
      <4>1. /\ Stage(w) = Design => node[Repair].status # "running"
            /\ Stage(w) = Repair => node[Design].status # "running"
        BY <1>6, <2>1, <2>2, <3>3, OwnerKnows DEF Fenced
      <4>2. \A k \in Stages : node[k].status = "running" => k = Stage(w)
        BY <1>3, <4>1 DEF Stages, Design, Repair
      <4>3. CASE \E k \in Stages : node[k].status = "running"
        <5>1. \A k \in Stages :
                 node[k].status = "running" /\ (node[Design].status = "running" => k = Design)
                 => k = Stage(w)
          BY <4>2
        <5>2. \E k \in Stages :
                 node[k].status = "running" /\ (node[Design].status = "running" => k = Design)
          BY <4>3 DEF Stages, Design, Repair
        <5> QED BY <4>3, <5>1, <5>2 DEF FailedNode
      <4>4. CASE ~\E k \in Stages : node[k].status = "running"
        BY <4>4 DEF FailedNode
      <4> QED BY <4>3, <4>4
    <3>4. StandsRight("settle", "failed", FALSE)
      BY DEF StandsRight, Open
    <3> QED BY <1>4, <2>1, <2>2, <3>1, <3>2, <3>3, <3>4, NodeStep
  <2>3. CASE ~(Fenced(w) /\ run.status # "cancelled")
    <3>1. UNCHANGED <<run, node>>
      BY <1>19, <2>3 DEF FailNode
    <3>2. Right("settle")
      <4>1. Calm(faults) /\ run.status = "cancelled" => node[Stage(w)].status \notin Open
        BY <1>1, <1>3, <1>5 DEF StagesInOrder, Open, Stages, Design, Repair
      <4> QED BY <1>6, <2>3, <4>1 DEF Fenced, StandsRight
    <3> QED BY <1>4, <1>9, <2>1, <3>1, <3>2
  <2> QED BY <2>2, <2>3
<1>20. CASE SettleFailure(w) \/ Finish(w)
  <2>1. /\ UNCHANGED <<run, node, desk, faults>> /\ worker[w].pc \in {"settle", "finish"}
        /\ Rests(w) /\ job' \in {job, ReleasedJob(w), FinishedJob(w)}
    BY <1>1, <1>20, WorkerForms DEF SettleFailure, Finish, At
  <2>2. ASSUME Reliable(faults), Owns(w), Current(worker[w].node),
               StatusOf(Tables, worker[w].node) \in Open
        PROVE  Cancelling(desk)
    <3>1. Calm(faults) /\ WorkIsKept(Tables, worker, desk, faults)
      BY <1>1, <2>2 DEF Sound, Reliable, Calm
    <3>2. job[worker[w].node].cancelAsked
      BY <1>6, <1>7, <1>8, <2>1, <2>2, <3>1 DEF StandsRight
    <3>3. worker[w].node = Present(Tables, Stage(w))
      BY <1>1, <1>3, <2>2 DEF Current, Present, Nodes, Stage
    <3> QED BY <1>1, <1>3, <1>7, <2>2, <3>1, <3>2, <3>3 DEF WorkIsKept, StageIsKept, Owns
  <2> QED BY <1>2, <2>1, <2>2, SettleStep
<1> QED BY <1>10, <1>11, <1>12, <1>13, <1>14, <1>15, <1>16, <1>17, <1>18, <1>19, <1>20 DEF WorkerStep

\* So is each other step.
LEMMA SoundIsKept == ASSUME Inv, TypeOK', [Next]_vars PROVE SoundNow'
<1>1. /\ TypeOK /\ Sound(Tables, worker, desk, faults) /\ Tables.job = job /\ Tables.run = run
      /\ Tables.node = node /\ job \in [Nodes -> JobRows] /\ worker \in AllWorkers /\ desk \in AllDesks
  BY TablesAre DEF Inv
<1>2. ASSUME UNCHANGED <<run, node, job, worker, desk, faults>> PROVE SoundNow'
  BY <1>1, <1>2 DEF SoundNow, Tables
<1>3. ASSUME NEW h \in Handlers, CreateRun(h) \/ CancelTestDesignJob(h) \/ Resynthesize(h)
      PROVE  SoundNow'
  BY <1>3, CreateRunStep, CancelJobsStep, ResynthesizeStep
<1>4. ASSUME NEW h \in Handlers, HandlerStep(h) PROVE SoundNow'
  <2>1. CASE Schedule(h)
    <3>1. /\ UNCHANGED <<run, node, job, worker, faults>> /\ desk[h].pc = "schedule"
          /\ \A i \in Handlers : i # h => desk'[i] = desk[i]
          /\ desk'[h] = IF QueuedNodes = {} THEN AtRest
                        ELSE [pc |-> "enqueue", targets |-> QueuedNodes]
      BY <1>1, <2>1 DEF Schedule, AllDesks
    <3>2. /\ \A i \in Handlers : desk'[i].targets \subseteq desk[i].targets \union QueuedNodes
          /\ \A i \in Handlers, m \in QueuedNodes : ScheduledBy(desk[i], m) => ScheduledBy(desk'[i], m)
          /\ Cancelling(desk) => Cancelling(desk')
      BY <3>1 DEF AtRest, ScheduledBy, Cancelling
    <3> QED BY <3>1, <3>2, ScheduleStep DEF Inv
  <2>2. CASE Enqueue(h)
    <3>1. PICK n \in desk[h].targets :
             /\ job' = Enqueued(n)
             /\ desk' = [desk EXCEPT ![h] =
                   IF desk[h].targets = {n} THEN AtRest
                   ELSE [pc |-> "enqueue", targets |-> desk[h].targets \ {n}]]
      BY <2>2 DEF Enqueue
    <3>2. /\ UNCHANGED <<run, node, worker, faults>> /\ desk[h].pc = "enqueue" /\ n \in Nodes
          /\ \A i \in Handlers : i # h => desk'[i] = desk[i]
          /\ desk'[h] = IF desk[h].targets = {n} THEN AtRest
                        ELSE [pc |-> "enqueue", targets |-> desk[h].targets \ {n}]
          /\ Targeted(worker, desk, n)
      BY <1>1, <2>2, <3>1 DEF Enqueue, AllDesks, DeskStates, Targeted
    <3>3. /\ \A i \in Handlers : desk'[i].targets \subseteq desk[i].targets
          /\ \A i \in Handlers, m \in Nodes :
                m # n /\ ScheduledBy(desk[i], m) => ScheduledBy(desk'[i], m)
          /\ Cancelling(desk) => Cancelling(desk')
      BY <3>2 DEF AtRest, ScheduledBy, Cancelling
    <3> QED BY <3>1, <3>2, <3>3, EnqueueStep DEF Inv
  <2> QED BY <1>4, <2>1, <2>2, CancelRunStep DEF HandlerStep
<1>5. ASSUME EditCase \/ ReAudit PROVE SoundNow'
  BY <1>2, <1>5 DEF EditCase, ReAudit
<1>6. ASSUME NEW w \in Workers, ClaimTestDesignJob(w) \/ ClaimNothing(w) \/ WorkerStep(w) PROVE SoundNow'
  BY <1>6, ClaimStep, ClaimNothingStep, WorkerStepKeepsSound
<1>7. ASSUME NEW w \in Workers, SettleStoppedWork(w) \/ StopWorker(w) PROVE SoundNow'
  <2>1. /\ UNCHANGED <<run, node, desk>> /\ faults \subseteq faults'
        /\ worker[w].pc \notin {"idle", "schedule", "enqueue"} /\ Rests(w)
        /\ job' \in {job, ReleasedJob(w), FinishedJob(w)}
    BY <1>1, <1>7, WorkerForms DEF SettleStoppedWork, StopWorker, Checked, Fault
  <2>2. ASSUME Reliable(faults'), job' # job, job' # ReleasedJob(w), Owns(w), Current(worker[w].node),
               StatusOf(Tables, worker[w].node) \in Open
        PROVE  Cancelling(desk)
    <3>1. WorkIsKept(Tables, worker, desk, faults)
      BY <1>1, <2>1, <2>2 DEF Sound, Reliable
    <3>2. job[worker[w].node].cancelAsked
      BY <1>7, <2>2 DEF SettleStoppedWork, StopWorker
    <3>3. Stage(w) \in Stages /\ worker[w].node \in Nodes
      BY <2>1, WorkersWork
    <3>4. worker[w].node = Present(Tables, Stage(w))
      BY <1>1, <3>3, <2>2 DEF Current, Present, Nodes, Stage
    <3> QED BY <1>1, <2>2, <3>1, <3>2, <3>3, <3>4 DEF WorkIsKept, StageIsKept, Owns, StatusOf, Stage
  <2> QED BY <2>1, <2>2, SettleStep
<1>8. ASSUME NEW w \in Workers, CrashWorker(w) \/ FailToRead(w) \/ FailToEnqueue(w) \/ LoseFailure(w)
      PROVE  SoundNow'
  <2>1. /\ UNCHANGED <<run, node, job, desk>> /\ faults \subseteq faults' /\ worker[w].pc # "idle"
        /\ \/ "worker_crash" \in faults' /\ Rests(w)
           \/ "query_failure" \in faults' /\ (Moves(w, "settle") \/ Moves(w, "fail"))
    <3>1. "settle" \in WorkerStages /\ "fail" \in WorkerStages /\ "other" \in Errors
      BY DEF WorkerStages, Errors
    <3> QED BY <1>1, <1>8, <3>1, WorkerForms
        DEF CrashWorker, FailToRead, FailToEnqueue, LoseFailure, KeepTables, Fault, At, Throw
  <2>2. /\ \A v \in Workers : v # w => worker'[v] = worker[v]
        /\ worker'[w].targets \subseteq worker[w].targets
        /\ worker'[w].pc = "idle" \/ worker'[w].node = worker[w].node
    BY <2>1 DEF Moves, Rests
  <2>3. "query_failure" \in faults' => ~Calm(faults') /\ ~Reliable(faults')
    BY DEF Calm, Reliable
  <2>4. Rests(w) => worker'[w].pc = "idle"
    BY DEF Rests
  <2> QED BY <2>1, <2>2, <2>3, <2>4, QuietStep
<1>9. ASSUME NEW n \in Nodes, LeaseExpires(n) \/ PauseWorker(n) PROVE SoundNow'
  BY <1>9, LeaseStep DEF LeaseExpires, PauseWorker, Fault
<1>10. ASSUME CrashApi PROVE SoundNow'
  BY <1>10, CrashApiStep
<1>11. ASSUME UNCHANGED vars PROVE SoundNow'
  BY <1>2, <1>11 DEF vars
<1> QED BY <1>3, <1>4, <1>5, <1>6, <1>7, <1>8, <1>9, <1>10, <1>11 DEF Next

--------------------------------------------------------------------------------
(***************************************************************************)
(* The theorems.                                                            *)
(***************************************************************************)
\* A run that does not exist yet satisfies the invariant.
LEMMA InitIsSound == ASSUME Init PROVE Inv
<1> USE BoundsAssumption
<1>1. Design \in Stages /\ Repair \in Stages /\ Design # Repair
      /\ \A k \in Stages : k = Design \/ k = Repair
  BY DEF Stages, Design, Repair
<1>2. run \in RunRows /\ run.status = "absent"
  BY DEF Init, RunRows, RunStatuses, RepairStatuses
<1>3. /\ node \in NodeRows /\ node[Design].status = "queued" /\ node[Repair].status = "pending"
      /\ \A k \in Stages : node[k].generation = 1
  BY <1>1 DEF Init, NodeRows, Generations, NodeStatuses
<1>4. job \in [Nodes -> JobRows] /\ \A n \in Nodes : job[n].status = "absent"
  BY JobRowsAre DEF Init
<1>5. /\ worker \in AllWorkers
      /\ \A w \in Workers : worker[w].pc = "idle" /\ worker[w].targets = {}
  BY DEF Init, AllWorkers, WorkerStates, WorkerStages, Errors, Idle
<1>6. /\ desk \in AllDesks
      /\ \A h \in Handlers : desk[h].pc = "idle" /\ desk[h].targets = {}
  BY DEF Init, AllDesks, DeskStates, AtRest
<1>7. TypeOK
  BY <1>2, <1>3, <1>4, <1>5, <1>6
  DEF Init, TypeOK, RunRows, NodeRows, AllWorkers, AllDesks, WorkerStates, DeskStates, Candidates
<1>8. /\ Tables.run = run /\ Tables.node = node /\ Tables.job = job
      /\ \A k \in Stages : Present(Tables, k) \in Nodes
  BY <1>7, TablesAre
<1>9. \A n \in Nodes : ~Used(Tables, worker, desk, n)
  BY <1>4, <1>5, <1>6, <1>8 DEF Used, Targeted
<1>10. NodesAreKnown(Tables, worker, desk)
  BY <1>4, <1>5, <1>8, <1>9 DEF NodesAreKnown
<1>11. StagesInOrder(Tables, worker, desk)
  BY <1>1, <1>2, <1>3, <1>8, <1>9 DEF StagesInOrder, Open
<1>12. OwnersAgree(Tables, worker)
  BY <1>5 DEF OwnersAgree, Holds
<1>13. WorkIsKept(Tables, worker, desk, faults)
  BY <1>1, <1>2, <1>3, <1>4, <1>8 DEF WorkIsKept, StageIsKept, JobEnded
<1>14. AuditIsOfTheCases
  BY DEF Init, AuditIsOfTheCases
<1> QED BY <1>7, <1>10, <1>11, <1>12, <1>13, <1>14 DEF Inv, Sound

\* Whoever writes cases writes their audit, or declares the old one stale.
LEMMA AuditIsKept == ASSUME AuditIsOfTheCases, [Next]_vars PROVE AuditIsOfTheCases'
<1>1. \/ UNCHANGED <<candidate, audit>>
      \/ audit' = Stale
      \/ audit' = candidate'
  <2>1. ASSUME NEW w \in Workers, WorkerStep(w)
        PROVE  UNCHANGED <<candidate, audit>> \/ audit' = candidate'
    BY <2>1 DEF WorkerStep, Begin, StartNode, ReadInput, Execute, Commit, RejectCandidate, ScheduleRepair,
       EnqueueRepair, Respond, FailNode, SettleFailure, Finish, KeepTables
  <2>2. ASSUME NEW h \in Handlers,
               CreateRun(h) \/ CancelTestDesignJob(h) \/ Resynthesize(h) \/ HandlerStep(h)
        PROVE  UNCHANGED <<candidate, audit>> \/ audit' = Stale
    BY <2>2 DEF CreateRun, CancelTestDesignJob, Resynthesize, HandlerStep, Schedule, Enqueue, CancelRun
  <2>3. ASSUME NEW w \in Workers,
               \/ ClaimTestDesignJob(w) \/ ClaimNothing(w) \/ SettleStoppedWork(w) \/ StopWorker(w)
               \/ CrashWorker(w) \/ FailToRead(w) \/ FailToEnqueue(w) \/ LoseFailure(w)
        PROVE  UNCHANGED <<candidate, audit>>
    BY <2>3 DEF ClaimTestDesignJob, ClaimNothing, SettleStoppedWork, StopWorker, CrashWorker,
       FailToRead, FailToEnqueue, LoseFailure, KeepTables
  <2>4. ASSUME EditCase \/ ReAudit PROVE audit' = Stale \/ audit' = candidate'
    BY <2>4 DEF EditCase, ReAudit
  <2>5. ASSUME \/ \E n \in Nodes : LeaseExpires(n) \/ PauseWorker(n)
               \/ CrashApi \/ UNCHANGED vars
        PROVE  UNCHANGED <<candidate, audit>>
    BY <2>5 DEF LeaseExpires, PauseWorker, CrashApi, KeepTables, vars
  <2> QED BY <2>1, <2>2, <2>3, <2>4, <2>5 DEF Next
<1> QED BY <1>1 DEF AuditIsOfTheCases, Stale

\* The invariant is inductive.
LEMMA InvIsKept == ASSUME Inv, [Next]_vars PROVE Inv'
BY TypeIsKept, SoundIsKept, AuditIsKept DEF Inv, SoundNow

\* What is inductive: the stages of a run are in order, the owners of its jobs stand where
\* the status of their nodes says, and what is open is kept going.
THEOREM TestDesignIsSound == Spec => []Inv
<1>1. Init => Inv
  BY InitIsSound
<1>2. Inv /\ [Next]_vars => Inv'
  BY InvIsKept
<1> QED BY <1>1, <1>2, PTL DEF Spec

\* Every variable stays in its range, in particular attempts and generations within their
\* bounds and the status of every row within those of its table.
THEOREM TestDesignTypes == Spec => []TypeOK
<1>1. Inv => TypeOK
  BY DEF Inv
<1> QED BY <1>1, TestDesignIsSound, PTL

\* The valid coverage audit is about the cases the run has, whoever changed them, and
\* every table has its type.
THEOREM TheAuditIsOfTheCases == Spec => []CasesAndAuditAgree
<1>1. Inv => CasesAndAuditAgree
  BY DEF Inv, CasesAndAuditAgree
<1> QED BY <1>1, TestDesignIsSound, PTL

\* The invariant says of the present state what RunMatchesItsStages states.
LEMMA SoundMatches == ASSUME Inv PROVE RunMatchesItsStages
<1>1. /\ Sound(Tables, worker, desk, faults) /\ Tables.job = job /\ Tables.run = run
      /\ Tables.node = node /\ worker \in AllWorkers
      /\ \A k \in Stages : NodeOf(k) = Present(Tables, k)
      /\ Design \in Stages /\ Repair \in Stages /\ \A k \in Stages : k = Design \/ k = Repair
      /\ run.status \in RunStatuses /\ job \in [Nodes -> JobRows]
      /\ \A k \in Stages : NodeOf(k) \in Nodes
  BY TablesAre DEF Inv, Stages, Design, Repair, RunRows
<1>2. ASSUME Undisturbed PROVE StagesInOrder(Tables, worker, desk)
  BY <1>1, <1>2 DEF Sound, Calm, Undisturbed
<1>3. RunHasAKeeper
  <2> SUFFICES ASSUME run.status \in {"queued", "running"},
                      faults \intersect {"api_crash", "query_failure"} = {}
               PROVE  \/ RepairNeverScheduled \/ Scheduling
                      \/ \E k \in Stages : job[NodeOf(k)].status \in {"queued", "running"}
                      \/ \E h \in Handlers : desk[h].pc = "cancel"
    BY DEF RunHasAKeeper
  <2>1. StagesInOrder(Tables, worker, desk) /\ WorkIsKept(Tables, worker, desk, faults)
    BY <1>1, <1>2 DEF Sound, Reliable, Undisturbed
  <2>2. PICK k \in Stages : node[k].status \in Open
    BY <1>1, <2>1 DEF StagesInOrder, Open
  <2>3. StageIsKept(k, Tables, worker, desk, faults)
    BY <2>1 DEF WorkIsKept
  <2>4. CASE job[NodeOf(k)].status = "absent"
    <3>1. \/ \E h \in Handlers : ScheduledBy(desk[h], NodeOf(k))
          \/ /\ k = Repair /\ node[k].status = "queued"
             /\ \/ "worker_crash" \in faults
                \/ \E w \in Workers : ScheduledBy(worker[w], NodeOf(k))
      BY <1>1, <2>2, <2>3, <2>4 DEF StageIsKept, Open
    <3> QED BY <2>4, <3>1 DEF ScheduledBy, Scheduling, RepairNeverScheduled
  <2>5. CASE job[NodeOf(k)].status \in JobEnded
    BY <1>1, <2>2, <2>3, <2>5 DEF StageIsKept, Cancelling
  <2>6. job[NodeOf(k)].status \in JobStatuses
    BY <1>1 DEF JobRows
  <2> QED BY <2>4, <2>5, <2>6 DEF JobStatuses
<1>4. SuccessIsFinal
  BY <1>1, <1>2 DEF SuccessIsFinal, StagesInOrder, Open
<1>5. OneStageAtATime
  <2> SUFFICES ASSUME Undisturbed, NEW v \in Workers, NEW w \in Workers, v # w,
                      worker[v].pc = "commit", worker[w].pc = "commit",
                      Committable(v), Committable(w)
               PROVE  FALSE
    BY DEF OneStageAtATime
  <2>1. /\ worker[v].node \in Nodes /\ worker[w].node \in Nodes
        /\ Stage(v) \in Stages /\ Stage(w) \in Stages
    BY WorkersWork
  <2>2. Stage(v) # Stage(w)
    <3>1. worker[v].node # worker[w].node
      BY DEF Committable, Fenced, Owns
    <3> QED BY <2>1, <3>1 DEF Committable, Fenced, Current, Nodes, Stage
  <2>3. node[Design].status = "running" /\ node[Repair].status = "running"
    BY <1>1, <2>1, <2>2 DEF Committable
  <2> QED BY <1>1, <1>2, <2>3 DEF StagesInOrder
<1> QED BY <1>3, <1>4, <1>5 DEF RunMatchesItsStages

\* An open run has somebody who brings it on, a run that succeeded nobody, and two workers
\* are never both entitled to write its results.
THEOREM TheRunMatchesItsStages == Spec => []RunMatchesItsStages
<1>1. Inv => RunMatchesItsStages
  BY SoundMatches
<1> QED BY <1>1, TestDesignIsSound, PTL

\* What is cancelled is left alone by recovery, by whoever owns a job, and by the queue.
LEMMA CancelledStays ==
    ASSUME Inv, [Next]_vars, run.status = "cancelled", Undisturbed,
           \A k \in Stages : node[k].status \notin {"failed", "running"}
    PROVE  run'.status = "cancelled" \/ node'[Design].generation > node[Design].generation
<1>1. /\ TypeOK /\ Sound(Tables, worker, desk, faults) /\ Tables.run = run /\ Tables.node = node
      /\ node \in NodeRows /\ Design \in Stages /\ run \in RunRows
  BY TablesAre DEF Inv, Stages, Design
<1>2. \A k \in Stages : node[k].status \notin {"queued", "running", "failed"}
  <2>1. StagesInOrder(Tables, worker, desk)
    BY <1>1 DEF Sound, Calm, Undisturbed
  <2>2. node[Design].status \notin Open /\ node[Repair].status \notin Open
    BY <1>1, <2>1 DEF StagesInOrder, Open
  <2> QED BY <2>2 DEF Stages, Design, Repair, Open
<1>3. ASSUME NEW h \in Handlers,
             CreateRun(h) \/ CancelTestDesignJob(h) \/ Resynthesize(h) \/ HandlerStep(h)
      PROVE  run'.status = "cancelled" \/ node'[Design].generation > node[Design].generation
  <2>1. CASE Resynthesize(h)
    <3>1. node'[Design].generation = node[Design].generation + 1 /\ node[Design].generation \in Nat
      BY <1>1, <2>1 DEF Resynthesize, Regenerated, NodeRows, Generations
    <3> QED BY <3>1
  <2>2. CASE CancelRun(h)
    BY <1>1, <2>2 DEF CancelRun, RunRows
  <2>3. CASE CreateRun(h) \/ CancelTestDesignJob(h) \/ Schedule(h) \/ Enqueue(h)
    BY <2>3 DEF CreateRun, CancelTestDesignJob, Schedule, Enqueue
  <2> QED BY <1>3, <2>1, <2>2, <2>3 DEF HandlerStep
<1>4. ASSUME NEW w \in Workers, ClaimTestDesignJob(w) \/ ClaimNothing(w) PROVE run' = run
  <2>1. PICK t \in Recovered : run' = t.run
    BY <1>4 DEF ClaimTestDesignJob, ClaimNothing
  <2> QED BY <1>1, <2>1, RecoveredKeepsSound
<1>5. ASSUME NEW w \in Workers, WorkerStep(w) PROVE run' = run
  <2>1. ~(Fenced(w) /\ Startable(Stage(w))) \/ ~StartNode(w)
    BY <1>2, WorkersWork DEF Startable, StartNode, At
  <2>2. ~Commit(w)
    BY <1>2, WorkersWork DEF Commit, Committable, At
  <2> QED BY <1>5, <2>1, <2>2 DEF WorkerStep, Begin, StartNode, ReadInput, Execute, RejectCandidate,
      ScheduleRepair, EnqueueRepair, Respond, FailNode, SettleFailure, Finish, KeepTables
<1>6. ASSUME NEW w \in Workers,
             \/ SettleStoppedWork(w) \/ StopWorker(w)
             \/ CrashWorker(w) \/ FailToRead(w) \/ FailToEnqueue(w) \/ LoseFailure(w)
      PROVE  run' = run
  BY <1>6 DEF SettleStoppedWork, StopWorker, CrashWorker, FailToRead, FailToEnqueue, LoseFailure,
     KeepTables
<1>7. ASSUME \/ EditCase \/ ReAudit \/ CrashApi \/ UNCHANGED vars
             \/ \E n \in Nodes : LeaseExpires(n) \/ PauseWorker(n)
      PROVE  run' = run
  BY <1>7 DEF EditCase, ReAudit, LeaseExpires, PauseWorker, CrashApi, KeepTables, vars
<1> QED BY <1>3, <1>4, <1>5, <1>6, <1>7 DEF Next

\* A run that was cancelled with its stages is not revived by whoever had claimed or begun
\* one of them.
THEOREM ACancelledRunStaysCancelled == Spec => CancelledStaysCancelled
<1>1. Inv /\ [Next]_vars =>
         [run.status = "cancelled" /\ Undisturbed
          /\ (\A k \in Stages : node[k].status \notin {"failed", "running"}) =>
             run'.status = "cancelled" \/ node'[Design].generation > node[Design].generation]_vars
  BY CancelledStays
<1> QED BY <1>1, TestDesignIsSound, PTL DEF Spec, CancelledStaysCancelled

\* The steps that write the run, its nodes or its cases, each made by a request, by a claim,
\* or by a worker that holds the job of a present node.
LEMMA OnlyOwnersWrite ==
    ASSUME Inv, [Next]_vars
    PROVE  \/ UNCHANGED <<run, node, candidate, audit>>
           \/ UNCHANGED worker
           \/ \E w \in Workers : /\ \A v \in Workers : v # w => worker'[v] = worker[v]
                                 /\ worker[w].pc = "idle" \/ Current(worker[w].node)
<1>1. ASSUME NEW w \in Workers, WorkerStep(w)
      PROVE  \/ UNCHANGED <<run, node, candidate, audit>>
             \/ Current(worker[w].node) /\ \A v \in Workers : v # w => worker'[v] = worker[v]
  <2>1. StartNode(w) \/ Commit(w) \/ FailNode(w)
        => \A v \in Workers : v # w => worker'[v] = worker[v]
    <3>1. \A pc \in {"read", "fail", "settle", "schedule", "respond"} : pc \in WorkerStages
      BY DEF WorkerStages
    <3>2. "other" \in Errors
      BY DEF Errors
    <3> QED BY <3>1, <3>2, WorkerForms
        DEF StartNode, Commit, FailNode, Throw, ThrowLeaseLost, Moves, Inv
  <2>2. \/ UNCHANGED <<run, node, candidate, audit>>
        \/ (StartNode(w) \/ Commit(w) \/ FailNode(w)) /\ Fenced(w)
    BY <1>1 DEF WorkerStep, Begin, StartNode, ReadInput, Execute, Commit, Committable, RejectCandidate,
       ScheduleRepair, EnqueueRepair, Respond, FailNode, SettleFailure, Finish, KeepTables
  <2> QED BY <2>1, <2>2 DEF Fenced
<1>2. ASSUME NEW w \in Workers, ClaimTestDesignJob(w) \/ ClaimNothing(w)
      PROVE  worker[w].pc = "idle" /\ \A v \in Workers : v # w => worker'[v] = worker[v]
  <2>1. worker \in AllWorkers
    BY TablesAre DEF Inv
  <2> QED BY <1>2, <2>1 DEF ClaimTestDesignJob, ClaimNothing, AllWorkers
<1>3. ASSUME NEW w \in Workers,
             \/ SettleStoppedWork(w) \/ StopWorker(w)
             \/ CrashWorker(w) \/ FailToRead(w) \/ FailToEnqueue(w) \/ LoseFailure(w)
      PROVE  UNCHANGED <<run, node, candidate, audit>>
  BY <1>3 DEF SettleStoppedWork, StopWorker, CrashWorker, FailToRead, FailToEnqueue, LoseFailure,
     KeepTables
<1>4. ASSUME \/ \E h \in Handlers :
                   CreateRun(h) \/ CancelTestDesignJob(h) \/ Resynthesize(h) \/ HandlerStep(h)
             \/ EditCase \/ ReAudit \/ CrashApi \/ UNCHANGED vars
             \/ \E n \in Nodes : LeaseExpires(n) \/ PauseWorker(n)
      PROVE  UNCHANGED worker
  BY <1>4 DEF CreateRun, CancelTestDesignJob, Resynthesize, HandlerStep, Schedule, Enqueue, CancelRun,
     EditCase, ReAudit, LeaseExpires, PauseWorker, CrashApi, KeepTables, vars
<1> QED BY <1>1, <1>2, <1>3, <1>4 DEF Next

\* However late a worker of a replaced generation wakes up, it writes nothing.
THEOREM ReplacedGenerationsWriteNothing == Spec => OldGenerationsWriteNothing
<1>1. Inv /\ [Next]_vars =>
         [\A w \in Workers :
             worker'[w] # worker[w] /\ worker[w].pc # "idle" /\ ~Current(worker[w].node) =>
                 UNCHANGED <<run, node, candidate, audit>>]_vars
  BY OnlyOwnersWrite
<1> QED BY <1>1, TestDesignIsSound, PTL DEF Spec, OldGenerationsWriteNothing

\* The repair commits only over the cases it has read.
LEMMA EditsSurvive ==
    ASSUME Inv, [Next]_vars, candidate'.by.stage = Repair
    PROVE  candidate'.edits >= candidate.edits
<1>1. candidate \in Candidates /\ candidate.edits \in Nat
  BY BoundsAssumption DEF Inv, TypeOK, Candidates
<1>2. CASE UNCHANGED candidate
  BY <1>1, <1>2
<1>3. CASE EditCase
  BY <1>1, <1>3 DEF EditCase, Edited, Candidates
<1>4. ASSUME NEW w \in Workers, Commit(w) PROVE candidate'.edits >= candidate.edits
  <2>1. candidate' = Written(w) /\ (Stage(w) = Repair => candidate = worker[w].base)
    BY <1>4 DEF Commit, Committable
  <2>2. Stage(w) = Repair
    BY <2>1 DEF Written, Stage
  <2> QED BY <1>1, <2>1, <2>2 DEF Written
<1>5. ASSUME NEW h \in Handlers, Resynthesize(h) PROVE FALSE
  BY <1>5 DEF Resynthesize, NoNode, Design, Repair
<1>6. \/ UNCHANGED candidate \/ EditCase \/ \E w \in Workers : Commit(w)
      \/ \E h \in Handlers : Resynthesize(h)
  <2>1. ASSUME NEW w \in Workers,
               \/ ClaimTestDesignJob(w) \/ ClaimNothing(w) \/ WorkerStep(w)
               \/ SettleStoppedWork(w) \/ StopWorker(w)
               \/ CrashWorker(w) \/ FailToRead(w) \/ FailToEnqueue(w) \/ LoseFailure(w)
        PROVE  UNCHANGED candidate \/ Commit(w)
    BY <2>1 DEF ClaimTestDesignJob, ClaimNothing, WorkerStep, Begin, StartNode, ReadInput, Execute,
       RejectCandidate, ScheduleRepair, EnqueueRepair, Respond, FailNode, SettleFailure, Finish,
       SettleStoppedWork, StopWorker, CrashWorker, FailToRead, FailToEnqueue, LoseFailure, KeepTables
  <2>2. ASSUME NEW h \in Handlers, CreateRun(h) \/ CancelTestDesignJob(h) \/ HandlerStep(h)
        PROVE  UNCHANGED candidate
    BY <2>2 DEF CreateRun, CancelTestDesignJob, HandlerStep, Schedule, Enqueue, CancelRun
  <2>3. ASSUME \/ ReAudit \/ CrashApi \/ UNCHANGED vars
               \/ \E n \in Nodes : LeaseExpires(n) \/ PauseWorker(n)
        PROVE  UNCHANGED candidate
    BY <2>3 DEF ReAudit, LeaseExpires, PauseWorker, CrashApi, KeepTables, vars
  <2> QED BY <2>1, <2>2, <2>3 DEF Next
<1> QED BY <1>2, <1>3, <1>4, <1>5, <1>6

\* A repair never takes back an edit made while it was computed.
THEOREM ARepairKeepsTheEdits == Spec => RepairKeepsTheEdits
<1>1. Inv /\ [Next]_vars =>
         [candidate'.by.stage = Repair => candidate'.edits >= candidate.edits]_vars
  BY EditsSurvive
<1> QED BY <1>1, TestDesignIsSound, PTL DEF Spec, RepairKeepsTheEdits

================================================================================
