---------------------------- MODULE Replication ----------------------------
(***************************************************************************)
(* Coordinator with a database of its own on every node: the coordinator   *)
(* of a job replicates its writes to the job's backups (_sync_to_backups), *)
(* which apply them to their own tables (POST /sync/state, apply_sync).    *)
(* The backups' rows are what a failover starts from, and what tells a     *)
(* backup that computes a block where its product belongs.                 *)
(*                                                                         *)
(* One coordinator is modelled, the run submit_job started: no backup ever *)
(* takes the job over, because none has it RUNNING (FailoverBegins).       *)
(*                                                                         *)
(* The run waits for a replicated write before it goes on; the handler of  *)
(* a worker's result replicates by itself.  Either posts to one backup     *)
(* after the other.                                                        *)
(***************************************************************************)
EXTENDS Coordinator

CONSTANTS
    Backups,     \* the nodes submit_job chose (backup_nodes)
    Unlisted,    \* backups get_active_nodes may leave out at times
    Attempts,    \* 1 + SYNC_RETRY_COUNT
    MaxLate      \* bound: requests still under way after their sender gave up

ASSUME ReplicationAssumption ==
    /\ Runs = {FirstRun} /\ Mirrors = {}
    /\ Backups \subseteq Nodes \ {HostOf[FirstRun]}
    /\ Unlisted \subseteq Backups
    /\ Attempts \in Nat \ {0} /\ MaxLate \in Nat

VARIABLES
    replica,     \* each backup's rows of the job and its blocks
    backups,     \* the run's list: without the backups it gave up
    unsent,      \* creations submit_job has still to replicate
    posts,       \* writes being posted to a backup, with the tries left
    late,        \* requests whose sender no longer waits
    skipped      \* history: backups some write was not sent to

replication == <<replica, backups, unsent, posts, late, skipped>>
allVars     == <<vars, replication>>

Host == HostOf[FirstRun]

-----------------------------------------------------------------------------
(* Operations, and what apply_sync makes of them.                           *)

OpKind == {"create_job", "create_block", "assign_block", "fail_block",
           "complete_block", "update_job_status"}

\* "worker" is the assignee, or whose product is replicated.
Op == {op \in [kind: OpKind, block: Blocks \cup {Null},
                worker: Members \cup {Null, Empty}, attempt: Int] :
           /\ op.kind = "assign_block"   => op.worker \in Members
           /\ op.kind = "complete_block" => op.worker \in Members \cup {Empty}}

CreateJobOp          == [kind |-> "create_job", block |-> Null, worker |-> Null, attempt |-> 0]
CreateBlockOp(b)     == [kind |-> "create_block", block |-> b, worker |-> Null, attempt |-> 0]
AssignOp(b, w)       == [kind |-> "assign_block", block |-> b, worker |-> w, attempt |-> 0]
FailOp(b)            == [kind |-> "fail_block", block |-> b, worker |-> Null, attempt |-> 0]
CompleteOp(b, a, p)  == [kind |-> "complete_block", block |-> b, worker |-> p, attempt |-> a]
StatusOp             == [kind |-> "update_job_status", block |-> Null, worker |-> Null,
                         attempt |-> 0]

Creations == {CreateJobOp} \cup {CreateBlockOp(b) : b \in Blocks}

\* create_job is sent as the record was before the job was set RUNNING.  An
\* assignment carries no attempt: the backup counts for itself.
AppliedJob(row, op) ==
    CASE op.kind = "create_job" /\ row.status = "absent" ->
             [status |-> "pending", coordinator_id |-> Host]
      [] op.kind = "update_job_status" ->
             [row EXCEPT !.status = SyncJobStatus(row.status, "complete")]
      [] OTHER -> row

AppliedBlock(row, op) ==
    CASE op.kind = "create_block"   -> CreateBlock(row)
      [] op.kind = "assign_block"   -> AssignBlock(row, op.worker)
      [] op.kind = "fail_block"     -> FailBlock(row)
      [] op.kind = "complete_block" -> CompleteBlock(row, op.attempt, op.worker)
      [] OTHER -> row

Apply(db, op) ==
    [job |-> AppliedJob(db.job, op),
     blk |-> [b \in Blocks |-> IF b = op.block THEN AppliedBlock(db.blk[b], op)
                                               ELSE db.blk[b]]]

-----------------------------------------------------------------------------
Sender == {"run", "handler"}
Post   == [op: Op, by: Sender, to: Backups, rest: SUBSET Backups, left: 1..Attempts]

\* The loop over the backups goes to the first of those left, or ends.
Proceed(op, by, list, others) ==
    LET n == CHOOSE x \in list : TRUE IN
    posts' = IF list = {} THEN others
             ELSE others \cup {[op |-> op, by |-> by, to |-> n, rest |-> list \ {n},
                                left |-> Attempts]}

Send(op, list, by) == Proceed(op, by, list, posts)

\* The run awaits _sync_to_backups.
Waiting == \E p \in posts : p.by = "run"

RInit ==
    /\ Init
    /\ replica = [n \in Backups |-> [job |-> [status |-> "absent", coordinator_id |-> Null],
                                     blk |-> [b \in Blocks |-> AbsentRow]]]
    /\ backups = Backups
    /\ unsent = Creations
    /\ posts = {}
    /\ late = {}
    /\ skipped = {}

-----------------------------------------------------------------------------
(* The run.                                                                 *)

\* submit_job replicates the creations once all rows are in its own database,
\* the job first.
SyncCreation(op) ==
    /\ pc[FirstRun] = "persist" /\ todo[FirstRun] = {}
    /\ ~Waiting
    /\ op \in unsent /\ (CreateJobOp \in unsent => op = CreateJobOp)
    /\ unsent' = unsent \ {op}
    /\ Send(op, backups, "run")
    /\ UNCHANGED <<vars, replica, backups, late, skipped>>

\* Steps whose write is replicated: an assignment to another member, a timeout,
\* an accepted local product, the completion.
SyncedStep ==
    LET r == FirstRun IN
    \/ \E b \in Blocks, w \in Members :
           AssignRemote(r, b, w) /\ Send(AssignOp(b, w), backups, "run")
    \/ \E b \in Blocks : Reclaim(r, b) /\ Send(FailOp(b), backups, "run")
    \/ /\ FinishLocal(r)
       /\ \E t \in doing[r] : /\ Accepts(blk[t.block], t.attempt)
                              /\ Send(CompleteOp(t.block, t.attempt, t.worker), backups, "run")
    \/ MarkComplete(r) /\ Send(StatusOp, backups, "run")

\* Steps that write nothing or whose write stays in the coordinator's database:
\* the status RUNNING or FAILED, its own assignments, failed sends and local
\* failures, the result.  A block is never skipped as being computed: there is no
\* second run in the process.
QuietStep ==
    LET r == FirstRun IN
    \/ MarkRunning(r) \/ \E b \in Blocks : PersistBlock(r, b)
    \/ BeginRun(r) /\ unsent = {}
    \/ \E b \in Blocks : AssignLocal(r, b) \/ Reassign(r, b)
    \/ SendWork(r) \/ SendConfirmed(r) \/ SendFailed(r) \/ EndAssign(r)
    \/ FailLocal(r)
    \/ FinishLocal(r) /\ \A t \in doing[r] : ~Accepts(blk[t.block], t.attempt)
    \/ PollDone(r) \/ PollTimedOut(r) \/ EndReclaim(r)
    \/ Assemble(r) \/ AssembleFails(r) \/ Announce(r)

ReplicatingRun ==
    /\ ~Waiting
    /\ \/ SyncedStep /\ UNCHANGED <<replica, backups, unsent, late, skipped>>
       \/ QuietStep  /\ UNCHANGED replication

-----------------------------------------------------------------------------
(* POST /sync/state.                                                        *)

MoveOn(p) == Proceed(p.op, p.by, p.rest, posts \ {p})

\* Mutants: one try too many; the backup stays in the list.
UnansweredOneMore(p) ==
    IF p.left > 0
    THEN /\ posts' = (posts \ {p}) \cup {[p EXCEPT !.left = @ - 1]}
         /\ UNCHANGED backups
    ELSE /\ MoveOn(p)
         /\ backups' = IF p.by = "run" THEN backups \ {p.to} ELSE backups

UnansweredKeeps(p) ==
    IF p.left > 1
    THEN /\ posts' = (posts \ {p}) \cup {[p EXCEPT !.left = @ - 1]}
         /\ UNCHANGED backups
    ELSE /\ MoveOn(p)
         /\ UNCHANGED backups

\* A try ended without an answer.  The code takes a dead backup out of the list
\* after the loop; nothing reads the list in between.
Unanswered(p) ==
    IF p.left > 1
    THEN /\ posts' = (posts \ {p}) \cup {[p EXCEPT !.left = @ - 1]}
         /\ UNCHANGED backups
    ELSE /\ MoveOn(p)
         /\ backups' = IF p.by = "run" THEN backups \ {p.to} ELSE backups

\* The backup applies the write and its answer arrives.
PostSucceeds(p) ==
    /\ replica' = [replica EXCEPT ![p.to] = Apply(@, p.op)]
    /\ MoveOn(p)
    /\ UNCHANGED <<vars, backups, unsent, late, skipped>>

\* The backup applies it and the answer is lost.
AnswerLost(p) ==
    /\ replica' = [replica EXCEPT ![p.to] = Apply(@, p.op)]
    /\ Unanswered(p)
    /\ UNCHANGED <<vars, unsent, late, skipped>>

\* The backup cannot be reached, or is so slow that the request outlives the
\* session's ten seconds.
PostFails(p) ==
    /\ Unanswered(p)
    /\ \/ late' = late
       \/ /\ Cardinality(late) < MaxLate
          /\ late' = late \cup {[op |-> p.op, to |-> p.to]}
    /\ UNCHANGED <<vars, replica, unsent, skipped>>

\* The backup is not among the active nodes: nothing is sent, and it stays in
\* the list.
PostSkipped(p) ==
    /\ p.to \in Unlisted /\ p.left = Attempts
    /\ MoveOn(p)
    /\ skipped' = skipped \cup {p.to}
    /\ UNCHANGED <<vars, replica, backups, unsent, late>>

Attempt(p) == PostSucceeds(p) \/ AnswerLost(p) \/ PostFails(p) \/ PostSkipped(p)

LateArrives(q) ==
    /\ replica' = [replica EXCEPT ![q.to] = Apply(@, q.op)]
    /\ late' = late \ {q}
    /\ UNCHANGED <<vars, backups, unsent, posts, skipped>>

-----------------------------------------------------------------------------
(* Workers, results, crashes.                                               *)

\* A worker node finds the coordinator in its own row of the job.
Knows(w) == w \in Backups => replica[w].job.status # "absent"

WorkerStep ==
    /\ \E t \in held : \/ \E f \in BOOLEAN :
                              t.worker \in Backups /\ Knows(t.worker) /\ NodeFinish(t, f)
                       \/ BrowserFinish(t) \/ WorkerLoses(t)
    /\ UNCHANGED replication

\* Mutant: a rejected result is replicated too.
HandleResultAlways(m) ==
    /\ DeliverResult(m)
    /\ Send(CompleteOp(m.task.block, AttemptIn(m), PartialIn(m)), Backups, "handler")
    /\ UNCHANGED <<replica, backups, unsent, late, skipped>>

\* The handler of a result that is not rejected replicates it to the backups of
\* the job's row, which a run that gives one up does not change.
HandleResult(m) ==
    /\ DeliverResult(m)
    /\ IF Accepts(blk[m.task.block], AttemptIn(m))
       THEN Send(CompleteOp(m.task.block, AttemptIn(m), PartialIn(m)), Backups, "handler")
       ELSE UNCHANGED posts
    /\ UNCHANGED <<replica, backups, unsent, late, skipped>>

ResultStep ==
    \/ \E m \in results : HandleResult(m)
    \/ (\E m \in results : LoseResult(m)) /\ UNCHANGED replication

TimeStep == (\E b \in Blocks : LeaseExpires(b)) /\ UNCHANGED replication

\* Requests on their way may still arrive.
CrashStep ==
    /\ \E n \in Nodes : Crash(n)
    /\ posts' = {}
    /\ \/ late' = late
       \/ \E p \in posts : /\ Cardinality(late) < MaxLate
                           /\ late' = late \cup {[op |-> p.op, to |-> p.to]}
    /\ UNCHANGED <<replica, backups, unsent, skipped>>

RNext ==
    \/ CreateJob(FirstRun) /\ UNCHANGED replication
    \/ \E op \in unsent : SyncCreation(op)
    \/ ReplicatingRun
    \/ \E p \in posts : Attempt(p)
    \/ \E q \in late : LateArrives(q)
    \/ WorkerStep \/ ResultStep \/ TimeStep \/ CrashStep

RSpec == RInit /\ [][RNext]_allVars

\* The run goes on when it can, a post ends within the session's ten seconds,
\* time passes.  Backups, workers and the network owe nothing.
RFairSpec ==
    /\ RSpec
    /\ WF_allVars(\/ ReplicatingRun
                  \/ \E op \in unsent : SyncCreation(op)
                  \/ \E p \in posts : p.by = "run" /\ Attempt(p))
    /\ \A b \in Blocks : WF_allVars(LeaseExpires(b) /\ UNCHANGED replication)

-----------------------------------------------------------------------------
(* Properties.                                                              *)

Replica == [job: [status: JobStatus, coordinator_id: Nodes \cup {Null}], blk: [Blocks -> BlockRow]]

\* Replicas are tables like the coordinator's, and no post is tried more often
\* than SYNC_RETRY_COUNT allows.
RTypeOK ==
    /\ TypeOK
    /\ replica \in [Backups -> Replica]
    /\ backups \subseteq Backups
    /\ unsent \subseteq Creations
    /\ posts \subseteq Post
    /\ late \subseteq [op: Op, to: Backups]
    /\ skipped \subseteq Unlisted

\* What a backup's row may say, given the coordinator's database.
Justified(db) ==
    /\ db.job.status # "absent" => job.status # "absent"
    /\ db.job.status = "complete" => AnswerStored
    /\ \A b \in Blocks : /\ db.blk[b].status # "absent" => blk[b].status # "absent"
                         /\ db.blk[b].partial # Null => blk[b].partial # Null

\* The coordinator writes first and replicates what it wrote: no backup has a row
\* or a product its database lacks, nor shows COMPLETE before the result is
\* stored, whatever is retried, late, stale or sent by a dead coordinator.
BackupNeverAhead == \A n \in Backups : Justified(replica[n])

\* "Removes unreachable backups for this job" (_sync_to_backups): a backup the run
\* still lists, and never skipped, missed none of its writes: it has the job, the
\* blocks, a lease for every block a worker was given, and the completion.
ListedIsCurrent ==
    \A n \in backups \ skipped :
        pc[FirstRun] \notin {"idle", "start", "persist", "down"} =>
            /\ replica[n].job.status # "absent"
            /\ \A b \in Blocks : replica[n].blk[b].status # "absent"
            /\ \A t \in held : replica[n].blk[t.block].attempt_id > 0
            /\ pc[FirstRun] = "ended" /\ job.status = "complete"
                   => replica[n].job.status = "complete"

\* Backups that do not answer delay a job and never stop it: its run comes to an
\* end although workers vanish, sends fail, results are lost and leases time out,
\* unless a multiplication that raised in the coordinator gave a block back, which
\* the monitor does not look for.  While there are workers such a block has been
\* assigned before, so one given back by a send that failed is not excused.
RunEnds ==
    pc[FirstRun] = "start" ~>
        \/ pc[FirstRun] \in {"ended", "down"}
        \/ /\ pc[FirstRun] = "monitor"
          /\ \E b \in PendingBlocks(blk) \cap Flaky : blk[b].attempt_id > 1

\* The coordinator of a database of its own is the one of Coordinator.
ImplementsCoordinator == Spec
=============================================================================
