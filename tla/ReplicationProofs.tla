------------------------- MODULE ReplicationProofs -------------------------
(***************************************************************************)
(* Theorems of Replication, for any number of backups, tries and late      *)
(* requests: the coordinator is the one of Coordinator, so that            *)
(* Coordinator's theorems hold of it; no backup runs ahead of it; what a   *)
(* coordinator that shares its database with nobody knows of its blocks;   *)
(* and the backups it still lists have what a takeover starts from.        *)
(***************************************************************************)
EXTENDS Replication, CoordinatorProofs

-----------------------------------------------------------------------------
(* The coordinator.                                                         *)

LEMMA StepRefines == [RNext]_allVars => [Next]_vars
<1> SUFFICES ASSUME [RNext]_allVars PROVE [Next]_vars
    OBVIOUS
<1> USE RunsAssumption
<1>1. UNCHANGED allVars => UNCHANGED vars
    BY DEF allVars
<1>2. CreateJob(FirstRun) => RunStep(FirstRun)
    BY DEF RunStep, SubmitStep
<1>3. SyncedStep => RunStep(FirstRun)
    BY DEF SyncedStep, RunStep, AssignStep, MonitorStep, AssembleStep
<1>4. QuietStep => RunStep(FirstRun)
    BY DEF QuietStep, RunStep, SubmitStep, AssignStep, MonitorStep, AssembleStep
<1>5. ASSUME NEW op, SyncCreation(op) PROVE UNCHANGED vars
    BY <1>5 DEF SyncCreation
<1>6. ASSUME NEW p, Attempt(p) PROVE UNCHANGED vars
    BY <1>6 DEF Attempt, PostSucceeds, AnswerLost, PostFails, PostSkipped
<1>7. ASSUME NEW q, LateArrives(q) PROVE UNCHANGED vars
    BY <1>7 DEF LateArrives
<1>8. WorkerStep \/ ResultStep \/ TimeStep \/ CrashStep => Environment
    BY DEF WorkerStep, ResultStep, TimeStep, CrashStep, HandleResult, Environment
<1> QED
    BY <1>1, <1>2, <1>3, <1>4, <1>5, <1>6, <1>7, <1>8 DEF RNext, ReplicatingRun, Next

\* Replication does not change what the coordinator does to its own database:
\* every behaviour is one of Coordinator, so its theorems hold here as well.
THEOREM CoordinatorIsImplemented == RSpec => ImplementsCoordinator
<1>1. RInit => Init
    BY DEF RInit
<1> QED BY <1>1, StepRefines, PTL DEF RSpec, Spec, ImplementsCoordinator

\* The result of a job is whole, however its backups fail.
THEOREM ReplicatedAnswersAreWhole == RSpec => []AnswerIsWhole
BY CoordinatorIsImplemented, AnswersAreWhole DEF ImplementsCoordinator

-----------------------------------------------------------------------------
(* Type correctness.                                                        *)

LEMMA ApplyType ==
    ASSUME NEW db \in Replica, NEW op \in Op PROVE Apply(db, op) \in Replica
<1>1. AppliedJob(db.job, op) \in [status: JobStatus, coordinator_id: Nodes \cup {Null}]
    BY RunsAssumption DEF AppliedJob, Replica, Host, SyncJobStatus, JobStatus
<1>2. ASSUME NEW row \in BlockRow PROVE AppliedBlock(row, op) \in BlockRow
    BY <1>2, CreateBlockType, AssignBlockType, FailBlockType, CompleteBlockType
       DEF AppliedBlock, Op
<1> QED BY <1>1, <1>2 DEF Apply, Replica

LEMMA ProceedType ==
    ASSUME NEW op \in Op, NEW by \in Sender, NEW list \in SUBSET Backups,
           NEW others \in SUBSET Post, Proceed(op, by, list, others)
    PROVE  posts' \subseteq Post /\ \A p \in posts' : p \in others \/ p.op = op
<1>1. CASE list = {}
    BY <1>1 DEF Proceed
<1>2. CASE list # {}
  <2>1. (CHOOSE x \in list : TRUE) \in list
    BY <1>2
  <2>2. Attempts \in 1..Attempts
    BY ReplicationAssumption
  <2> QED BY <1>2, <2>1, <2>2 DEF Proceed, Post
<1> QED BY <1>1, <1>2

LEMMA UnansweredType ==
    ASSUME RTypeOK, NEW p \in posts, Unanswered(p)
    PROVE  /\ posts' \subseteq Post /\ backups' \subseteq Backups
           /\ \A q \in posts' : q \in posts \/ q.op = p.op
<1>1. p \in Post /\ posts \in SUBSET Post /\ backups \in SUBSET Backups
    BY DEF RTypeOK
<1>2. CASE p.left > 1
  <2>1. [p EXCEPT !.left = @ - 1] \in Post
    BY <1>1, <1>2, ReplicationAssumption DEF Post
  <2> QED BY <1>1, <1>2, <2>1 DEF Unanswered, Post
<1>3. CASE ~(p.left > 1)
  <2>1. p.op \in Op /\ p.by \in Sender /\ p.rest \in SUBSET Backups
    BY <1>1 DEF Post
  <2>2. Proceed(p.op, p.by, p.rest, posts \ {p}) /\ backups' \subseteq Backups
    BY <1>1, <1>3 DEF Unanswered, MoveOn
  <2>3. posts \ {p} \in SUBSET Post
    BY <1>1
  <2> QED BY <2>1, <2>2, <2>3, ProceedType
<1> QED BY <1>2, <1>3

LEMMA OpTypes ==
    /\ CreateJobOp \in Op /\ StatusOp \in Op
    /\ \A b \in Blocks : CreateBlockOp(b) \in Op /\ FailOp(b) \in Op
    /\ \A b \in Blocks, w \in Members : AssignOp(b, w) \in Op
    /\ \A b \in Blocks, a \in Int, p \in Members \cup {Empty} : CompleteOp(b, a, p) \in Op
BY DEF CreateJobOp, StatusOp, CreateBlockOp, FailOp, AssignOp, CompleteOp, Op, OpKind

(* What a step does to the replicas and the messages.                       *)
Late == [op: Op, to: Backups]

NewOp(op) ==
    \/ op \in unsent /\ pc[FirstRun] = "persist" /\ todo[FirstRun] = {}
    \/ \E b \in Blocks : op = FailOp(b)
    \/ \E b \in Blocks, w \in Members : op = AssignOp(b, w)
    \/ \E t \in doing[FirstRun] :
           FinishLocal(FirstRun) /\ Accepts(blk[t.block], t.attempt)
               /\ op = CompleteOp(t.block, t.attempt, t.worker)
    \/ \E m \in results :
           DeliverResult(m) /\ Accepts(blk[m.task.block], AttemptIn(m))
               /\ op = CompleteOp(m.task.block, AttemptIn(m), PartialIn(m))
    \/ op = StatusOp /\ MarkComplete(FirstRun)

Sends == /\ replica' = replica /\ late' = late
         /\ posts' \subseteq Post
         /\ \A p \in posts' : p \in posts \/ (p.op \in Op /\ NewOp(p.op))

Applies ==
    /\ UNCHANGED vars
    /\ \E n \in Backups, op \in Op :
           /\ (\E p \in posts : p.op = op) \/ (\E q \in late : q.op = op)
           /\ replica' = [replica EXCEPT ![n] = Apply(@, op)]
    /\ posts' \subseteq Post /\ \A p \in posts' : \E q \in posts : p.op = q.op
    /\ late' \subseteq late

Drops ==
    /\ replica' = replica
    /\ posts' \subseteq Post /\ \A p \in posts' : \E q \in posts : p.op = q.op
    /\ late' \subseteq Late
    /\ \A q \in late' : q \in late \/ \E p \in posts : p.op = q.op

LEMMA SendType ==
    ASSUME RTypeOK, NEW op \in Op, NEW by \in Sender, NEW list \in SUBSET Backups,
           NewOp(op), Send(op, list, by), replica' = replica, late' = late
    PROVE  Sends
<1>1. posts \in SUBSET Post
    BY DEF RTypeOK
<1>2. Proceed(op, by, list, posts)
    BY DEF Send
<1> QED BY <1>1, <1>2, ProceedType DEF Sends

LEMMA RSteps ==
    ASSUME RTypeOK, [RNext]_allVars
    PROVE  /\ Sends \/ Applies \/ Drops
           /\ backups' \subseteq Backups /\ unsent' \subseteq unsent
           /\ skipped' \subseteq Unlisted
<1> DEFINE Goal == /\ Sends \/ Applies \/ Drops
                   /\ backups' \subseteq Backups /\ unsent' \subseteq unsent
                   /\ skipped' \subseteq Unlisted
<1>1. /\ posts \subseteq Post /\ late \subseteq Late /\ backups \subseteq Backups
      /\ unsent \subseteq Creations /\ skipped \subseteq Unlisted
      /\ doing[FirstRun] \subseteq Task /\ results \subseteq Result
    BY RunsAssumption DEF RTypeOK, TypeOK, Late
<1>2. CASE UNCHANGED replication
    BY <1>1, <1>2 DEF replication, Drops
<1>3. "run" \in Sender /\ "handler" \in Sender
    BY DEF Sender
<1>4. ASSUME NEW op \in unsent, SyncCreation(op) PROVE Goal
  <2>1. op \in Op
    BY <1>1, OpTypes DEF Creations
  <2>2. NewOp(op) /\ Send(op, backups, "run")
    BY <1>4 DEF SyncCreation, NewOp
  <2> QED BY <1>1, <1>3, <1>4, <2>1, <2>2, SendType DEF SyncCreation
<1>5. ASSUME SyncedStep, UNCHANGED <<replica, backups, unsent, late, skipped>> PROVE Goal
  <2>1. ASSUME NEW op \in Op, NewOp(op), Send(op, backups, "run") PROVE Goal
    BY <1>1, <1>3, <1>5, <2>1, SendType
  <2>2. ASSUME NEW b \in Blocks, NEW w \in Members, Send(AssignOp(b, w), backups, "run")
        PROVE  Goal
    BY <2>1, <2>2, OpTypes DEF NewOp
  <2>3. ASSUME NEW b \in Blocks, Send(FailOp(b), backups, "run") PROVE Goal
    BY <2>1, <2>3, OpTypes DEF NewOp
  <2>4. ASSUME FinishLocal(FirstRun), NEW t \in doing[FirstRun], Accepts(blk[t.block], t.attempt),
               Send(CompleteOp(t.block, t.attempt, t.worker), backups, "run")
        PROVE  Goal
    <3>1. CompleteOp(t.block, t.attempt, t.worker) \in Op
      BY <1>1, OpTypes DEF Task
    <3> QED BY <2>1, <2>4, <3>1 DEF NewOp
  <2>5. ASSUME MarkComplete(FirstRun), Send(StatusOp, backups, "run") PROVE Goal
    BY <2>1, <2>5, OpTypes DEF NewOp
  <2> QED BY <1>5, <2>2, <2>3, <2>4, <2>5 DEF SyncedStep
<1>6. ASSUME NEW p \in posts, Attempt(p) PROVE Goal
  <2>1. p.op \in Op /\ p.to \in Backups /\ p.by \in Sender /\ p.rest \in SUBSET Backups
    BY <1>1 DEF Post
  <2>2. ASSUME MoveOn(p)
        PROVE  /\ posts' \subseteq Post
               /\ \A r \in posts' : \E q \in posts : r.op = q.op
    <3>1. posts \ {p} \in SUBSET Post
      BY <1>1
    <3>2. Proceed(p.op, p.by, p.rest, posts \ {p})
      BY <2>2 DEF MoveOn
    <3>3. posts' \subseteq Post /\ \A r \in posts' : r \in posts \ {p} \/ r.op = p.op
      BY <2>1, <3>1, <3>2, ProceedType
    <3> QED BY <3>3
  <2>3. Unanswered(p) => /\ posts' \subseteq Post /\ backups' \subseteq Backups
                         /\ \A r \in posts' : \E q \in posts : r.op = q.op
    BY UnansweredType
  <2>4. CASE PostSucceeds(p)
    BY <1>1, <2>1, <2>2, <2>4 DEF PostSucceeds, Applies
  <2>5. CASE AnswerLost(p)
    BY <1>1, <2>1, <2>3, <2>5 DEF AnswerLost, Applies
  <2>6. CASE PostFails(p)
    <3>1. late' = late \/ late' = late \cup {[op |-> p.op, to |-> p.to]}
      BY <2>6 DEF PostFails
    <3>2. /\ late' \subseteq Late
          /\ \A q \in late' : q \in late \/ q.op = p.op
      BY <1>1, <2>1, <3>1 DEF Late
    <3> QED BY <1>1, <2>3, <2>6, <3>2 DEF PostFails, Drops
  <2>7. CASE PostSkipped(p)
    BY <1>1, <2>1, <2>2, <2>7 DEF PostSkipped, Drops
  <2> QED BY <1>6, <2>4, <2>5, <2>6, <2>7 DEF Attempt
<1>7. ASSUME NEW q \in late, LateArrives(q) PROVE Goal
  <2>1. q.op \in Op /\ q.to \in Backups
    BY <1>1 DEF Late
  <2> QED BY <1>1, <1>7, <2>1 DEF LateArrives, Applies
<1>8. ASSUME NEW m \in results, HandleResult(m) PROVE Goal
  <2>1. CompleteOp(m.task.block, AttemptIn(m), PartialIn(m)) \in Op
    <3>1. m.task.block \in Blocks /\ AttemptIn(m) \in Int /\ PartialIn(m) \in Members \cup {Empty}
      BY <1>1 DEF Result, Task, AttemptIn, PartialIn, NoAttempt
    <3> QED BY <3>1, OpTypes
  <2>2. CASE Accepts(blk[m.task.block], AttemptIn(m))
    <3>1. NewOp(CompleteOp(m.task.block, AttemptIn(m), PartialIn(m)))
      BY <1>8, <2>2 DEF HandleResult, NewOp
    <3> QED BY <1>1, <1>3, <1>8, <2>1, <2>2, <3>1, SendType DEF HandleResult
  <2>3. CASE ~Accepts(blk[m.task.block], AttemptIn(m))
    BY <1>1, <1>8, <2>3 DEF HandleResult, Drops
  <2> QED BY <2>2, <2>3
<1>9. CASE CrashStep
  <2>1. ASSUME NEW p \in posts, late' = late \cup {[op |-> p.op, to |-> p.to]}
        PROVE  /\ late' \subseteq Late
               /\ \A q \in late' : q \in late \/ \E r \in posts : r.op = q.op
    <3>1. p.op \in Op /\ p.to \in Backups
      BY <1>1 DEF Post
    <3> QED BY <1>1, <2>1, <3>1 DEF Late
  <2>2. /\ late' \subseteq Late
        /\ \A q \in late' : q \in late \/ \E r \in posts : r.op = q.op
    BY <1>1, <1>9, <2>1 DEF CrashStep
  <2>3. posts' = {} /\ UNCHANGED <<replica, backups, unsent, skipped>>
    BY <1>9 DEF CrashStep
  <2> QED BY <1>1, <2>2, <2>3 DEF Drops
<1> QED
    BY <1>2, <1>4, <1>5, <1>6, <1>7, <1>8, <1>9
       DEF RNext, ReplicatingRun, WorkerStep, ResultStep, TimeStep, allVars

LEMMA RTypeStep == RTypeOK /\ [RNext]_allVars => RTypeOK'
<1> SUFFICES ASSUME RTypeOK, [RNext]_allVars PROVE RTypeOK'
    OBVIOUS
<1>1. TypeOK'
    BY TypeStep, StepRefines DEF RTypeOK
<1>2. /\ Sends \/ Applies \/ Drops
      /\ backups' \subseteq Backups /\ unsent' \subseteq unsent /\ skipped' \subseteq Unlisted
    BY RSteps
<1>3. replica \in [Backups -> Replica] /\ late \subseteq Late /\ unsent \subseteq Creations
    BY DEF RTypeOK, Late
<1>4. posts' \subseteq Post /\ late' \subseteq Late
    BY <1>2, <1>3 DEF Sends, Applies, Drops
<1>5. replica' \in [Backups -> Replica]
    BY <1>2, <1>3, ApplyType DEF Sends, Applies, Drops
<1> QED BY <1>1, <1>2, <1>3, <1>4, <1>5 DEF RTypeOK, Late

LEMMA RTypeInit == RInit => RTypeOK
BY TypeInit, AbsentRowType DEF RInit, RTypeOK, Replica, JobStatus

\* The replicas and the messages to them keep their types; no post is tried more
\* than Attempts times.
THEOREM ReplicasAreTyped == RSpec => []RTypeOK
BY RTypeInit, RTypeStep, PTL DEF RSpec

-----------------------------------------------------------------------------
(* The coordinator's database only grows.                                   *)

(* A done row has a product or a failure report, and a run does one thing   *)
(* at a time.                                                               *)
DoneIsFilled == \A b \in Blocks : blk[b].status = "done" => blk[b].partial # Null
SingleDoing  == \A r \in Runs : \A t, u \in doing[r] : t = u

DatabaseInv == AnswerInv /\ JobInv /\ RowsExist /\ DoneIsFilled /\ SingleDoing

LEMMA PartialMoves ==
    ASSUME TypeOK, [Next]_vars, NEW b \in Blocks
    PROVE  /\ blk[b].partial # Null => blk'[b].partial # Null
           /\ DoneIsFilled => (blk'[b].status = "done" => blk'[b].partial # Null)
<1>1. Move(b) /\ blk[b] \in BlockRow
    BY RowMoves DEF TypeOK
<1>2. \A t \in Executions : t.worker # Null
    BY NullAssumption DEF Executions, TypeOK, Task, Result
<1> USE <1>1 DEF BlockRow, DoneIsFilled
<1>3. CASE blk'[b] = blk[b] \/ blk'[b] = CreateBlock(blk[b]) \/ blk'[b] = FailBlock(blk[b])
    BY <1>3 DEF CreateBlock, FailBlock
<1>4. ASSUME NEW w \in Members, blk'[b] = AssignBlock(blk[b], w) PROVE
             /\ blk[b].partial # Null => blk'[b].partial # Null
             /\ blk'[b].status # "done"
    BY <1>4 DEF AssignBlock
<1>5. ASSUME NEW a, NEW p, p # Null, blk'[b] = CompleteBlock(blk[b], a, p) PROVE
             /\ blk[b].partial # Null => blk'[b].partial # Null
             /\ DoneIsFilled => (blk'[b].status = "done" => blk'[b].partial # Null)
    BY <1>5 DEF CompleteBlock
<1>6. CASE blk[b].status = "assigned" /\ blk'[b] = [blk[b] EXCEPT !.assigned_at = "overdue"]
    BY <1>6
<1> QED BY <1>2, <1>3, <1>4, <1>5, <1>6, NullAssumption DEF Move

LEMMA DatabaseAlways == Spec => []DatabaseInv
<1> DEFINE Small == DoneIsFilled /\ SingleDoing
<1>1. Init => Small
    BY DEF Init, DoneIsFilled, SingleDoing, AbsentRow
<1>2. TypeOK /\ RowsExist /\ Small /\ [Next]_vars => Small'
  <2> SUFFICES ASSUME TypeOK, RowsExist, Small, [Next]_vars PROVE Small'
      OBVIOUS
  <2>1. DoneIsFilled'
    BY PartialMoves DEF DoneIsFilled
  <2>2. SingleDoing'
    <3>1. CASE NoGrant
      BY <3>1 DEF NoGrant, SingleDoing
    <3>2. ASSUME NEW r \in Runs, NEW b \in Blocks, NEW w \in Members, Grant(r, b, w)
          PROVE  SingleDoing'
      BY <3>2 DEF Grant, SingleDoing, TypeOK
    <3> QED BY <3>1, <3>2, StepLease
  <2> QED BY <2>1, <2>2
<1> HIDE DEF Small
<1>3. Spec => []Small
    BY <1>1, <1>2, TypeCorrect, RowsPresent, PTL DEF Spec
<1> QED BY <1>3, AnswerAlways, JobInvAlways, RowsPresent, PTL DEF DatabaseInv, Small

LEMMA DatabaseGrows ==
    ASSUME TypeOK, DatabaseInv, [Next]_vars
    PROVE  /\ job.status # "absent" => job'.status # "absent"
           /\ AnswerStored => AnswerStored'
           /\ \A b \in Blocks : /\ Exists(b) => Exists(b)'
                                /\ blk[b].partial # Null => blk'[b].partial # Null
<1>1. job.status # "absent" => job'.status # "absent"
  <2>1. \/ \E r \in Runs : \/ CreateJob(r) \/ MarkRunning(r) \/ Assemble(r)
                           \/ AssembleFails(r) \/ MarkComplete(r)
        \/ job'.status = job.status
    BY OtherSteps, ReplicationAssumption
  <2>2. ASSUME NEW new, new # "absent", SetStatus(new)
        PROVE  job.status # "absent" => job'.status # "absent"
    BY <2>2 DEF SetStatus, UpdateJobStatus, TypeOK
  <2> QED BY <2>1, <2>2 DEF CreateJob, MarkRunning, Assemble, AssembleFails, MarkComplete
<1>2. AnswerStored => AnswerStored'
  <2>1. CASE \E r \in Runs : Assemble(r)
    BY <2>1, AssembleWhole DEF DatabaseInv, AnswerInv, AnswerStored
  <2>2. CASE answer' = answer
    BY <2>2 DEF AnswerStored
  <2> QED BY <2>1, <2>2, ResultSteps
<1> QED BY <1>1, <1>2, RowsPersist, PartialMoves

-----------------------------------------------------------------------------
(* The backups.  Every message replicates something the coordinator's       *)
(* database already says, and the database never takes it back: that is why *)
(* lateness, repetition and loss cannot put a backup ahead.                 *)

Says(op) ==
    /\ op.kind = "create_job" => job.status # "absent"
    /\ op.kind = "create_block" => op.block \in Blocks /\ Exists(op.block)
    /\ op.kind = "complete_block" => op.block \in Blocks /\ blk[op.block].partial # Null
    /\ op.kind = "update_job_status" => AnswerStored

MessagesSay == (\A p \in posts : Says(p.op)) /\ (\A q \in late : Says(q.op))

BackupInv == MessagesSay /\ BackupNeverAhead

LEMMA SaysKept ==
    ASSUME TypeOK, DatabaseInv, [Next]_vars, NEW op, Says(op) PROVE Says(op)'
BY DatabaseGrows DEF Says

LEMMA JustifiedKept ==
    ASSUME TypeOK, DatabaseInv, [Next]_vars, NEW db, Justified(db) PROVE Justified(db)'
BY DatabaseGrows DEF Justified, Exists

LEMMA ApplyJustified ==
    ASSUME NEW db \in Replica, NEW op \in Op, Justified(db), Says(op)
    PROVE  Justified(Apply(db, op))
<1> DEFINE new == Apply(db, op)
<1>1. /\ new.job.status # "absent" => job.status # "absent"
      /\ new.job.status = "complete" => AnswerStored
    BY DEF Apply, AppliedJob, SyncJobStatus, Justified, Says, Replica
<1>2. ASSUME NEW b \in Blocks
      PROVE  /\ new.blk[b].status # "absent" => blk[b].status # "absent"
             /\ new.blk[b].partial # Null => blk[b].partial # Null
  <2> DEFINE row == db.blk[b]
             res == AppliedBlock(row, op)
  <2>1. row \in BlockRow
    BY DEF Replica
  <2>2. /\ row.status # "absent" => blk[b].status # "absent"
        /\ row.partial # Null => blk[b].partial # Null
    BY DEF Justified
  <2>3. new.blk[b] = IF b = op.block THEN res ELSE row
    BY DEF Apply
  <2> HIDE DEF row, new
  <2>4. CASE b # op.block
    BY <2>2, <2>3, <2>4
  <2>5. CASE b = op.block /\ op.kind = "create_block"
    BY <2>1, <2>2, <2>3, <2>5 DEF AppliedBlock, CreateBlock, Says, Exists, BlockRow
  <2>6. CASE b = op.block /\ op.kind = "assign_block"
    BY <2>1, <2>2, <2>3, <2>6 DEF AppliedBlock, AssignBlock, BlockRow
  <2>7. CASE b = op.block /\ op.kind = "fail_block"
    BY <2>1, <2>2, <2>3, <2>7 DEF AppliedBlock, FailBlock, BlockRow
  <2>8. CASE b = op.block /\ op.kind = "complete_block"
    BY <2>1, <2>2, <2>3, <2>8 DEF AppliedBlock, CompleteBlock, Accepts, Says, BlockRow
  <2>9. CASE op.kind \in {"create_job", "update_job_status"}
    BY <2>2, <2>3, <2>9 DEF AppliedBlock
  <2> QED BY <2>4, <2>5, <2>6, <2>7, <2>8, <2>9 DEF Op, OpKind
<1> HIDE DEF new
<1>3. Justified(new)
    BY <1>1, <1>2 DEF Justified
<1> QED BY <1>3 DEF new

LEMMA AcceptedIsFilled ==
    ASSUME TypeOK, DatabaseInv, NEW b \in Blocks, NEW a \in Int, NEW p \in Members \cup {Empty},
           Accepts(blk[b], a), blk' = [blk EXCEPT ![b] = CompleteBlock(@, a, p)]
    PROVE  blk'[b].partial # Null
<1>1. blk'[b] = CompleteBlock(blk[b], a, p) /\ blk[b] \in BlockRow
    BY DEF TypeOK
<1>2. p # Null
    BY NullAssumption
<1>3. blk[b].status = "done" => blk[b].partial # Null
    BY DEF DatabaseInv, DoneIsFilled
<1>4. CASE blk[b].status = "done"
    BY <1>1, <1>3, <1>4 DEF CompleteBlock
<1>5. CASE blk[b].status # "done"
  <2> DEFINE row == blk[b]
  <2>1. blk'[b] = [row EXCEPT !.status = "done", !.partial = p] /\ row \in BlockRow
    BY <1>1, <1>5 DEF CompleteBlock
  <2> HIDE DEF row
  <2>2. blk'[b].partial = p
    BY <2>1 DEF BlockRow
  <2> QED BY <1>2, <2>2
<1> QED BY <1>4, <1>5

LEMMA NewOpsSay ==
    ASSUME TypeOK, DatabaseInv, [Next]_vars, unsent \subseteq Creations, NEW op \in Op, NewOp(op)
    PROVE  Says(op)'
<1> USE RunsAssumption
<1>1. CASE op \in unsent /\ pc[FirstRun] = "persist" /\ todo[FirstRun] = {}
  <2>1. job.status # "absent"
    BY <1>1 DEF DatabaseInv, JobInv, StatusInv, JobStarted
  <2>2. \A b \in Blocks : Exists(b)
    BY <1>1 DEF DatabaseInv, RowsExist
  <2>3. Says(op)
    BY <1>1, <2>1, <2>2 DEF Creations, CreateJobOp, CreateBlockOp, Says
  <2> QED BY <2>3, SaysKept
<1>2. CASE (\E b \in Blocks : op = FailOp(b))
               \/ \E b \in Blocks, w \in Members : op = AssignOp(b, w)
    BY <1>2 DEF FailOp, AssignOp, Says
<1>3. ASSUME NEW t \in doing[FirstRun], FinishLocal(FirstRun), Accepts(blk[t.block], t.attempt),
             op = CompleteOp(t.block, t.attempt, t.worker)
      PROVE  Says(op)'
  <2>1. t.block \in Blocks /\ t.attempt \in Int /\ t.worker \in Members
    BY DEF TypeOK, Task
  <2>2. blk' = [blk EXCEPT ![t.block] = CompleteBlock(@, t.attempt, t.worker)]
    BY <1>3 DEF FinishLocal, DatabaseInv, SingleDoing
  <2>3. blk'[t.block].partial # Null
    BY <1>3, <2>1, <2>2, AcceptedIsFilled
  <2> QED BY <1>3, <2>1, <2>3 DEF CompleteOp, Says
<1>4. ASSUME NEW m \in results, DeliverResult(m), Accepts(blk[m.task.block], AttemptIn(m)),
             op = CompleteOp(m.task.block, AttemptIn(m), PartialIn(m))
      PROVE  Says(op)'
  <2>1. m.task.block \in Blocks /\ AttemptIn(m) \in Int /\ PartialIn(m) \in Members \cup {Empty}
    BY DEF TypeOK, Result, Task, AttemptIn, PartialIn, NoAttempt
  <2>2. blk'[m.task.block].partial # Null
    BY <1>4, <2>1, AcceptedIsFilled DEF DeliverResult
  <2> QED BY <1>4, <2>1, <2>2 DEF CompleteOp, Says
<1>5. CASE op = StatusOp /\ MarkComplete(FirstRun)
  <2>1. AnswerStored
    BY <1>5 DEF MarkComplete, DatabaseInv, AnswerInv, StoredFirst
  <2>2. Says(op)
    BY <1>5, <2>1 DEF StatusOp, Says
  <2> QED BY <2>2, SaysKept
<1> QED BY <1>1, <1>2, <1>3, <1>4, <1>5 DEF NewOp

LEMMA BackupStep ==
    RTypeOK /\ DatabaseInv /\ BackupInv /\ [RNext]_allVars => BackupInv'
<1> SUFFICES ASSUME RTypeOK, DatabaseInv, BackupInv, [RNext]_allVars PROVE BackupInv'
    OBVIOUS
<1>1. TypeOK /\ [Next]_vars /\ unsent \subseteq Creations
    BY StepRefines DEF RTypeOK
<1>2. \A op : Says(op) => Says(op)'
    BY <1>1, SaysKept
<1>3. \A op \in Op : NewOp(op) => Says(op)'
    BY <1>1, NewOpsSay
<1>4. Sends \/ Applies \/ Drops
    BY RSteps
<1>5. MessagesSay'
  <2>1. CASE Sends
    BY <1>2, <1>3, <2>1 DEF Sends, BackupInv, MessagesSay
  <2>2. CASE Applies
    BY <1>2, <2>2 DEF Applies, BackupInv, MessagesSay
  <2>3. CASE Drops
    BY <1>2, <2>3 DEF Drops, BackupInv, MessagesSay
  <2> QED BY <1>4, <2>1, <2>2, <2>3
<1>6. replica \in [Backups -> Replica] /\ \A n \in Backups : Justified(replica[n])
    BY DEF RTypeOK, BackupInv, BackupNeverAhead
<1>7. BackupNeverAhead'
  <2>1. CASE replica' = replica
    <3> SUFFICES ASSUME NEW n \in Backups PROVE Justified(replica[n])'
        BY DEF BackupNeverAhead
    <3>1. Justified(replica[n])
      BY <1>6
    <3>2. \A db : Justified(db) => Justified(db)'
      BY <1>1, JustifiedKept
    <3> QED BY <2>1, <3>1, <3>2
  <2>2. CASE Applies
    <3> PICK n \in Backups, op \in Op :
            /\ (\E p \in posts : p.op = op) \/ (\E q \in late : q.op = op)
            /\ replica' = [replica EXCEPT ![n] = Apply(@, op)]
      BY <2>2 DEF Applies
    <3>1. Says(op)
      BY DEF BackupInv, MessagesSay
    <3>2. Justified(Apply(replica[n], op))
      BY <1>6, <3>1, ApplyJustified
    <3>3. \A m \in Backups : Justified(replica'[m])
      BY <1>6, <3>2
    <3>4. UNCHANGED <<job, answer, blk>>
      BY <2>2 DEF Applies, vars, database
    <3> QED BY <3>3, <3>4 DEF BackupNeverAhead, Justified, AnswerStored
  <2> QED BY <1>4, <2>1, <2>2 DEF Sends, Drops
<1> QED BY <1>5, <1>7 DEF BackupInv

\* No backup ever has a row, a product or the completion of a job before the
\* coordinator's database has it, under any loss, repetition and delay of the
\* replicated writes and any crash (coordinator.py _sync_to_backups, apply_sync).
THEOREM BackupsAreNeverAhead == RSpec => []BackupNeverAhead
<1>1. RInit => BackupInv
    BY DEF RInit, BackupInv, MessagesSay, BackupNeverAhead, Justified, AbsentRow
<1>2. RSpec => []DatabaseInv
    BY CoordinatorIsImplemented, DatabaseAlways DEF ImplementsCoordinator
<1>3. RSpec => []BackupInv
    BY <1>1, <1>2, BackupStep, ReplicasAreTyped, PTL DEF RSpec
<1> QED BY <1>3, PTL DEF BackupInv

-----------------------------------------------------------------------------
(* The one coordinator.  With a database of its own, rows are given out and *)
(* given back only by it.                                                   *)

Sending == {"sync", "accepted", "lost"}
Local   == {"compute", "recompute"}
Closing == {"assemble", "mark", "announce", "ended"}

(* What a run may have in its hands at each stage.                          *)
Hands ==
    /\ pc[FirstRun] \notin Sending \cup Local => doing[FirstRun] = {}
    /\ \A b \in computing[Host] :
           pc[FirstRun] \in Local /\ \E t \in doing[FirstRun] : t.block = b
    /\ pc[FirstRun] \notin {"assign", "syncFail", "compute"} \cup Sending
           => spare[FirstRun] = {}
    /\ pc[FirstRun] = "syncFail" => \A b, c \in spare[FirstRun] : b = c

LEMMA LoneSteps ==
    ASSUME [Next]_vars
    PROVE  \/ UNCHANGED vars
           \/ CreateJob(FirstRun) \/ MarkRunning(FirstRun) \/ BeginRun(FirstRun)
           \/ \E b \in Blocks : PersistBlock(FirstRun, b)
           \/ \E b \in Blocks, w \in Members : AssignRemote(FirstRun, b, w)
           \/ \E b \in Blocks : AssignLocal(FirstRun, b) \/ Reassign(FirstRun, b)
           \/ \E b \in Blocks : SkipLocal(FirstRun, b) \/ SkipReclaim(FirstRun, b)
           \/ \E b \in Blocks : Reclaim(FirstRun, b)
           \/ SendWork(FirstRun) \/ SendConfirmed(FirstRun) \/ SendFailed(FirstRun)
           \/ FinishLocal(FirstRun) \/ FailLocal(FirstRun)
           \/ EndAssign(FirstRun) \/ PollDone(FirstRun) \/ PollTimedOut(FirstRun)
           \/ EndReclaim(FirstRun)
           \/ Assemble(FirstRun) \/ AssembleFails(FirstRun) \/ MarkComplete(FirstRun)
           \/ Announce(FirstRun)
           \/ \E n \in Nodes : Crash(n)
           \/ \E t \in held : \/ \E f \in BOOLEAN : NodeFinish(t, f)
                              \/ BrowserFinish(t) \/ WorkerLoses(t)
           \/ \E m \in results : DeliverResult(m) \/ LoseResult(m)
           \/ \E b \in Blocks : LeaseExpires(b)
BY ReplicationAssumption
   DEF Next, RunStep, SubmitStep, AssignStep, MonitorStep, AssembleStep, Environment, Resume,
       EchoAssign, EchoFail, EchoComplete

LEMMA HandsStep ==
    ASSUME TypeOK, SingleDoing, Hands, [Next]_vars PROVE Hands'
<1>1. /\ pc \in [Runs -> Stage] /\ doing \in [Runs -> SUBSET Task]
      /\ spare \in [Runs -> SUBSET Blocks] /\ computing \in [Nodes -> SUBSET Blocks]
      /\ FirstRun \in Runs /\ Host \in Nodes /\ Runs = {FirstRun}
    BY RunsAssumption, ReplicationAssumption DEF TypeOK, Host
<1> USE <1>1 DEF Hands, Sending, Local, Goto
<1>2. CASE UNCHANGED <<pc, doing, spare, computing>>
    BY <1>2
<1>3. CASE CreateJob(FirstRun) \/ MarkRunning(FirstRun) \/ BeginRun(FirstRun)
    BY <1>3 DEF CreateJob, MarkRunning, BeginRun, Enqueue
<1>4. ASSUME NEW b \in Blocks, NEW w \in Members, AssignRemote(FirstRun, b, w) PROVE Hands'
    BY <1>4 DEF AssignRemote
<1>5. ASSUME NEW b \in Blocks, AssignLocal(FirstRun, b) \/ Reassign(FirstRun, b)
      PROVE  Hands'
  <2>1. CASE AssignLocal(FirstRun, b)
    BY <2>1 DEF AssignLocal, TakeLocal, Host
  <2>2. CASE Reassign(FirstRun, b)
    BY <2>2 DEF Reassign, TakeLocal, Host
  <2> QED BY <1>5, <2>1, <2>2
<1>6. ASSUME NEW b \in Blocks,
             \/ Reclaim(FirstRun, b) \/ SkipLocal(FirstRun, b) \/ SkipReclaim(FirstRun, b)
      PROVE  Hands'
    BY <1>6 DEF Reclaim, SkipLocal, SkipReclaim, Host
<1>7. CASE SendWork(FirstRun) \/ SendConfirmed(FirstRun)
    BY <1>7 DEF SendWork, SendConfirmed
<1>8. CASE SendFailed(FirstRun)
    BY <1>8 DEF SendFailed
<1>9. CASE FinishLocal(FirstRun) \/ FailLocal(FirstRun)
  <2> PICK t \in doing[FirstRun] : EndLocal(FirstRun, t)
    BY <1>9 DEF FinishLocal, FailLocal
  <2>1. \A u \in doing[FirstRun] : u = t
    BY DEF SingleDoing
  <2> QED BY <2>1 DEF EndLocal, Host
<1>10. CASE \/ EndAssign(FirstRun) \/ PollDone(FirstRun) \/ PollTimedOut(FirstRun)
            \/ EndReclaim(FirstRun)
    BY <1>10 DEF EndAssign, PollDone, PollTimedOut, EndReclaim
<1>11. CASE \/ Assemble(FirstRun) \/ AssembleFails(FirstRun) \/ MarkComplete(FirstRun)
            \/ Announce(FirstRun)
    BY <1>11 DEF Assemble, AssembleFails, MarkComplete, Announce
<1>12. ASSUME NEW n \in Nodes, Crash(n) PROVE Hands'
    BY <1>12 DEF Crash, Host
<1> QED
    BY <1>2, <1>3, <1>4, <1>5, <1>6, <1>7, <1>8, <1>9, <1>10, <1>11, <1>12, LoneSteps
       DEF PersistBlock, NodeFinish, BrowserFinish, WorkerLoses, DeliverResult, LoseResult,
           LeaseExpires, vars

(* What becomes of a row in a step that gives no block out: only a failed   *)
(* send and a timeout give one back, and those keep it for the coordinator. *)
Keeps(b) ==
    \/ blk'[b] = blk[b] \/ blk'[b] = CreateBlock(blk[b])
    \/ blk[b].status = "assigned" /\ blk'[b] = [blk[b] EXCEPT !.assigned_at = "overdue"]
    \/ blk'[b] = FailBlock(blk[b]) /\ b \in spare'[FirstRun]
    \/ /\ blk'[b] = FailBlock(blk[b])
       /\ FailLocal(FirstRun) /\ \E t \in doing[FirstRun] : t.block = b
    \/ \E t \in Executions :
           t.block = b /\ blk'[b] = CompleteBlock(blk[b], t.attempt, t.worker)
    \/ blk'[b] = CompleteBlock(blk[b], NoAttempt, Empty)

Gives(b, w) == pc[FirstRun] \in {"assign", "syncFail"} /\ Grant(FirstRun, b, w)

LEMMA LoneRows ==
    ASSUME TypeOK, RowsExist, [Next]_vars
    PROVE  \/ \E b \in Blocks, w \in Members : Gives(b, w)
           \/ \A b \in Blocks : Keeps(b)
<1> SUFFICES ASSUME ~(\E b \in Blocks, w \in Members : Gives(b, w)), NEW c \in Blocks
             PROVE  Keeps(c)
    OBVIOUS
<1>1. /\ blk \in [Blocks -> BlockRow] /\ spare \in [Runs -> SUBSET Blocks]
      /\ FirstRun \in Runs /\ HostOf[FirstRun] \in Members
    BY RunsAssumption DEF TypeOK, Members
<1> USE <1>1
<1>2. CASE UNCHANGED blk
    BY <1>2 DEF Keeps
<1>3. ASSUME NEW b \in Blocks, PersistBlock(FirstRun, b) PROVE Keeps(c)
    BY <1>3 DEF PersistBlock, Keeps
<1>4. ASSUME NEW b \in Blocks, NEW w \in Members, AssignRemote(FirstRun, b, w) PROVE FALSE
  <2>1. Exists(b)
    BY <1>4 DEF AssignRemote, RowsExist
  <2> QED BY <1>4, <2>1, AssignGrants DEF AssignRemote, Grant, Gives
<1>5. ASSUME NEW b \in Blocks, AssignLocal(FirstRun, b) \/ Reassign(FirstRun, b) PROVE FALSE
  <2>1. /\ \E stage : TakeLocal(FirstRun, b, stage)
        /\ b \in spare[FirstRun] /\ pc[FirstRun] \in {"assign", "syncFail"}
    BY <1>5 DEF AssignLocal, Reassign
  <2>2. Exists(b)
    BY <2>1 DEF RowsExist
  <2>3. Gives(b, HostOf[FirstRun])
    BY <2>1, <2>2, AssignGrants DEF TakeLocal, Grant, Gives
  <2> QED BY <2>3
<1>6. ASSUME NEW b \in Blocks, Reclaim(FirstRun, b) PROVE Keeps(c)
    BY <1>6 DEF Reclaim, Keeps
<1>7. CASE SendFailed(FirstRun)
    BY <1>7 DEF SendFailed, Keeps, TypeOK, Task
<1>8. CASE FailLocal(FirstRun)
    BY <1>8 DEF FailLocal, Keeps, TypeOK, Task
<1>9. CASE FinishLocal(FirstRun)
  <2> PICK t \in doing[FirstRun] :
          blk' = [blk EXCEPT ![t.block] = CompleteBlock(@, t.attempt, t.worker)]
    BY <1>9 DEF FinishLocal
  <2>1. t \in Executions /\ t.block \in Blocks
    BY DEF Executions, TypeOK, Task
  <2> QED BY <2>1 DEF Keeps
<1>10. ASSUME NEW m \in results, DeliverResult(m) PROVE Keeps(c)
  <2>1. m.task \in Executions /\ m.task.block \in Blocks
    BY DEF Executions, TypeOK, Result, Task
  <2>2. blk' = [blk EXCEPT ![m.task.block] = CompleteBlock(@, AttemptIn(m), PartialIn(m))]
    BY <1>10 DEF DeliverResult
  <2> QED BY <2>1, <2>2 DEF AttemptIn, PartialIn, Keeps
<1>11. ASSUME NEW b \in Blocks, LeaseExpires(b) PROVE Keeps(c)
    BY <1>11 DEF LeaseExpires, Keeps
<1> QED
    BY <1>2, <1>3, <1>4, <1>5, <1>6, <1>7, <1>8, <1>9, <1>10, <1>11, LoneSteps
       DEF CreateJob, MarkRunning, BeginRun, SkipLocal, SkipReclaim, SendWork, SendConfirmed,
           EndAssign, PollDone, PollTimedOut, EndReclaim, Assemble, AssembleFails, MarkComplete,
           Announce, Crash, NodeFinish, BrowserFinish, WorkerLoses, LoseResult, database, vars

LEMMA KeepsAttempt ==
    ASSUME TypeOK, NEW b \in Blocks, Keeps(b)
    PROVE  blk'[b].attempt_id = blk[b].attempt_id
BY DEF Keeps, TypeOK, BlockRow, CreateBlock, FailBlock, CompleteBlock

LEMMA KeepingGrantsNothing ==
    ASSUME TypeOK, RowsExist, [Next]_vars, \A b \in Blocks : Keeps(b) PROVE NoGrant
<1> SUFFICES ASSUME NEW r \in Runs, NEW b \in Blocks, NEW w \in Members, Grant(r, b, w)
             PROVE  FALSE
    BY StepLease
<1>1. blk'[b].attempt_id = blk[b].attempt_id + 1
    BY AssignGrants DEF Grant
<1>2. blk'[b].attempt_id = blk[b].attempt_id /\ blk[b].attempt_id \in Nat
    BY KeepsAttempt DEF TypeOK, BlockRow
<1> QED BY <1>1, <1>2

(* While a block is in the run's hands its row has the run's lease.         *)
OwnerKnown == \A t \in doing[FirstRun] : blk[t.block].attempt_id = t.attempt

LEMMA OwnerStep ==
    ASSUME TypeOK, RowsExist, OwnerKnown, [Next]_vars PROVE OwnerKnown'
<1>1. ASSUME NEW b \in Blocks, NEW w \in Members, Gives(b, w) PROVE OwnerKnown'
  <2>1. /\ Exists(b) /\ blk' = [blk EXCEPT ![b] = AssignBlock(@, w)]
        /\ doing' = [doing EXCEPT ![FirstRun] =
               {[block |-> b, worker |-> w, attempt |-> blk[b].attempt_id + 1]}]
    BY <1>1 DEF Gives, Grant
  <2>2. blk'[b].attempt_id = blk[b].attempt_id + 1
    BY <2>1, AssignGrants
  <2>3. \A t \in doing'[FirstRun] : t.block = b /\ t.attempt = blk[b].attempt_id + 1
    BY <2>1, RunsAssumption DEF TypeOK
  <2> QED BY <2>2, <2>3 DEF OwnerKnown
<1>2. CASE \A b \in Blocks : Keeps(b)
  <2>1. doing'[FirstRun] \subseteq doing[FirstRun]
    BY <1>2, KeepingGrantsNothing, RunsAssumption DEF NoGrant
  <2>2. \A t \in doing[FirstRun] : t.block \in Blocks
    BY RunsAssumption DEF TypeOK, Task
  <2> QED BY <1>2, <2>1, <2>2, KeepsAttempt DEF OwnerKnown
<1> QED BY <1>1, <1>2, LoneRows

(* A block computed by the coordinator itself is in nobody else's hands.    *)
Elsewhere(t) == t \in held \/ \E m \in results : m.task = t

Private ==
    pc[FirstRun] \in Local => \A t \in doing[FirstRun] : ~Elsewhere(t)

LEMMA PrivateStep ==
    ASSUME TypeOK, RowsExist, LeaseBound, Private, [Next]_vars PROVE Private'
<1>1. /\ pc \in [Runs -> Stage] /\ doing \in [Runs -> SUBSET Task] /\ FirstRun \in Runs
    BY RunsAssumption DEF TypeOK
<1> USE <1>1 DEF Private, Elsewhere, Goto, network
<1>2. CASE UNCHANGED <<pc, doing, held, results>>
    BY <1>2
<1>3. CASE pc'[FirstRun] \notin Local
    BY <1>3
<1>4. ASSUME NEW b \in Blocks, AssignLocal(FirstRun, b) \/ Reassign(FirstRun, b)
      PROVE  Private'
  <2>1. /\ \E stage : TakeLocal(FirstRun, b, stage)
        /\ b \in spare[FirstRun]
    BY <1>4 DEF AssignLocal, Reassign
  <2>2. Exists(b) /\ HostOf[FirstRun] \in Members
    BY <2>1, RunsAssumption DEF RowsExist, Members
  <2>3. blk'[b].attempt_id = blk[b].attempt_id + 1
    BY <2>1, <2>2, AssignGrants DEF TakeLocal
  <2>4. \A t \in doing'[FirstRun] : t.block = b /\ t.attempt = blk[b].attempt_id + 1
    BY <2>1, <2>3 DEF TakeLocal
  <2>5. held \subseteq Executions /\ \A m \in results : m.task \in Executions
    BY DEF Executions
  <2>6. \A t \in Executions : t.block = b => t.attempt # blk[b].attempt_id + 1
    BY ExecutionsType DEF LeaseBound, Task, TypeOK, BlockRow
  <2>7. UNCHANGED <<held, results>>
    BY <2>1 DEF TakeLocal
  <2> QED BY <2>4, <2>5, <2>6, <2>7
<1>5. ASSUME NEW t \in held, \/ \E f \in BOOLEAN : NodeFinish(t, f)
                             \/ BrowserFinish(t) \/ WorkerLoses(t)
      PROVE  Private'
  <2>1. UNCHANGED <<pc, doing>> /\ \A u : Elsewhere(u)' => Elsewhere(u)
    BY <1>5 DEF NodeFinish, BrowserFinish, WorkerLoses
  <2> QED BY <2>1
<1>6. ASSUME NEW m \in results, DeliverResult(m) \/ LoseResult(m) PROVE Private'
    BY <1>6 DEF DeliverResult, LoseResult
<1>7. ASSUME NEW b \in Blocks, NEW w \in Members, AssignRemote(FirstRun, b, w)
      PROVE  pc'[FirstRun] \notin Local
    BY <1>7 DEF AssignRemote, Local
<1>8. ASSUME NEW b \in Blocks, Reclaim(FirstRun, b) PROVE pc'[FirstRun] \notin Local
    BY <1>8 DEF Reclaim, Local
<1>9. CASE \/ CreateJob(FirstRun) \/ MarkRunning(FirstRun) \/ BeginRun(FirstRun)
           \/ SendWork(FirstRun) \/ SendConfirmed(FirstRun) \/ SendFailed(FirstRun)
           \/ EndAssign(FirstRun) \/ PollDone(FirstRun) \/ PollTimedOut(FirstRun)
           \/ EndReclaim(FirstRun) \/ Assemble(FirstRun) \/ AssembleFails(FirstRun)
           \/ MarkComplete(FirstRun) \/ Announce(FirstRun)
    BY <1>3, <1>9
       DEF CreateJob, MarkRunning, BeginRun, SendWork, SendConfirmed, SendFailed, EndAssign,
           PollDone, PollTimedOut, EndReclaim, Assemble, AssembleFails, MarkComplete, Announce,
           Local
<1>10. CASE FinishLocal(FirstRun) \/ FailLocal(FirstRun)
    BY <1>3, <1>10 DEF FinishLocal, FailLocal, EndLocal, Local
<1>11. ASSUME NEW n \in Nodes, Crash(n) PROVE Private'
    BY <1>11 DEF Crash
<1> QED
    BY <1>2, <1>3, <1>4, <1>5, <1>6, <1>7, <1>8, <1>9, <1>10, <1>11, LoneSteps
       DEF PersistBlock, SkipLocal, SkipReclaim, LeaseExpires, vars

(* A block that lost its worker is the coordinator's to compute: it is on   *)
(* its list as long as the lease it lost can still bring a product.         *)
Taken ==
    pc[FirstRun] # "down" =>
        /\ \A t \in Executions :
               t.attempt = blk[t.block].attempt_id /\ blk[t.block].worker_id = Null
                   => t.block \in spare[FirstRun]
        /\ \A b \in Blocks :
               blk[b].status = "done" /\ blk[b].worker_id = Null /\ blk[b].partial # Empty
                   => b \in spare[FirstRun]

LEMMA LoneStages ==
    ASSUME TypeOK, [Next]_vars
    PROVE  \/ pc'[FirstRun] = pc[FirstRun]
           \/ pc'[FirstRun] = "down" /\ pc[FirstRun] \notin {"ended", "down"}
           \/ pc[FirstRun] = "announce" /\ pc'[FirstRun] = "ended"
           \/ PollDone(FirstRun) \/ Assemble(FirstRun) \/ AssembleFails(FirstRun)
           \/ MarkComplete(FirstRun)
           \/ /\ pc[FirstRun] \notin Closing \cup {"down"}
              /\ pc'[FirstRun] \notin Closing \cup {"down"}
<1> USE RunsAssumption DEF TypeOK, Closing, Goto
<1>1. CASE \/ CreateJob(FirstRun) \/ MarkRunning(FirstRun) \/ BeginRun(FirstRun)
           \/ \E b \in Blocks : PersistBlock(FirstRun, b)
    BY <1>1 DEF CreateJob, MarkRunning, BeginRun, PersistBlock
<1>2. CASE \/ \E b \in Blocks, w \in Members : AssignRemote(FirstRun, b, w)
           \/ \E b \in Blocks : AssignLocal(FirstRun, b) \/ Reassign(FirstRun, b)
           \/ \E b \in Blocks : SkipLocal(FirstRun, b) \/ SkipReclaim(FirstRun, b)
           \/ \E b \in Blocks : Reclaim(FirstRun, b)
    BY <1>2 DEF AssignRemote, AssignLocal, Reassign, TakeLocal, SkipLocal, SkipReclaim, Reclaim
<1>3. CASE SendWork(FirstRun) \/ SendConfirmed(FirstRun) \/ SendFailed(FirstRun)
    BY <1>3 DEF SendWork, SendConfirmed, SendFailed
<1>4. CASE FinishLocal(FirstRun) \/ FailLocal(FirstRun)
    BY <1>4 DEF FinishLocal, FailLocal, EndLocal
<1>5. CASE EndAssign(FirstRun) \/ PollTimedOut(FirstRun) \/ EndReclaim(FirstRun)
    BY <1>5 DEF EndAssign, PollTimedOut, EndReclaim
<1>6. CASE Announce(FirstRun)
    BY <1>6 DEF Announce
<1>7. ASSUME NEW n \in Nodes, Crash(n)
      PROVE  \/ pc'[FirstRun] = pc[FirstRun]
             \/ pc'[FirstRun] = "down" /\ pc[FirstRun] \notin {"ended", "down"}
    BY <1>7 DEF Crash, Active
<1> QED
    BY <1>1, <1>2, <1>3, <1>4, <1>5, <1>6, <1>7, LoneSteps
       DEF NodeFinish, BrowserFinish, WorkerLoses, DeliverResult, LoseResult, LeaseExpires, vars

LEMMA SpareKept ==
    ASSUME TypeOK, RowsExist, Hands, [Next]_vars, pc'[FirstRun] # "down",
           NEW b \in spare[FirstRun]
    PROVE  b \in spare'[FirstRun] \/ \E w \in Members : Gives(b, w)
<1>1. /\ pc \in [Runs -> Stage] /\ spare \in [Runs -> SUBSET Blocks]
      /\ FirstRun \in Runs /\ HostOf[FirstRun] \in Members /\ b \in Blocks /\ Runs = {FirstRun}
    BY RunsAssumption, ReplicationAssumption DEF TypeOK, Members
<1> USE <1>1
<1>2. CASE BeginRun(FirstRun)
    BY <1>2 DEF BeginRun, Hands, Sending
<1>3. ASSUME NEW c \in Blocks, AssignLocal(FirstRun, c) \/ Reassign(FirstRun, c),
             b \notin spare'[FirstRun]
      PROVE  Gives(b, HostOf[FirstRun])
  <2>1. \E stage : TakeLocal(FirstRun, c, stage)
    BY <1>3 DEF AssignLocal, Reassign
  <2>2. c = b /\ pc[FirstRun] \in {"assign", "syncFail"} /\ Exists(b)
    BY <1>3, <2>1 DEF AssignLocal, Reassign, TakeLocal, RowsExist
  <2> QED BY <2>1, <2>2, AssignGrants DEF TakeLocal, Grant, Gives
<1>4. ASSUME NEW c \in Blocks, SkipLocal(FirstRun, c) PROVE FALSE
    BY <1>4 DEF SkipLocal, Hands, Local, Host
<1>5. ASSUME NEW c \in Blocks, Reclaim(FirstRun, c) PROVE FALSE
    BY <1>5 DEF Reclaim, Hands, Sending
<1>6. ASSUME NEW n \in Nodes, Crash(n) PROVE b \in spare'[FirstRun]
    BY <1>6 DEF Crash
<1>7. CASE SendFailed(FirstRun)
    BY <1>7 DEF SendFailed
<1>8. CASE FinishLocal(FirstRun) \/ FailLocal(FirstRun)
    BY <1>8 DEF FinishLocal, FailLocal, EndLocal
<1> QED
    BY <1>2, <1>3, <1>4, <1>5, <1>6, <1>7, <1>8, LoneSteps
       DEF CreateJob, MarkRunning, PersistBlock, AssignRemote, SkipReclaim, SendWork,
           SendConfirmed, EndAssign, PollDone, PollTimedOut, EndReclaim, Assemble,
           AssembleFails, MarkComplete, Announce, NodeFinish, BrowserFinish, WorkerLoses,
           DeliverResult, LoseResult, LeaseExpires, vars

LoneInv ==
    /\ LeaseInv /\ Hands
    /\ OwnerKnown /\ Private /\ Taken

LEMMA TakenGiven ==
    ASSUME TypeOK, RowsExist, LoneInv, [Next]_vars, NEW b \in Blocks, NEW w \in Members,
           Gives(b, w), pc[FirstRun] # "down", pc'[FirstRun] # "down"
    PROVE  Taken'
<1>1. /\ blk \in [Blocks -> BlockRow] /\ Exists(b) /\ w # Null
      /\ blk' = [blk EXCEPT ![b] = AssignBlock(@, w)]
    BY NullAssumption DEF Gives, Grant, TypeOK
<1>2. blk'[b].worker_id = w /\ blk'[b].status = "assigned"
    BY <1>1 DEF AssignBlock, Exists, BlockRow
<1>3. \A c \in Blocks : c # b => blk'[c] = blk[c]
    BY <1>1
<1>4. \A t \in Executions' : t.block = b \/ t \in Executions
  <2>1. /\ UNCHANGED <<held, results>> /\ Runs = {FirstRun}
        /\ \A t \in doing'[FirstRun] : t.block = b
    BY ReplicationAssumption DEF Gives, Grant, network, TypeOK
  <2>2. \A t \in Executions' :
            t \in held \/ (\E m \in results : m.task = t) \/ t \in doing'[FirstRun]
    BY <2>1 DEF Executions
  <2> QED BY <2>1, <2>2 DEF Executions
<1>5. ASSUME NEW c \in spare[FirstRun], c # b PROVE c \in spare'[FirstRun]
  <2>1. c \in Blocks /\ blk'[c].attempt_id = blk[c].attempt_id /\ blk[c].attempt_id \in Nat
    BY <1>1, <1>3, <1>5, RunsAssumption DEF TypeOK, BlockRow
  <2>2. ASSUME NEW v \in Members, Gives(c, v) PROVE FALSE
    <3>1. Exists(c) /\ blk' = [blk EXCEPT ![c] = AssignBlock(@, v)]
      BY <2>2 DEF Gives, Grant
    <3>2. blk'[c].attempt_id = blk[c].attempt_id + 1
      BY <2>1, <3>1, AssignGrants
    <3> QED BY <2>1, <3>2
  <2> QED BY <2>2, SpareKept DEF LoneInv
<1>6. Executions \subseteq Task
    BY ExecutionsType
<1> QED BY <1>1, <1>2, <1>3, <1>4, <1>5, <1>6 DEF LoneInv, Taken, Task

LEMMA TakenKept ==
    ASSUME TypeOK, RowsExist, LoneInv, [Next]_vars, \A b \in Blocks : Keeps(b),
           pc[FirstRun] # "down", pc'[FirstRun] # "down"
    PROVE  Taken'
<1>1. Executions' \subseteq Executions /\ Executions \subseteq Task
    BY KeepingGrantsNothing, ExecutionsType DEF NoGrant
<1>2. \A b \in Blocks : blk[b] \in BlockRow /\ blk'[b].attempt_id = blk[b].attempt_id
    BY KeepsAttempt DEF TypeOK
<1>3. ASSUME NEW b \in spare[FirstRun] PROVE b \in spare'[FirstRun]
  <2>1. b \in Blocks
    BY RunsAssumption DEF TypeOK
  <2>2. \A w \in Members : ~Gives(b, w)
    BY <1>2, <2>1, AssignGrants DEF Gives, Grant, BlockRow
  <2> QED BY <2>2, SpareKept DEF LoneInv
<1>4. ASSUME NEW t \in Executions', t.attempt = blk'[t.block].attempt_id,
             blk'[t.block].worker_id = Null
      PROVE  t.block \in spare'[FirstRun]
  <2> DEFINE b == t.block
  <2>1. /\ b \in Blocks /\ t \in Executions /\ t.attempt = blk[b].attempt_id
        /\ t.attempt \in Nat
    BY <1>1, <1>2, <1>4 DEF Task
  <2>2. CASE blk[b].worker_id = Null
    BY <1>3, <2>1, <2>2 DEF LoneInv, Taken
  <2>3. CASE blk[b].worker_id # Null /\ b \notin spare'[FirstRun]
    <3>1. FailLocal(FirstRun) /\ \E u \in doing[FirstRun] : u.block = b
      BY <1>2, <1>4, <2>1, <2>3
         DEF Keeps, CreateBlock, CompleteBlock, BlockRow
    <3> PICK u \in doing[FirstRun] : u.block = b
      BY <3>1
    <3>2. u.attempt = t.attempt /\ u \in Executions
      BY <2>1, RunsAssumption DEF LoneInv, OwnerKnown, Executions
    <3>3. u = t
      BY <2>1, <3>2 DEF LoneInv, LeaseInv, LeaseUnique
    <3>4. ~Elsewhere(t)
      BY <3>1, <3>3 DEF LoneInv, Private, FailLocal, EndLocal, Local
    <3>5. doing'[FirstRun] = {} /\ held' = held /\ results' = results
      BY <3>1, RunsAssumption DEF FailLocal, EndLocal, network, TypeOK
    <3> QED BY <1>4, <3>4, <3>5, ReplicationAssumption DEF Elsewhere, Executions
  <2> QED BY <2>2, <2>3
<1>5. ASSUME NEW b \in Blocks, blk'[b].status = "done", blk'[b].worker_id = Null,
             blk'[b].partial # Empty
      PROVE  b \in spare'[FirstRun]
  <2>1. CASE blk'[b] = blk[b]
    BY <1>3, <1>5, <2>1 DEF LoneInv, Taken
  <2>2. CASE blk'[b] # blk[b]
    <3>1. \E t \in Executions :
              t.block = b /\ blk'[b] = CompleteBlock(blk[b], t.attempt, t.worker)
      BY <1>2, <1>5, <2>2 DEF Keeps, CreateBlock, FailBlock, CompleteBlock, BlockRow
    <3> PICK t \in Executions :
              t.block = b /\ blk'[b] = CompleteBlock(blk[b], t.attempt, t.worker)
      BY <3>1
    <3>2. t.attempt \in Nat
      BY <1>1 DEF Task
    <3>3. t.attempt = blk[b].attempt_id /\ blk[b].worker_id = Null
      BY <1>2, <1>5, <2>2, <3>2 DEF CompleteBlock, Accepts, BlockRow
    <3> QED BY <1>3, <3>3 DEF LoneInv, Taken
  <2> QED BY <2>1, <2>2
<1> QED BY <1>4, <1>5 DEF Taken

LEMMA LoneInvStep ==
    TypeOK /\ RowsExist /\ SingleDoing /\ LoneInv /\ [Next]_vars => LoneInv'
<1> SUFFICES ASSUME TypeOK, RowsExist, SingleDoing, LoneInv, [Next]_vars PROVE LoneInv'
    OBVIOUS
<1>1. LeaseInv' /\ Hands' /\ OwnerKnown' /\ Private'
    BY LeaseStep, HandsStep, OwnerStep, PrivateStep DEF LoneInv, LeaseInv
<1>2. pc[FirstRun] = "down" => pc'[FirstRun] = "down"
    BY LoneStages DEF Closing, PollDone, Assemble, AssembleFails, MarkComplete
<1>3. Taken'
  <2>1. CASE pc'[FirstRun] = "down"
    BY <2>1 DEF Taken
  <2>2. CASE pc'[FirstRun] # "down"
    BY <1>2, <2>2, LoneRows, TakenGiven, TakenKept
  <2> QED BY <2>1, <2>2
<1> QED BY <1>1, <1>3 DEF LoneInv

-----------------------------------------------------------------------------
(* The end of the job.                                                      *)
Outcome ==
    /\ pc[FirstRun] \in Closing => \A b \in Blocks : blk[b].status = "done"
    /\ job.status = "failed" => pc[FirstRun] = "ended"
    /\ job.status = "complete" => pc[FirstRun] \in {"announce", "ended", "down"}
    /\ AnswerStored => pc[FirstRun] \in {"mark", "announce", "ended", "down"}

OutcomeInv == Outcome /\ NoSpuriousFailure /\ ContributionsExact

LEMMA ClosingKeepsRows ==
    ASSUME TypeOK, RowsExist, Outcome, [Next]_vars, pc[FirstRun] \in Closing
    PROVE  \A b \in Blocks : blk'[b] = blk[b]
<1> SUFFICES ASSUME NEW b \in Blocks PROVE blk'[b] = blk[b]
    OBVIOUS
<1>1. blk[b].status = "done" /\ Keeps(b)
    BY LoneRows DEF Outcome, Gives, Closing
<1> QED BY <1>1 DEF Keeps, CreateBlock, FailBlock, CompleteBlock

LEMMA OutcomeStep ==
    TypeOK /\ DatabaseInv /\ Attribution /\ LoneInv /\ OutcomeInv /\ [Next]_vars => OutcomeInv'
<1> SUFFICES ASSUME TypeOK, DatabaseInv, Attribution, LoneInv, OutcomeInv, [Next]_vars
             PROVE  OutcomeInv'
    OBVIOUS
<1>1. /\ FirstRun \in Runs /\ Runs = {FirstRun} /\ Mirrors = {} /\ RowsExist
      /\ pc \in [Runs -> Stage] /\ job.status \in JobStatus
    BY RunsAssumption, ReplicationAssumption DEF DatabaseInv, TypeOK
<1> USE <1>1
<1>2. CASE PollDone(FirstRun)
  <2>1. \A b \in Blocks : blk[b].status = "done"
    BY <1>2, AllDone DEF PollDone, DoneBlocks
  <2> QED BY <1>2, <2>1
          DEF PollDone, Goto, database, OutcomeInv, Outcome, NoSpuriousFailure,
              ContributionsExact, AnswerStored, Closing
<1>3. CASE Assemble(FirstRun)
  <2>1. /\ pc[FirstRun] = "assemble" /\ pc'[FirstRun] = "mark"
        /\ blk' = blk /\ job' = job
    BY <1>3 DEF Assemble, Goto
  <2>2. \A b \in Blocks : blk[b].partial \in Members /\ answer'[b] = blk[b].partial
    BY <1>3, AssembleWhole DEF DatabaseInv, AnswerInv
  <2>3. \A b \in Blocks : blk[b].status = "done" /\ blk[b].worker_id # Null
    BY <2>1, <2>2, NullAssumption
       DEF OutcomeInv, Outcome, Closing, LoneInv, Taken, Hands, Sending
  <2>4. \A b \in Blocks : blk[b].worker_id = answer'[b]
    BY <2>2, <2>3, NullAssumption DEF Attribution
  <2> QED BY <2>1, <2>3, <2>4
          DEF OutcomeInv, Outcome, NoSpuriousFailure, ContributionsExact, Closing
<1>4. CASE AssembleFails(FirstRun)
  <2>1. /\ pc[FirstRun] = "assemble" /\ pc'[FirstRun] = "ended" /\ UNCHANGED <<blk, answer>>
        /\ job'.status \in {job.status, "failed"}
    BY <1>4 DEF AssembleFails, Goto, SetStatus, UpdateJobStatus, TypeOK
  <2>2. \A b \in Blocks : blk[b].status = "done" /\ blk[b].partial # Null
    BY <2>1 DEF OutcomeInv, Outcome, Closing, DatabaseInv, DoneIsFilled
  <2>3. \E b \in Blocks : blk[b].partial = Empty
    BY <1>4, <2>2, BlocksAssumption DEF AssembleFails, AllBlocksDone, Whole, Assembled
  <2> QED BY <2>1, <2>2, <2>3
          DEF OutcomeInv, Outcome, NoSpuriousFailure, ContributionsExact, Closing, AnswerStored
<1>5. CASE MarkComplete(FirstRun)
  <2>1. /\ pc[FirstRun] = "mark" /\ pc'[FirstRun] = "announce" /\ UNCHANGED <<blk, answer>>
        /\ job'.status \in {job.status, "complete"}
    BY <1>5 DEF MarkComplete, Goto, SetStatus, UpdateJobStatus, TypeOK
  <2> QED BY <2>1
          DEF OutcomeInv, Outcome, NoSpuriousFailure, ContributionsExact, Closing, AnswerStored
<1>6. CASE /\ job'.status = job.status \/ job'.status \in {"pending", "running"}
           /\ answer' = answer
           /\ \/ pc'[FirstRun] = pc[FirstRun]
              \/ pc'[FirstRun] = "down" /\ pc[FirstRun] # "ended"
              \/ pc[FirstRun] = "announce" /\ pc'[FirstRun] = "ended"
              \/ /\ pc[FirstRun] \notin Closing \cup {"down"}
                 /\ pc'[FirstRun] \notin Closing \cup {"down"}
  <2>1. pc'[FirstRun] \in Closing => pc[FirstRun] \in Closing
    BY <1>6 DEF Closing
  <2>2. pc[FirstRun] \in Closing => \A b \in Blocks : blk'[b] = blk[b]
    BY ClosingKeepsRows DEF OutcomeInv
  <2>3. Outcome'
    BY <1>6, <2>1, <2>2 DEF OutcomeInv, Outcome, AnswerStored, Closing
  <2>4. NoSpuriousFailure' /\ ContributionsExact'
    BY <1>6, <2>1, <2>2
       DEF OutcomeInv, Outcome, NoSpuriousFailure, ContributionsExact, AnswerStored, Closing
  <2> QED BY <2>3, <2>4 DEF OutcomeInv
<1>7. CASE CreateJob(FirstRun) \/ MarkRunning(FirstRun)
  <2>1. /\ pc[FirstRun] \in {"idle", "start"} /\ pc'[FirstRun] \in {"start", "persist"}
        /\ answer' = answer /\ job.status \in {"absent", "pending"}
    BY <1>7 DEF CreateJob, MarkRunning, Goto, DatabaseInv, JobInv, StatusInv
  <2>2. job'.status \in {"pending", "running"}
    BY <1>7, <2>1 DEF CreateJob, MarkRunning, SetStatus, UpdateJobStatus, JobTransitions,
                      JobStatus, DatabaseInv, JobInv, StatusInv, TypeOK
  <2> QED BY <1>6, <2>1, <2>2 DEF Closing
<1>8. CASE job'.status = job.status /\ answer' = answer
    BY <1>2, <1>3, <1>4, <1>5, <1>6, <1>8, LoneStages
<1> QED BY <1>3, <1>4, <1>5, <1>7, <1>8, OtherSteps

LEMMA LoneAlways == Spec => [](LoneInv /\ OutcomeInv)
<1>1. Init => LoneInv /\ OutcomeInv
  <2>1. Init => LeaseInv
    BY LeaseInit
  <2>2. Init => Hands /\ OwnerKnown /\ Private /\ Taken
    BY RunsAssumption, NullAssumption
       DEF Init, Hands, OwnerKnown, Private, Taken, Sending, Local, Executions, AbsentRow, Host
  <2>3. Init => OutcomeInv
    BY RunsAssumption
       DEF Init, OutcomeInv, Outcome, NoSpuriousFailure, ContributionsExact, AnswerStored,
           Closing
  <2> QED BY <2>1, <2>2, <2>3 DEF LoneInv
<1>2. DatabaseInv => RowsExist /\ SingleDoing
    BY DEF DatabaseInv
<1>3. Spec => []LoneInv
    BY <1>1, <1>2, LoneInvStep, TypeCorrect, DatabaseAlways, PTL DEF Spec
<1> QED
    BY <1>1, <1>3, OutcomeStep, TypeCorrect, DatabaseAlways, RowsNameContributors, PTL DEF Spec

\* With a database of its own, the row of a block that is being sent has the very
\* token that is sent (_assign_block_to_node).
THEOREM DatabaseAlwaysKnowsOwner == RSpec => []DatabaseKnowsOwner
<1>1. LoneInv => DatabaseKnowsOwner
    BY ReplicationAssumption DEF LoneInv, OwnerKnown, DatabaseKnowsOwner
<1> QED BY <1>1, LoneAlways, CoordinatorIsImplemented, PTL DEF ImplementsCoordinator

\* A coordinator that is alone marks its job FAILED only when a failure report
\* got into a row, whatever is lost, late or repeated.
THEOREM FailuresAreReported == RSpec => []NoSpuriousFailure
<1>1. OutcomeInv => NoSpuriousFailure
    BY DEF OutcomeInv
<1> QED BY <1>1, LoneAlways, CoordinatorIsImplemented, PTL DEF ImplementsCoordinator

\* The contributors job_complete names are those whose products are assembled.
THEOREM ContributorsAreExact == RSpec => []ContributionsExact
<1>1. OutcomeInv => ContributionsExact
    BY DEF OutcomeInv
<1> QED BY <1>1, LoneAlways, CoordinatorIsImplemented, PTL DEF ImplementsCoordinator

-----------------------------------------------------------------------------
(* The listed backups.                                                      *)

(* The run's write op has still to reach the backup n.                      *)
Awaits(n, op) == \E p \in posts : p.by = "run" /\ p.op = op /\ n \in {p.to} \cup p.rest

(* The creations are all delivered before the run begins, and every write   *)
(* before it ends.                                                          *)
CreationsFirst ==
    pc[FirstRun] # "down" =>
        /\ pc[FirstRun] \notin {"idle", "start", "persist"} =>
               unsent = {} /\ \A p \in posts : p.by = "run" => p.op \notin Creations
        /\ pc[FirstRun] = "ended" => ~Waiting

(* What a listed backup has, or is about to be sent.                        *)
HasJob(n)      == replica[n].job.status # "absent"
HasBlock(n, b) == replica[n].blk[b].status # "absent"
HasLease(n, b) == replica[n].blk[b].attempt_id > 0
HasEnd(n)      == replica[n].job.status = "complete"

Copied(n) ==
    /\ CreateJobOp \in unsent \/ Awaits(n, CreateJobOp) \/ HasJob(n)
    /\ \A b \in Blocks :
           CreateBlockOp(b) \in unsent \/ Awaits(n, CreateBlockOp(b)) \/ HasBlock(n, b)
    /\ \A t \in held : HasLease(n, t.block)
    /\ pc[FirstRun] = "sync" =>
           \A t \in doing[FirstRun] :
               Awaits(n, AssignOp(t.block, t.worker)) \/ HasLease(n, t.block)
    /\ pc[FirstRun] \in {"announce", "ended"} /\ job.status = "complete" =>
           Awaits(n, StatusOp) \/ HasEnd(n)

AllCopied == pc[FirstRun] # "down" => \A n \in backups \ skipped : Copied(n)

CopyInv == CreationsFirst /\ AllCopied

LEMMA ApplyKeeps ==
    ASSUME NEW db \in Replica, NEW op \in Op
    PROVE  /\ db.job.status # "absent" => Apply(db, op).job.status # "absent"
           /\ db.job.status = "complete" => Apply(db, op).job.status = "complete"
           /\ \A b \in Blocks :
                  /\ db.blk[b].status # "absent" => Apply(db, op).blk[b].status # "absent"
                  /\ db.blk[b].attempt_id > 0 => Apply(db, op).blk[b].attempt_id > 0
<1>1. ASSUME NEW row \in BlockRow
      PROVE  /\ row.status # "absent" => AppliedBlock(row, op).status # "absent"
             /\ row.attempt_id > 0 => AppliedBlock(row, op).attempt_id > 0
    BY DEF AppliedBlock, CreateBlock, AssignBlock, FailBlock, CompleteBlock, BlockRow
<1>2. \A b \in Blocks : db.blk[b] \in BlockRow
    BY DEF Replica
<1> QED BY <1>1, <1>2 DEF Apply, AppliedJob, SyncJobStatus, Replica

LEMMA ApplyMakes ==
    ASSUME NEW db \in Replica
    PROVE  /\ Apply(db, CreateJobOp).job.status # "absent"
           /\ db.job.status # "absent" => Apply(db, StatusOp).job.status = "complete"
           /\ \A b \in Blocks :
                  /\ Apply(db, CreateBlockOp(b)).blk[b].status # "absent"
                  /\ \A w \in Members : db.blk[b].status # "absent" =>
                         Apply(db, AssignOp(b, w)).blk[b].attempt_id > 0
<1>1. \A b \in Blocks : db.blk[b] \in BlockRow
    BY DEF Replica
<1>2. ASSUME NEW b \in Blocks
      PROVE  Apply(db, CreateBlockOp(b)).blk[b] = CreateBlock(db.blk[b])
    BY DEF Apply, AppliedBlock, CreateBlockOp
<1>3. ASSUME NEW b \in Blocks, NEW w \in Members
      PROVE  Apply(db, AssignOp(b, w)).blk[b] = AssignBlock(db.blk[b], w)
    BY DEF Apply, AppliedBlock, AssignOp
<1>4. Apply(db, CreateJobOp).job.status # "absent"
    BY DEF Apply, AppliedJob, CreateJobOp, Replica
<1>5. db.job.status # "absent" => Apply(db, StatusOp).job.status = "complete"
    BY DEF Apply, AppliedJob, StatusOp, Replica, SyncJobStatus
<1>6. \A row \in BlockRow : CreateBlock(row).status # "absent"
    BY DEF CreateBlock, BlockRow
<1>7. \A row \in BlockRow, w \in Members :
          row.status # "absent" => AssignBlock(row, w).attempt_id > 0
    BY DEF AssignBlock, BlockRow
<1> QED BY <1>1, <1>2, <1>3, <1>4, <1>5, <1>6, <1>7

LEMMA CopiesKept ==
    ASSUME RTypeOK, [RNext]_allVars, NEW n \in Backups
    PROVE  /\ HasJob(n) => HasJob(n)'
           /\ HasEnd(n) => HasEnd(n)'
           /\ \A b \in Blocks : /\ HasBlock(n, b) => HasBlock(n, b)'
                                /\ HasLease(n, b) => HasLease(n, b)'
<1>1. replica \in [Backups -> Replica]
    BY DEF RTypeOK
<1>2. replica'[n] = replica[n] \/ \E op \in Op : replica'[n] = Apply(replica[n], op)
    BY <1>1, RSteps DEF Sends, Applies, Drops
<1>3. CASE replica'[n] = replica[n]
    BY <1>3 DEF HasJob, HasEnd, HasBlock, HasLease
<1>4. ASSUME NEW op \in Op, replica'[n] = Apply(replica[n], op)
      PROVE  /\ HasJob(n) => HasJob(n)'
             /\ HasEnd(n) => HasEnd(n)'
             /\ \A b \in Blocks : /\ HasBlock(n, b) => HasBlock(n, b)'
                                  /\ HasLease(n, b) => HasLease(n, b)'
    BY <1>1, <1>4, ApplyKeeps DEF HasJob, HasEnd, HasBlock, HasLease
<1> QED BY <1>2, <1>3, <1>4

(* A write the run sends is awaited by every backup on its list, and by one *)
(* still on it until the write is applied there.                            *)
LEMMA SentIsAwaited ==
    ASSUME NEW op, NEW list, Send(op, list, "run")
    PROVE  /\ posts \subseteq posts'
           /\ \A n \in list : Awaits(n, op)'
<1>1. CASE list = {}
    BY <1>1 DEF Send, Proceed
<1>2. CASE list # {}
  <2> DEFINE x == CHOOSE y \in list : TRUE
             p == [op |-> op, by |-> "run", to |-> x, rest |-> list \ {x}, left |-> Attempts]
  <2>1. posts' = posts \cup {p} /\ x \in list
    BY <1>2 DEF Send, Proceed
  <2>2. p.by = "run" /\ p.op = op /\ list \subseteq {p.to} \cup p.rest
    BY <2>1
  <2> HIDE DEF p
  <2> QED BY <2>1, <2>2 DEF Awaits
<1> QED BY <1>1, <1>2

LEMMA MoveOnAwaits ==
    ASSUME NEW p \in posts, MoveOn(p)
    PROVE  /\ posts \ {p} \subseteq posts'
           /\ p.by = "run" => \A n \in p.rest : Awaits(n, p.op)'
           /\ \A q \in posts' : q \in posts \/ (q.op = p.op /\ q.by = p.by)
<1>1. CASE p.rest = {}
    BY <1>1 DEF MoveOn, Proceed
<1>2. CASE p.rest # {}
  <2> DEFINE x == CHOOSE y \in p.rest : TRUE
             q == [op |-> p.op, by |-> p.by, to |-> x, rest |-> p.rest \ {x},
                   left |-> Attempts]
  <2>1. posts' = (posts \ {p}) \cup {q} /\ x \in p.rest
    BY <1>2 DEF MoveOn, Proceed
  <2>2. q.by = p.by /\ q.op = p.op /\ p.rest \subseteq {q.to} \cup q.rest
    BY <2>1
  <2> HIDE DEF q
  <2> QED BY <2>1, <2>2 DEF Awaits
<1> QED BY <1>1, <1>2

LEMMA UnansweredAwaits ==
    ASSUME RTypeOK, NEW p \in posts, Unanswered(p)
    PROVE  /\ posts \ {p} \subseteq posts'
           /\ p.by = "run" => \A n \in {p.to} \cup p.rest :
                                  Awaits(n, p.op)' \/ n \notin backups'
           /\ backups' \subseteq backups
           /\ \A q \in posts' : q \in posts \/ (q.op = p.op /\ q.by = p.by)
<1>1. CASE p.left > 1
  <2> DEFINE q == [p EXCEPT !.left = @ - 1]
  <2>1. posts' = (posts \ {p}) \cup {q} /\ backups' = backups
    BY <1>1 DEF Unanswered
  <2>2. q.by = p.by /\ q.op = p.op /\ q.to = p.to /\ q.rest = p.rest
    BY DEF RTypeOK, Post
  <2> HIDE DEF q
  <2> QED BY <2>1, <2>2 DEF Awaits
<1>2. CASE ~(p.left > 1)
  <2>1. MoveOn(p) /\ backups' = IF p.by = "run" THEN backups \ {p.to} ELSE backups
    BY <1>2 DEF Unanswered
  <2> QED BY <2>1, MoveOnAwaits
<1> QED BY <1>1, <1>2

LEMMA AttemptAwaits ==
    ASSUME RTypeOK, NEW p \in posts, Attempt(p)
    PROVE  /\ UNCHANGED <<vars, unsent>>
           /\ backups' \ skipped' \subseteq backups \ skipped
           /\ \A q \in posts' : q \in posts \/ (q.op = p.op /\ q.by = p.by)
           /\ \A n \in backups' \ skipped', op \in Op :
                  Awaits(n, op) => Awaits(n, op)' \/ replica'[n] = Apply(replica[n], op)
<1> DEFINE Kept(n) == /\ posts \ {p} \subseteq posts'
                      /\ p.by = "run" /\ n \in {p.to} \cup p.rest =>
                             Awaits(n, p.op)' \/ replica'[n] = Apply(replica[n], p.op)
           Goal == /\ UNCHANGED <<vars, unsent>>
                   /\ backups' \ skipped' \subseteq backups \ skipped
                   /\ \A q \in posts' : q \in posts \/ (q.op = p.op /\ q.by = p.by)
                   /\ \A n \in backups' \ skipped' : Kept(n)
<1>1. p \in Post /\ replica \in [Backups -> Replica]
    BY DEF RTypeOK
<1>2. p.to \in Backups
    BY <1>1 DEF Post
<1>3. ASSUME PostSucceeds(p) \/ PostSkipped(p) PROVE Goal
  <2>1. MoveOn(p) /\ backups' = backups /\ UNCHANGED <<vars, unsent>>
    BY <1>3 DEF PostSucceeds, PostSkipped
  <2>2. /\ skipped \subseteq skipped'
        /\ replica'[p.to] = Apply(replica[p.to], p.op) \/ p.to \in skipped'
    BY <1>1, <1>2, <1>3 DEF PostSucceeds, PostSkipped
  <2> QED BY <2>1, <2>2, MoveOnAwaits
<1>4. ASSUME AnswerLost(p) \/ PostFails(p) PROVE Goal
  <2>1. Unanswered(p) /\ skipped' = skipped /\ UNCHANGED <<vars, unsent>>
    BY <1>4 DEF AnswerLost, PostFails
  <2> QED BY <2>1, UnansweredAwaits
<1>5. Goal
    BY <1>3, <1>4 DEF Attempt
<1>6. ASSUME NEW n \in backups' \ skipped', NEW op \in Op, Awaits(n, op)
      PROVE  Awaits(n, op)' \/ replica'[n] = Apply(replica[n], op)
  <2> PICK q \in posts : q.by = "run" /\ q.op = op /\ n \in {q.to} \cup q.rest
    BY <1>6 DEF Awaits
  <2>1. CASE q = p
    BY <1>5, <2>1
  <2>2. CASE q # p
    <3>1. q \in posts'
      BY <1>5, <2>2
    <3> QED BY <3>1 DEF Awaits
  <2> QED BY <2>1, <2>2
<1> QED BY <1>5, <1>6
LEMMA RunDown ==
    ASSUME RTypeOK, [RNext]_allVars, pc'[FirstRun] # "down" PROVE pc[FirstRun] # "down"
BY StepRefines, LoneStages
   DEF RTypeOK, Closing, PollDone, Assemble, AssembleFails, MarkComplete

LEMMA CreationsStep ==
    RTypeOK /\ CreationsFirst /\ [RNext]_allVars => CreationsFirst'
<1> SUFFICES ASSUME RTypeOK, CreationsFirst, [RNext]_allVars, pc'[FirstRun] # "down"
             PROVE  CreationsFirst'
    BY DEF CreationsFirst
<1>1. /\ pc \in [Runs -> Stage] /\ FirstRun \in Runs /\ Runs = {FirstRun}
      /\ pc[FirstRun] # "down"
    BY RunsAssumption, ReplicationAssumption, RunDown DEF RTypeOK, TypeOK
<1> USE <1>1 DEF CreationsFirst, Goto
<1>2. CASE UNCHANGED <<pc, unsent, posts>>
    BY <1>2 DEF Waiting
<1>3. CASE CreateJob(FirstRun)
    BY <1>3 DEF CreateJob
<1>4. ASSUME NEW op \in unsent, SyncCreation(op) PROVE CreationsFirst'
    BY <1>4 DEF SyncCreation, vars
<1>5. ASSUME ReplicatingRun PROVE CreationsFirst'
  <2>1. ~Waiting /\ unsent' = unsent
    BY <1>5 DEF ReplicatingRun, replication
  <2>2. CASE SyncedStep
    <3>1. /\ pc[FirstRun] \notin {"idle", "start", "persist"}
          /\ pc'[FirstRun] # "ended"
      BY <2>2 DEF SyncedStep, AssignRemote, Reclaim, FinishLocal, EndLocal, MarkComplete
    <3>2. \A p \in posts' : p.by = "run" => p.op \notin Creations
      <4>1. /\ \A b \in Blocks, w \in Members : AssignOp(b, w) \notin Creations
            /\ \A b \in Blocks : FailOp(b) \notin Creations
            /\ \A b, a, w : CompleteOp(b, a, w) \notin Creations
            /\ StatusOp \notin Creations
        BY DEF AssignOp, FailOp, CompleteOp, StatusOp, Creations, CreateJobOp, CreateBlockOp
      <4>2. \E op : Send(op, backups, "run") /\ op \notin Creations
        BY <2>2, <4>1 DEF SyncedStep
      <4>3. PICK op : Send(op, backups, "run") /\ op \notin Creations
        BY <4>2
      <4>4. \A p \in posts' : p \in posts \/ p.op = op
        BY <4>3 DEF Send, Proceed
      <4> QED BY <2>1, <4>3, <4>4 DEF Waiting
    <3> QED BY <2>1, <3>1, <3>2
  <2>3. CASE QuietStep /\ UNCHANGED replication
    <3>1. \/ pc[FirstRun] \notin {"idle", "start", "persist"}
          \/ pc'[FirstRun] \in {"idle", "start", "persist"}
          \/ unsent = {}
      BY <2>3 DEF QuietStep, MarkRunning, PersistBlock, AssignLocal, Reassign, SendWork,
                  SendConfirmed, SendFailed, EndAssign, FailLocal, FinishLocal, EndLocal,
                  PollDone, PollTimedOut, EndReclaim, Assemble, AssembleFails, Announce
    <3> QED BY <2>1, <2>3, <3>1 DEF Waiting, replication
  <2> QED BY <1>5, <2>2, <2>3 DEF ReplicatingRun
<1>6. ASSUME NEW p \in posts, Attempt(p) PROVE CreationsFirst'
    BY <1>6, AttemptAwaits DEF Waiting, vars
<1>7. ASSUME NEW m \in results, HandleResult(m) PROVE CreationsFirst'
  <2>1. pc' = pc /\ unsent' = unsent
    BY <1>7 DEF HandleResult, DeliverResult
  <2>2. \A p \in posts' : p \in posts \/ p.by = "handler"
    BY <1>7 DEF HandleResult, Send, Proceed
  <2> QED BY <2>1, <2>2 DEF Waiting
<1>8. CASE CrashStep
    BY <1>8 DEF CrashStep, Crash, Active, Waiting
<1> QED
    BY <1>2, <1>3, <1>4, <1>5, <1>6, <1>7, <1>8
       DEF RNext, WorkerStep, ResultStep, TimeStep, LateArrives, NodeFinish, BrowserFinish,
           WorkerLoses, LoseResult, LeaseExpires, replication, vars, allVars

(* A backup keeps what it has or will be sent in a step that neither hands  *)
(* work out nor ends the job.                                               *)
LEMMA CopiedKept ==
    ASSUME RTypeOK, [RNext]_allVars, NEW n \in Backups, Copied(n),
           unsent' = unsent, posts \subseteq posts', held' \subseteq held,
           pc'[FirstRun] = "sync" => pc[FirstRun] = "sync" /\ doing' = doing,
           pc'[FirstRun] \in {"announce", "ended"} /\ job'.status = "complete" =>
               pc[FirstRun] \in {"announce", "ended"} /\ job.status = "complete"
    PROVE  Copied(n)'
<1>1. \A op : Awaits(n, op) => Awaits(n, op)'
    BY DEF Awaits
<1>2. held \subseteq Task /\ doing[FirstRun] \subseteq Task
    BY RunsAssumption DEF RTypeOK, TypeOK
<1> QED BY <1>1, <1>2, CopiesKept DEF Copied, Task

LEMMA CopiedCreation ==
    ASSUME RTypeOK, [RNext]_allVars, NEW op \in unsent, SyncCreation(op),
           NEW n \in backups \ skipped, Copied(n)
    PROVE  Copied(n)'
<1>1. posts \subseteq posts' /\ Awaits(n, op)'
    BY SentIsAwaited DEF SyncCreation
<1>2. /\ unsent' = unsent \ {op} /\ n \in Backups
      /\ UNCHANGED <<pc, held, doing, job>>
    BY DEF SyncCreation, vars, database, network, RTypeOK
<1>3. \A o : Awaits(n, o) => Awaits(n, o)'
    BY <1>1 DEF Awaits
<1>4. held \subseteq Task /\ doing[FirstRun] \subseteq Task
    BY RunsAssumption DEF RTypeOK, TypeOK
<1> QED BY <1>1, <1>2, <1>3, <1>4, CopiesKept DEF Copied, Task

LEMMA CopiedAttempt ==
    ASSUME RTypeOK, [RNext]_allVars, NEW p \in posts, Attempt(p), CreationsFirst,
           pc[FirstRun] # "down", NEW n \in backups' \ skipped', Copied(n)
    PROVE  Copied(n)'
<1>1. /\ UNCHANGED <<pc, held, doing, job, unsent>> /\ n \in Backups
      /\ \A op \in Op : Awaits(n, op) => Awaits(n, op)' \/ replica'[n] = Apply(replica[n], op)
    BY AttemptAwaits DEF vars, database, network, RTypeOK
<1>2. /\ replica[n] \in Replica
      /\ held \subseteq Task /\ doing[FirstRun] \subseteq Task
    BY <1>1, RunsAssumption DEF RTypeOK, TypeOK
<1>3. pc[FirstRun] \notin {"idle", "start", "persist"} =>
          HasJob(n) /\ \A b \in Blocks : HasBlock(n, b)
    BY DEF CreationsFirst, Copied, Awaits, Creations
<1>4. CreateJobOp \in unsent \/ Awaits(n, CreateJobOp)' \/ HasJob(n)'
    BY <1>1, <1>2, OpTypes, ApplyMakes, CopiesKept DEF Copied, HasJob
<1>5. ASSUME NEW b \in Blocks
      PROVE  CreateBlockOp(b) \in unsent \/ Awaits(n, CreateBlockOp(b))' \/ HasBlock(n, b)'
    BY <1>1, <1>2, OpTypes, ApplyMakes, CopiesKept DEF Copied, HasBlock
<1>6. ASSUME NEW t \in held PROVE HasLease(n, t.block)'
    BY <1>1, <1>2, CopiesKept DEF Copied, Task
<1>7. ASSUME pc[FirstRun] = "sync", NEW t \in doing[FirstRun]
      PROVE  Awaits(n, AssignOp(t.block, t.worker))' \/ HasLease(n, t.block)'
  <2>1. t.block \in Blocks /\ t.worker \in Members
    BY <1>2 DEF Task
  <2>2. CASE HasLease(n, t.block)
    BY <1>1, <2>1, <2>2, CopiesKept
  <2>3. CASE Awaits(n, AssignOp(t.block, t.worker))
    BY <1>1, <1>2, <1>3, <1>7, <2>1, <2>3, OpTypes, ApplyMakes DEF HasBlock, HasLease
  <2> QED BY <1>7, <2>2, <2>3 DEF Copied
<1>8. ASSUME pc[FirstRun] \in {"announce", "ended"}, job.status = "complete"
      PROVE  Awaits(n, StatusOp)' \/ HasEnd(n)'
  <2>1. CASE HasEnd(n)
    BY <1>1, <2>1, CopiesKept
  <2>2. CASE Awaits(n, StatusOp)
    BY <1>1, <1>2, <1>3, <1>8, <2>2, OpTypes, ApplyMakes DEF HasJob, HasEnd
  <2> QED BY <1>8, <2>1, <2>2 DEF Copied
<1> QED BY <1>1, <1>4, <1>5, <1>6, <1>7, <1>8 DEF Copied
LEMMA CopiedRun ==
    ASSUME RTypeOK, [RNext]_allVars, ReplicatingRun, Outcome, NEW n \in backups \ skipped,
           Copied(n)
    PROVE  Copied(n)'
<1>1. /\ pc \in [Runs -> Stage] /\ doing \in [Runs -> SUBSET Task] /\ FirstRun \in Runs
      /\ held \subseteq Task /\ n \in Backups /\ job.status \in JobStatus
    BY RunsAssumption DEF RTypeOK, TypeOK
<1>2. ~Waiting /\ unsent' = unsent
    BY DEF ReplicatingRun, replication
<1> USE <1>1, <1>2 DEF Goto
<1>3. ASSUME NEW b \in Blocks, NEW w \in Members, AssignRemote(FirstRun, b, w),
             Send(AssignOp(b, w), backups, "run")
      PROVE  Copied(n)'
  <2>1. posts \subseteq posts' /\ Awaits(n, AssignOp(b, w))'
    BY <1>3, SentIsAwaited
  <2>2. /\ pc'[FirstRun] = "sync" /\ held' = held
        /\ \A t \in doing'[FirstRun] : t.block = b /\ t.worker = w
    BY <1>3 DEF AssignRemote, network
  <2>3. \A op : Awaits(n, op) => Awaits(n, op)'
    BY <2>1 DEF Awaits
  <2> QED BY <2>1, <2>2, <2>3, CopiesKept DEF Copied, Task
<1>4. ASSUME MarkComplete(FirstRun), Send(StatusOp, backups, "run") PROVE Copied(n)'
  <2>1. posts \subseteq posts' /\ Awaits(n, StatusOp)'
    BY <1>4, SentIsAwaited
  <2>2. pc'[FirstRun] = "announce" /\ held' = held
    BY <1>4 DEF MarkComplete, network
  <2>3. \A op : Awaits(n, op) => Awaits(n, op)'
    BY <2>1 DEF Awaits
  <2> QED BY <2>1, <2>2, <2>3, CopiesKept DEF Copied, Task
<1>5. ASSUME SendWork(FirstRun), posts' = posts PROVE Copied(n)'
  <2>1. /\ pc[FirstRun] = "sync" /\ pc'[FirstRun] \in {"accepted", "lost"}
        /\ held' \subseteq held \cup doing[FirstRun]
    BY <1>5 DEF SendWork
  <2>2. /\ \A op : Awaits(n, op) => Awaits(n, op)'
        /\ \A op : ~Awaits(n, op)
    BY <1>5 DEF Awaits, Waiting
  <2> QED BY <2>1, <2>2, CopiesKept DEF Copied, Task
<1>6. ASSUME AssembleFails(FirstRun) \/ Announce(FirstRun), posts' = posts PROVE Copied(n)'
  <2>1. /\ held' = held /\ pc'[FirstRun] = "ended"
        /\ \/ pc[FirstRun] = "announce" /\ job' = job
           \/ pc[FirstRun] = "assemble" /\ job'.status \in {job.status, "failed"}
    BY <1>6 DEF AssembleFails, Announce, SetStatus, UpdateJobStatus, database, network, RTypeOK,
                TypeOK
  <2> QED BY <1>6, <2>1, CopiedKept DEF Outcome
<1>7. ASSUME held' = held, posts \subseteq posts',
             pc'[FirstRun] \notin {"sync", "announce", "ended"}
      PROVE  Copied(n)'
    BY <1>7, CopiedKept
<1>8. CASE SyncedStep
  <2>1. ASSUME NEW b \in Blocks, Reclaim(FirstRun, b), Send(FailOp(b), backups, "run")
        PROVE  Copied(n)'
    BY <1>7, <2>1, SentIsAwaited DEF Reclaim, network
  <2>2. ASSUME FinishLocal(FirstRun), NEW op, Send(op, backups, "run") PROVE Copied(n)'
    BY <1>7, <2>2, SentIsAwaited DEF FinishLocal, EndLocal, network
  <2> QED BY <1>3, <1>4, <1>8, <2>1, <2>2 DEF SyncedStep
<1>9. CASE QuietStep /\ UNCHANGED replication
  <2>1. posts' = posts
    BY <1>9 DEF replication
  <2>2. CASE SendWork(FirstRun) \/ AssembleFails(FirstRun) \/ Announce(FirstRun)
    BY <1>5, <1>6, <2>1, <2>2
  <2>3. CASE ~(SendWork(FirstRun) \/ AssembleFails(FirstRun) \/ Announce(FirstRun))
    <3>1. held' = held /\ pc'[FirstRun] \notin {"sync", "announce", "ended"}
      BY <1>9, <2>3 DEF QuietStep, MarkRunning, PersistBlock, BeginRun, AssignLocal, Reassign,
                  TakeLocal, SendConfirmed, SendFailed, EndAssign, FailLocal, FinishLocal,
                  EndLocal, PollDone, PollTimedOut, EndReclaim, Assemble, network
    <3> QED BY <1>7, <2>1, <3>1
  <2> QED BY <2>2, <2>3
<1> QED BY <1>8, <1>9 DEF ReplicatingRun

LEMMA CopyStep ==
    RTypeOK /\ Outcome /\ CopyInv /\ [RNext]_allVars => CopyInv'
<1> SUFFICES ASSUME RTypeOK, Outcome, CopyInv, [RNext]_allVars, pc'[FirstRun] # "down",
                    NEW n \in backups' \ skipped'
             PROVE  Copied(n)'
    BY CreationsStep DEF CopyInv, AllCopied
<1>1. pc[FirstRun] # "down"
    BY RunDown
<1>2. /\ pc \in [Runs -> Stage] /\ FirstRun \in Runs /\ Runs = {FirstRun}
      /\ backups \subseteq Backups
    BY RunsAssumption, ReplicationAssumption DEF RTypeOK, TypeOK
<1>3. ASSUME n \in backups \ skipped, unsent' = unsent, posts \subseteq posts',
             held' \subseteq held, doing' = doing, job' = job, pc' = pc
      PROVE  Copied(n)'
    BY <1>1, <1>2, <1>3, CopiedKept DEF CopyInv, AllCopied
<1>4. CASE UNCHANGED allVars
    BY <1>3, <1>4 DEF allVars, vars, database, network, replication
<1>5. CASE CreateJob(FirstRun) /\ UNCHANGED replication
  <2>1. /\ n \in backups \ skipped /\ unsent' = unsent /\ posts' = posts /\ held' = held
        /\ pc'[FirstRun] = "start"
    BY <1>2, <1>5 DEF CreateJob, Goto, replication, network
  <2> QED BY <1>1, <1>2, <2>1, CopiedKept DEF CopyInv, AllCopied
<1>6. ASSUME NEW op \in unsent, SyncCreation(op) PROVE Copied(n)'
  <2>1. n \in backups \ skipped
    BY <1>6 DEF SyncCreation
  <2> QED BY <1>1, <1>6, <2>1, CopiedCreation DEF CopyInv, AllCopied
<1>7. CASE ReplicatingRun
  <2>1. n \in backups \ skipped
    BY <1>7 DEF ReplicatingRun, replication
  <2> QED BY <1>1, <1>7, <2>1, CopiedRun DEF CopyInv, AllCopied
<1>8. ASSUME NEW p \in posts, Attempt(p) PROVE Copied(n)'
  <2>1. n \in backups \ skipped
    BY <1>8, AttemptAwaits
  <2> QED BY <1>1, <1>8, <2>1, CopiedAttempt DEF CopyInv, AllCopied
<1>9. ASSUME NEW q \in late, LateArrives(q) PROVE Copied(n)'
    BY <1>3, <1>9 DEF LateArrives, vars, database, network
<1>10. CASE WorkerStep \/ TimeStep
    BY <1>3, <1>10 DEF WorkerStep, TimeStep, NodeFinish, BrowserFinish, WorkerLoses,
                       LeaseExpires, database, network, replication
<1>11. ASSUME NEW m \in results, HandleResult(m) PROVE Copied(n)'
  <2>1. posts \subseteq posts'
    BY <1>11 DEF HandleResult, Send, Proceed
  <2> QED BY <1>3, <1>11, <2>1 DEF HandleResult, DeliverResult
<1>12. CASE (\E m \in results : LoseResult(m)) /\ UNCHANGED replication
    BY <1>3, <1>12 DEF LoseResult, database, replication
<1>13. CASE CrashStep
    BY <1>2, <1>13 DEF CrashStep, Crash, Active, CopyInv, AllCopied, CreationsFirst
<1> QED
    BY <1>4, <1>5, <1>6, <1>7, <1>8, <1>9, <1>10, <1>11, <1>12, <1>13 DEF RNext, ResultStep

\* A backup the run still lists, and has sent every write to, has the job, all
\* blocks, a lease for each block at work elsewhere and, at the end, the
\* completion: what _sync_to_backups means by removing unreachable backups.
THEOREM ListedBackupsAreCurrent == RSpec => []ListedIsCurrent
<1>1. RInit => CopyInv
    BY RunsAssumption
       DEF RInit, Init, CopyInv, CreationsFirst, AllCopied, Copied, Creations
<1>2. RSpec => []Outcome
    BY LoneAlways, CoordinatorIsImplemented, PTL DEF ImplementsCoordinator, OutcomeInv
<1>3. CopyInv => ListedIsCurrent
    BY DEF CopyInv, CreationsFirst, AllCopied, Copied, Awaits, Waiting, ListedIsCurrent,
           HasJob, HasBlock, HasLease, HasEnd, Creations
<1>4. RSpec => []CopyInv
    BY <1>1, <1>2, CopyStep, ReplicasAreTyped, PTL DEF RSpec
<1> QED BY <1>3, <1>4, PTL
=============================================================================
