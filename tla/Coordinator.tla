---------------------------- MODULE Coordinator ----------------------------
(***************************************************************************)
(* The life of one job over one database file: coordinator.py's pipeline   *)
(* (submit_job / resume_job, then _run_job: assign, monitor, assemble),    *)
(* the workers that compute its blocks (server.py, worker.py, worker.js)   *)
(* and the network between them.                                           *)
(*                                                                         *)
(* A run is one execution of _run_job.  The first run is started by        *)
(* submit_job; every other run by resume_job, in a node process that won   *)
(* an election.  Several processes reach one database file when they are   *)
(* started in one directory (config.py's DB_PATH), as the README's local   *)
(* test does.  A run stops at each database commit, because a crash may    *)
(* fall after it and another process may act there, and at each await that *)
(* suspends (an HTTP post, a WebSocket send, the executor, sleep).         *)
(*                                                                         *)
(* The lists of blocks a run walks are sets: SELECT has no ORDER BY, and   *)
(* which worker the round-robin gives a block is left open.                *)
(***************************************************************************)
EXTENDS Storage

CONSTANTS
    Runs,       \* executions of the pipeline
    FirstRun,   \* the one submit_job starts
    HostOf,     \* the node each run executes in
    WorkersOf,  \* the other members a run found when it started
    Mirrors,    \* backups of the job whose database is this very file
    Informed,   \* members whose node holds a row of the job
    Flaky,      \* blocks whose multiplication may raise
    Crashable,  \* nodes that may crash
    MaxAttempt  \* bound: a lease at this attempt is never timed out or echoed

ASSUME RunsAssumption ==
    /\ FirstRun \in Runs
    /\ HostOf \in [Runs -> Nodes]
    /\ WorkersOf \in [Runs -> SUBSET Members]
    /\ \A r \in Runs : HostOf[r] \notin WorkersOf[r]
ASSUME EnvironmentAssumption ==
    /\ Mirrors \subseteq Nodes
    /\ Informed \subseteq Members
    /\ Flaky \subseteq Blocks
    /\ Crashable \subseteq Nodes
    /\ MaxAttempt \in Nat

VARIABLES
    job,        \* its row of the jobs table
    blk,        \* its rows of the blocks table
    answer,     \* its row of the results table: who computed each block of it
    pc,         \* where each run is
    todo,       \* blocks the run's current loop has still to visit
    spare,      \* self_blocks, or the block the monitor takes for itself
    doing,      \* the assignment a run is sending or computing, if any
    computing,  \* _local_computing of each node process
    held,       \* assignments being computed by workers
    results     \* block results on their way to the coordinator

database == <<job, blk, answer>>
network  == <<held, results>>
vars     == <<database, pc, todo, spare, doing, computing, network>>

-----------------------------------------------------------------------------
(* An assignment carries the lease token assign_block returned.             *)
Task == [block: Blocks, worker: Members, attempt: Nat]

\* A failure report has no attempt_id, and [] for the partial product.
Result == [task: Task, failed: BOOLEAN]
AttemptIn(m) == IF m.failed THEN NoAttempt ELSE m.task.attempt
PartialIn(m) == IF m.failed THEN Empty ELSE m.task.worker

Stage == {"idle", "start", "persist", "assign", "sync", "accepted", "lost",
          "compute", "monitor", "reclaim", "syncFail", "recompute",
          "assemble", "mark", "announce", "ended", "down"}

Init ==
    /\ job = [status |-> "absent", coordinator_id |-> Null]
    /\ blk = [b \in Blocks |-> AbsentRow]
    /\ answer = [b \in {} |-> Null]
    /\ pc = [r \in Runs |-> "idle"]
    /\ todo = [r \in Runs |-> {}]
    /\ spare = [r \in Runs |-> {}]
    /\ doing = [r \in Runs |-> {}]
    /\ computing = [n \in Nodes |-> {}]
    /\ held = {}
    /\ results = {}

Goto(r, stage) == pc' = [pc EXCEPT ![r] = stage]

\* _assign_all_blocks starts over a list; without workers every block is the
\* coordinator's own.
Enqueue(r, list) ==
    /\ todo'  = [todo  EXCEPT ![r] = IF WorkersOf[r] = {} THEN {} ELSE list]
    /\ spare' = [spare EXCEPT ![r] = IF WorkersOf[r] = {} THEN list ELSE {}]

SetStatus(new) == job' = [job EXCEPT !.status = UpdateJobStatus(job.status, new)]

-----------------------------------------------------------------------------
(* submit_job: one commit at a time.                                        *)

CreateJob(r) ==
    /\ r = FirstRun /\ pc[r] = "idle"
    /\ job' = [status |-> "pending", coordinator_id |-> HostOf[r]]
    /\ Goto(r, "start")
    /\ UNCHANGED <<blk, answer, todo, spare, doing, computing, network>>

MarkRunning(r) ==
    /\ pc[r] = "start"
    /\ SetStatus("running")
    /\ todo' = [todo EXCEPT ![r] = Blocks]
    /\ Goto(r, "persist")
    /\ UNCHANGED <<blk, answer, spare, doing, computing, network>>

PersistBlock(r, b) ==
    /\ pc[r] = "persist" /\ b \in todo[r]
    /\ blk' = [blk EXCEPT ![b] = CreateBlock(@)]
    /\ todo' = [todo EXCEPT ![r] = @ \ {b}]
    /\ UNCHANGED <<job, answer, pc, spare, doing, computing, network>>

\* The create_job and create_block messages to the backups change nothing where
\* the backup's file is this one.
BeginRun(r) ==
    /\ pc[r] = "persist" /\ todo[r] = {}
    /\ Enqueue(r, Blocks)
    /\ Goto(r, "assign")
    /\ UNCHANGED <<database, doing, computing, network>>

-----------------------------------------------------------------------------
(* resume_job.                                                              *)

\* An election is started for a running job that has another coordinator, and
\* may be won after the job's status or coordinator changed (several elections
\* of one node may be under way).
MayResume(r) ==
    /\ job.status \in {"running", "failed"}
    /\ \/ job.coordinator_id # HostOf[r]
       \/ \E s \in Runs \ {FirstRun, r} : HostOf[s] = HostOf[r] /\ pc[s] # "idle"

\* Mutant: only timed-out blocks are taken over.
ResumeTimedOut(r) ==
    /\ r # FirstRun /\ pc[r] = "idle"
    /\ MayResume(r)
    /\ job' = [job EXCEPT !.coordinator_id = HostOf[r]]
    /\ blk' = [b \in Blocks |-> IF b \in TimedOutBlocks(blk) THEN FailBlock(blk[b])
                                                             ELSE blk[b]]
    /\ Enqueue(r, TimedOutBlocks(blk))
    /\ Goto(r, "assign")
    /\ UNCHANGED <<answer, doing, computing, network>>

Resume(r) ==
    /\ r # FirstRun /\ pc[r] = "idle"
    /\ MayResume(r)
    /\ job' = [job EXCEPT !.coordinator_id = HostOf[r]]
    /\ blk' = [b \in Blocks |-> IF b \in TimedOutBlocks(blk) THEN FailBlock(blk[b])
                                                             ELSE blk[b]]
    /\ Enqueue(r, PendingBlocks(blk) \cup TimedOutBlocks(blk))
    /\ Goto(r, "assign")
    /\ UNCHANGED <<answer, doing, computing, network>>

-----------------------------------------------------------------------------
(* _assign_all_blocks and _assign_block_to_node.  The "skip already-done    *)
(* blocks" test reads the list the run started with, which holds no done    *)
(* block: it never skips one.                                               *)

\* Mutant: assign_block returns the attempt it read.
AssignRemoteOldToken(r, b, w) ==
    /\ pc[r] = "assign" /\ b \in todo[r] /\ w \in WorkersOf[r]
    /\ blk' = [blk EXCEPT ![b] = AssignBlock(@, w)]
    /\ doing' = [doing EXCEPT ![r] =
           {[block |-> b, worker |-> w, attempt |-> blk[b].attempt_id]}]
    /\ todo' = [todo EXCEPT ![r] = @ \ {b}]
    /\ Goto(r, "sync")
    /\ UNCHANGED <<job, answer, spare, computing, network>>

AssignRemote(r, b, w) ==
    /\ pc[r] = "assign" /\ b \in todo[r] /\ w \in WorkersOf[r]
    /\ blk' = [blk EXCEPT ![b] = AssignBlock(@, w)]
    /\ doing' = [doing EXCEPT ![r] =
           {[block |-> b, worker |-> w, attempt |-> blk'[b].attempt_id]}]
    /\ todo' = [todo EXCEPT ![r] = @ \ {b}]
    /\ Goto(r, "sync")
    /\ UNCHANGED <<job, answer, spare, computing, network>>

\* A backup that shares the file applies the replicated assign_block to the
\* very row it replicates, once per delivery of the message.
EchoAssign(r) ==
    /\ pc[r] = "sync" /\ Mirrors # {}
    /\ \E t \in doing[r] :
           /\ blk[t.block].attempt_id < MaxAttempt
           /\ blk' = [blk EXCEPT ![t.block] = AssignBlock(@, t.worker)]
    /\ UNCHANGED <<job, answer, pc, todo, spare, doing, computing, network>>

\* The assignment reaches the worker, or not.
SendWork(r) ==
    /\ pc[r] = "sync"
    /\ \/ held' = held \cup doing[r] /\ Goto(r, "accepted")
       \/ held' = held /\ Goto(r, "lost")
    /\ UNCHANGED <<database, todo, spare, doing, computing, results>>

\* An HTTP response tells that the assignment arrived, and its absence (refused,
\* timed out, node gone) tells nothing; a WebSocket send tells only that the
\* socket took it, and an error that it did not.
SendConfirmed(r) ==
    /\ \/ pc[r] = "accepted"
       \/ pc[r] = "lost" /\ \E t \in doing[r] : t.worker \in Browsers
    /\ doing' = [doing EXCEPT ![r] = {}]
    /\ Goto(r, "assign")
    /\ UNCHANGED <<database, todo, spare, computing, network>>

\* Mutant: the block is reset but not kept for the coordinator.
SendFailedForgets(r) ==
    /\ pc[r] \in {"accepted", "lost"}
    /\ \E t \in doing[r] :
           /\ pc[r] = "lost" \/ t.worker \in Nodes
           /\ blk' = [blk EXCEPT ![t.block] = FailBlock(@)]
    /\ doing' = [doing EXCEPT ![r] = {}]
    /\ Goto(r, "assign")
    /\ UNCHANGED <<job, answer, todo, spare, computing, network>>

SendFailed(r) ==
    /\ pc[r] \in {"accepted", "lost"}
    /\ \E t \in doing[r] :
           /\ pc[r] = "lost" \/ t.worker \in Nodes
           /\ blk' = [blk EXCEPT ![t.block] = FailBlock(@)]
           /\ spare' = [spare EXCEPT ![r] = @ \cup {t.block}]
    /\ doing' = [doing EXCEPT ![r] = {}]
    /\ Goto(r, "assign")
    /\ UNCHANGED <<job, answer, todo, computing, network>>

\* The coordinator takes a block for itself: assign_block, then the executor.
TakeLocal(r, b, stage) ==
    /\ blk' = [blk EXCEPT ![b] = AssignBlock(@, HostOf[r])]
    /\ doing' = [doing EXCEPT ![r] =
           {[block |-> b, worker |-> HostOf[r], attempt |-> blk'[b].attempt_id]}]
    /\ computing' = [computing EXCEPT ![HostOf[r]] = @ \cup {b}]
    /\ spare' = [spare EXCEPT ![r] = @ \ {b}]
    /\ Goto(r, stage)
    /\ UNCHANGED <<job, answer, todo, network>>

AssignLocal(r, b) ==
    /\ pc[r] = "assign" /\ todo[r] = {} /\ b \in spare[r]
    /\ b \notin computing[HostOf[r]]
    /\ TakeLocal(r, b, "compute")

SkipLocal(r, b) ==
    /\ pc[r] = "assign" /\ todo[r] = {} /\ b \in spare[r]
    /\ b \in computing[HostOf[r]]
    /\ spare' = [spare EXCEPT ![r] = @ \ {b}]
    /\ UNCHANGED <<database, pc, todo, doing, computing, network>>

EndAssign(r) ==
    /\ pc[r] = "assign" /\ todo[r] = {} /\ spare[r] = {}
    /\ Goto(r, "monitor")
    /\ UNCHANGED <<database, todo, spare, doing, computing, network>>

\* A local computation ends; receive_result may find its lease outdated.
EndLocal(r, t) ==
    /\ pc[r] \in {"compute", "recompute"} /\ t \in doing[r]
    /\ doing' = [doing EXCEPT ![r] = {}]
    /\ computing' = [computing EXCEPT ![HostOf[r]] = @ \ {t.block}]
    /\ Goto(r, IF pc[r] = "compute" THEN "assign" ELSE "reclaim")
    /\ UNCHANGED <<job, answer, todo, spare, network>>

FinishLocal(r) ==
    \E t \in doing[r] :
        /\ EndLocal(r, t)
        /\ blk' = [blk EXCEPT ![t.block] = CompleteBlock(@, t.attempt, t.worker)]

FailLocal(r) ==
    \E t \in doing[r] :
        /\ t.block \in Flaky
        /\ EndLocal(r, t)
        /\ blk' = [blk EXCEPT ![t.block] = FailBlock(@)]

-----------------------------------------------------------------------------
(* _monitor_until_done.                                                     *)

\* Mutants: one block short; the rows that exist instead of total_blocks.
PollDoneShort(r) ==
    /\ pc[r] = "monitor"
    /\ Cardinality(DoneBlocks(blk)) >= Cardinality(Blocks) - 1
    /\ Goto(r, "assemble")
    /\ UNCHANGED <<database, todo, spare, doing, computing, network>>

PollDoneRows(r) ==
    /\ pc[r] = "monitor"
    /\ AllBlocksDone(blk)
    /\ Goto(r, "assemble")
    /\ UNCHANGED <<database, todo, spare, doing, computing, network>>

\* count_done_blocks reaches total_blocks.
PollDone(r) ==
    /\ pc[r] = "monitor"
    /\ Cardinality(DoneBlocks(blk)) >= Cardinality(Blocks)
    /\ Goto(r, "assemble")
    /\ UNCHANGED <<database, todo, spare, doing, computing, network>>

\* A poll that finds no timed-out block sleeps and changes nothing.
PollTimedOut(r) ==
    /\ pc[r] = "monitor"
    /\ Cardinality(DoneBlocks(blk)) < Cardinality(Blocks)
    /\ TimedOutBlocks(blk) # {}
    /\ todo' = [todo EXCEPT ![r] = TimedOutBlocks(blk)]
    /\ Goto(r, "reclaim")
    /\ UNCHANGED <<database, spare, doing, computing, network>>

Reclaim(r, b) ==
    /\ pc[r] = "reclaim" /\ b \in todo[r]
    /\ b \notin computing[HostOf[r]]
    /\ blk' = [blk EXCEPT ![b] = FailBlock(@)]
    /\ todo' = [todo EXCEPT ![r] = @ \ {b}]
    /\ spare' = [spare EXCEPT ![r] = {b}]
    /\ Goto(r, "syncFail")
    /\ UNCHANGED <<job, answer, doing, computing, network>>

SkipReclaim(r, b) ==
    /\ pc[r] = "reclaim" /\ b \in todo[r]
    /\ b \in computing[HostOf[r]]
    /\ todo' = [todo EXCEPT ![r] = @ \ {b}]
    /\ UNCHANGED <<database, pc, spare, doing, computing, network>>

EchoFail(r) ==
    /\ pc[r] = "syncFail" /\ Mirrors # {}
    /\ \E b \in spare[r] : blk' = [blk EXCEPT ![b] = FailBlock(@)]
    /\ UNCHANGED <<job, answer, pc, todo, spare, doing, computing, network>>

Reassign(r, b) ==
    /\ pc[r] = "syncFail" /\ b \in spare[r]
    /\ TakeLocal(r, b, "recompute")

EndReclaim(r) ==
    /\ pc[r] = "reclaim" /\ todo[r] = {}
    /\ Goto(r, "monitor")
    /\ UNCHANGED <<database, todo, spare, doing, computing, network>>

-----------------------------------------------------------------------------
(* _assemble_and_store.                                                     *)

Assembled(rows) == {b \in Blocks : rows[b].status # "absent"}
\* Mutant: only a missing partial_result is noticed, not an empty one.
WholeIfPresent(rows) == \A b \in Assembled(rows) : rows[b].partial # Null

Whole(rows) == \A b \in Assembled(rows) : rows[b].partial \notin {Null, Empty}

\* Mutant: the status is written before the result.
AssembleStatusFirst(r) ==
    /\ pc[r] = "assemble"
    /\ AllBlocksDone(blk) /\ Whole(blk)
    /\ SetStatus("complete")
    /\ Goto(r, "mark")
    /\ UNCHANGED <<blk, answer, todo, spare, doing, computing, network>>

Assemble(r) ==
    /\ pc[r] = "assemble"
    /\ AllBlocksDone(blk) /\ Whole(blk)
    /\ answer' = [b \in Assembled(blk) |-> blk[b].partial]
    /\ Goto(r, "mark")
    /\ UNCHANGED <<job, blk, todo, spare, doing, computing, network>>

AssembleFails(r) ==
    /\ pc[r] = "assemble"
    /\ ~(AllBlocksDone(blk) /\ Whole(blk))
    /\ SetStatus("failed")
    /\ Goto(r, "ended")
    /\ UNCHANGED <<blk, answer, todo, spare, doing, computing, network>>

\* Whether the transition was allowed is not looked at.
MarkComplete(r) ==
    /\ pc[r] = "mark"
    /\ SetStatus("complete")
    /\ Goto(r, "announce")
    /\ UNCHANGED <<blk, answer, todo, spare, doing, computing, network>>

EchoComplete(r) ==
    /\ pc[r] = "announce" /\ Mirrors # {}
    /\ job' = [job EXCEPT !.status = SyncJobStatus(@, "complete")]
    /\ UNCHANGED <<blk, answer, pc, todo, spare, doing, computing, network>>

Announce(r) ==
    /\ pc[r] = "announce"
    /\ Goto(r, "ended")
    /\ UNCHANGED <<database, todo, spare, doing, computing, network>>

-----------------------------------------------------------------------------
(* Workers and the network.                                                 *)

\* _process_block ends: the product, or, of a multiplication that raised, a
\* failure report.  A node without a row of the job drops either
\* (_route_to_coordinator).
NodeFinish(t, failed) ==
    /\ t \in held /\ t.worker \in Nodes
    /\ failed => t.block \in Flaky
    /\ held' = held \ {t}
    /\ results' = IF t.worker \in Informed
                  THEN results \cup {[task |-> t, failed |-> failed]}
                  ELSE results
    /\ UNCHANGED <<database, pc, todo, spare, doing, computing>>

\* worker.js ends and the page's socket is open; the node at its other end routes
\* the result.
BrowserFinish(t) ==
    /\ t \in held /\ t.worker \in Browsers
    /\ held' = held \ {t}
    /\ results' = IF t.worker \in Informed
                  THEN results \cup {[task |-> t, failed |-> FALSE]}
                  ELSE results
    /\ UNCHANGED <<database, pc, todo, spare, doing, computing>>

\* The worker dies, or the page's socket is closed when it has the product.
WorkerLoses(t) ==
    /\ t \in held
    /\ held' = held \ {t}
    /\ UNCHANGED <<database, pc, todo, spare, doing, computing, results>>

\* receive_result.  Its complete_block message to a backup that shares the file
\* is the same call on the same row again.
DeliverResult(m) ==
    /\ m \in results
    /\ blk' = [blk EXCEPT ![m.task.block] =
                   CompleteBlock(@, AttemptIn(m), PartialIn(m))]
    /\ \/ results' = results \ {m}
       \/ Mirrors # {} /\ results' = results
    /\ UNCHANGED <<job, answer, pc, todo, spare, doing, computing, held>>

LoseResult(m) ==
    /\ m \in results
    /\ results' = results \ {m}
    /\ UNCHANGED <<database, pc, todo, spare, doing, computing, held>>

-----------------------------------------------------------------------------
(* Time and crashes.                                                        *)

\* BLOCK_TIMEOUT passes for a lease; MaxAttempt bounds how often.
LeaseExpires(b) ==
    /\ blk[b].status = "assigned" /\ blk[b].assigned_at = "recent"
    /\ blk[b].attempt_id < MaxAttempt
    /\ blk' = [blk EXCEPT ![b].assigned_at = "overdue"]
    /\ UNCHANGED <<job, answer, pc, todo, spare, doing, computing, network>>

Active(r) == pc[r] \notin {"idle", "ended", "down"}

\* A node process dies with its runs and computations; the file stays.
Crash(n) ==
    /\ n \in Crashable
    /\ \E r \in Runs : HostOf[r] = n /\ Active(r)
    /\ pc' = [r \in Runs |-> IF HostOf[r] = n /\ Active(r) THEN "down" ELSE pc[r]]
    /\ todo'  = [r \in Runs |-> IF HostOf[r] = n THEN {} ELSE todo[r]]
    /\ spare' = [r \in Runs |-> IF HostOf[r] = n THEN {} ELSE spare[r]]
    /\ doing' = [r \in Runs |-> IF HostOf[r] = n THEN {} ELSE doing[r]]
    /\ computing' = [computing EXCEPT ![n] = {}]
    /\ held' = {t \in held : t.worker # n}
    /\ UNCHANGED <<database, results>>

-----------------------------------------------------------------------------
SubmitStep(r) ==
    \/ CreateJob(r) \/ MarkRunning(r) \/ BeginRun(r)
    \/ \E b \in Blocks : PersistBlock(r, b)

AssignStep(r) ==
    \/ \E b \in Blocks : \/ \E w \in Members : AssignRemote(r, b, w)
                         \/ AssignLocal(r, b) \/ SkipLocal(r, b)
    \/ EchoAssign(r) \/ SendWork(r) \/ SendConfirmed(r) \/ SendFailed(r)
    \/ FinishLocal(r) \/ FailLocal(r) \/ EndAssign(r)

MonitorStep(r) ==
    \/ PollDone(r) \/ PollTimedOut(r) \/ EchoFail(r) \/ EndReclaim(r)
    \/ \E b \in Blocks : Reclaim(r, b) \/ SkipReclaim(r, b) \/ Reassign(r, b)

AssembleStep(r) ==
    \/ Assemble(r) \/ AssembleFails(r)
    \/ MarkComplete(r) \/ EchoComplete(r) \/ Announce(r)

RunStep(r) ==
    SubmitStep(r) \/ Resume(r) \/ AssignStep(r) \/ MonitorStep(r) \/ AssembleStep(r)

Environment ==
    \/ \E t \in held : \/ \E f \in BOOLEAN : NodeFinish(t, f)
                      \/ BrowserFinish(t) \/ WorkerLoses(t)
    \/ \E m \in results : DeliverResult(m) \/ LoseResult(m)
    \/ \E b \in Blocks : LeaseExpires(b)
    \/ \E n \in Nodes : Crash(n)

Next == (\E r \in Runs : RunStep(r)) \/ Environment

Spec == Init /\ [][Next]_vars

\* A run that can take a step takes one: the event loop runs it, an HTTP post
\* ends within the session's ten seconds, a multiplication ends, and an election
\* that is due is won.  Time passes.  Workers and the network owe nothing.
FairRun(r) == MarkRunning(r) \/ BeginRun(r) \/ (\E b \in Blocks : PersistBlock(r, b))
                  \/ Resume(r) \/ AssignStep(r) \/ MonitorStep(r) \/ AssembleStep(r)

FairSpec == Spec /\ \A r \in Runs : WF_vars(FairRun(r))
                 /\ \A b \in Blocks : WF_vars(LeaseExpires(b))

-----------------------------------------------------------------------------
(* Properties.                                                              *)

\* The tables and the runs' local variables hold values of their columns' and
\* variables' types.
TypeOK ==
    /\ job \in [status: JobStatus, coordinator_id: Nodes \cup {Null}]
    /\ blk \in [Blocks -> BlockRow]
    /\ DOMAIN answer \subseteq Blocks
    /\ pc \in [Runs -> Stage]
    /\ todo \in [Runs -> SUBSET Blocks]
    /\ spare \in [Runs -> SUBSET Blocks]
    /\ doing \in [Runs -> SUBSET Task]
    /\ computing \in [Nodes -> SUBSET Blocks]
    /\ held \subseteq Task
    /\ results \subseteq Result

\* Every execution under way of an assignment somebody holds.
Executions == held \cup {m.task : m \in results} \cup UNION {doing[r] : r \in Runs}

\* "Returns the new attempt_id (used as a lease token)" (assign_block): one lease
\* token of a block is never held by two members, nor for two runs, however
\* reassignments, takeovers and lost responses overlap.
LeaseUnique ==
    /\ \A t, u \in Executions : t.block = u.block /\ t.attempt = u.attempt => t = u
    /\ \A r, s \in Runs : r # s => doing[r] \cap doing[s] = {}

AnswerStored == DOMAIN answer # {}

\* A stored result is never a truncated or partly failed matrix: it has every
\* block of the partition, each computed by some member (_assemble_and_store's
\* checks, total_blocks in _monitor_until_done, commits of submit_job cut short).
AnswerIsWhole ==
    AnswerStored => DOMAIN answer = Blocks /\ \A b \in Blocks : answer[b] \in Members

\* A job that the database shows COMPLETE has its result in the database, also
\* when the coordinator dies between the two commits (lines 340-341).
CompleteIsStored == job.status = "complete" => AnswerStored

\* The worker_id a done block shows is the member that computed the product kept
\* in it: a late result of an earlier lease never replaces or claims the work of
\* the current one.
Attribution ==
    \A b \in Blocks :
        blk[b].status = "done" /\ blk[b].worker_id # Null /\ blk[b].partial # Empty
            => blk[b].partial = blk[b].worker_id

\* "Update DB first (atomic: DB knows who owns this block)": while an assignment
\* is being sent, its row carries the very token that is sent.
DatabaseKnowsOwner ==
    \A r \in Runs : \A t \in doing[r] :
        pc[r] \in {"sync", "accepted", "lost"} => blk[t.block].attempt_id = t.attempt

\* When one run has assembled a job, job_complete names as contributors exactly
\* the members whose products are in the matrix (make_job_complete's wids).
ContributionsExact ==
    \A r \in Runs : pc[r] \in {"mark", "announce", "ended"} /\ AnswerStored
        => \A b \in Blocks : blk[b].worker_id = answer[b]

\* A job is only marked FAILED if the report of a multiplication that raised got
\* into one of its rows: nothing that workers, backups and the network lose, delay
\* or repeat fails the job of a run that coordinates it alone.
NoSpuriousFailure == job.status = "failed" => \E b \in Blocks : blk[b].partial = Empty

\* "If this coordinator dies, a new one picks up from exactly where it left off":
\* the job of a coordinator that died after the job was persisted completes.
TakeoverCompletes ==
    (pc[FirstRun] = "down" /\ job.status = "running"
         /\ (\A b \in Blocks : blk[b].status # "absent")
         /\ (\A r \in Runs \ {FirstRun} : pc[r] = "idle"))
    ~> job.status = "complete"

-----------------------------------------------------------------------------
(* The abstract job that the database shows.                                *)

Stored == {b \in Blocks : blk[b].partial \in Members}

Job == INSTANCE MatrixJob WITH
           status <- job.status, stored <- Stored, result <- AnswerStored

\* The runs implement the abstract job: products are never lost to a reopened
\* block, a late result, a crash or a second coordinator; the result has all of
\* them; COMPLETE comes after the result and is final.
ImplementsMatrixJob == Job!Spec
=============================================================================
