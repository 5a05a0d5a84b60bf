------------------------------ MODULE Storage ------------------------------
(***************************************************************************)
(* The tables of storage.py as values, and its methods as operators on     *)
(* them.  A method runs without a suspension point (its asyncio.Lock is    *)
(* never contended inside one process), so the modules that use these      *)
(* operators take one whole method call as one step.                       *)
(*                                                                         *)
(* One job is modelled: the jobs table is one row, the blocks table maps   *)
(* each block of the job to its row.  A partial product is represented by  *)
(* the member that computed it; what is computed is fixed by the block, so *)
(* two members' products of one block differ only in who contributed them. *)
(***************************************************************************)
EXTENDS Integers, FiniteSets

CONSTANTS
    Blocks,     \* row-blocks of the job (submit_job's partition)
    Nodes,      \* Python nodes
    Browsers,   \* browser workers, reached through a WebSocket
    Null,       \* SQL NULL
    Empty       \* the partial_C = [] of a worker's failure report

Members == Nodes \cup Browsers

ASSUME BlocksAssumption == IsFiniteSet(Blocks) /\ Blocks # {}
ASSUME MembersAssumption == Nodes \cap Browsers = {}
ASSUME NullAssumption == Null \notin Members /\ Empty \notin Members /\ Null # Empty

-----------------------------------------------------------------------------
(* The jobs table.                                                          *)

\* "absent" is the row that has not been inserted.
JobStatus == {"absent", "pending", "running", "complete", "failed"}

JobTransitions ==
    [s \in JobStatus |->
        CASE s = "absent"   -> {}
          [] s = "pending"  -> {"running", "failed"}
          [] s = "running"  -> {"complete", "failed"}
          [] s = "complete" -> {}
          [] s = "failed"   -> {"running"}]

\* update_job_status: the transition is refused, silently, unless it is allowed.
UpdateJobStatus(status, new) ==
    IF new \in JobTransitions[status] THEN new ELSE status

\* _sync_job_status: a replica's status is forced.
SyncJobStatus(status, new) == IF status = "absent" THEN status ELSE new

-----------------------------------------------------------------------------
(* The blocks table.                                                        *)

BlockStatus == {"absent", "pending", "assigned", "done", "failed"}

\* assigned_at as get_timed_out_blocks sees it: NULL, younger than
\* BLOCK_TIMEOUT, or older.
AssignedAt == {"null", "recent", "overdue"}

BlockRow ==
    [status: BlockStatus, attempt_id: Nat, worker_id: Members \cup {Null},
     assigned_at: AssignedAt, partial: Members \cup {Null, Empty}]

AbsentRow ==
    [status |-> "absent", attempt_id |-> 0, worker_id |-> Null,
     assigned_at |-> "null", partial |-> Null]

\* INSERT OR IGNORE.
CreateBlock(row) ==
    IF row.status = "absent" THEN [row EXCEPT !.status = "pending"] ELSE row

\* Mutant: the previous attempt's product is cleared.
AssignBlockFresh(row, worker) ==
    IF row.status = "absent" THEN row
    ELSE [row EXCEPT !.status = "assigned", !.worker_id = worker, !.assigned_at = "recent",
                     !.attempt_id = row.attempt_id + 1, !.partial = Null]

\* No status is checked: a "done" row is assigned again like any other, and its
\* partial_result stays in place.
AssignBlock(row, worker) ==
    IF row.status = "absent" THEN row
    ELSE [row EXCEPT !.status      = "assigned",
                     !.worker_id   = worker,
                     !.assigned_at = "recent",
                     !.attempt_id  = row.attempt_id + 1]

\* The attempt_id a message without one is given by dict.get.
NoAttempt == -1

\* Mutants: no stale-result protection; an earlier attempt passes.
AcceptsAny(row, attempt)     == row.status # "absent"
AcceptsEarlier(row, attempt) == row.status # "absent" /\ attempt <= row.attempt_id

\* The rows whose result complete_block does not reject.
Accepts(row, attempt) ==
    /\ row.status # "absent"
    /\ attempt < 0 \/ attempt = row.attempt_id

CompleteBlock(row, attempt, partial) ==
    IF Accepts(row, attempt) /\ row.status # "done"
    THEN [row EXCEPT !.status = "done", !.partial = partial]
    ELSE row

\* Mutant: the attempts are counted anew.
FailBlockReset(row) ==
    IF row.status \in {"assigned", "failed"}
    THEN [row EXCEPT !.status = "pending", !.worker_id = Null,
                     !.assigned_at = "null", !.attempt_id = 0]
    ELSE row

FailBlock(row) ==
    IF row.status \in {"assigned", "failed"}
    THEN [row EXCEPT !.status      = "pending",
                     !.worker_id   = Null,
                     !.assigned_at = "null"]
    ELSE row

PendingBlocks(rows)  == {b \in Blocks : rows[b].status = "pending"}

TimedOutBlocks(rows) ==
    {b \in Blocks : rows[b].status = "assigned" /\ rows[b].assigned_at = "overdue"}

DoneBlocks(rows) == {b \in Blocks : rows[b].status = "done"}

\* all_blocks_done compares with the rows that exist, not with total_blocks.
AllBlocksDone(rows) ==
    /\ \E b \in Blocks : rows[b].status # "absent"
    /\ \A b \in Blocks : rows[b].status \in {"absent", "done"}
=============================================================================
