----------------------------- MODULE SharedFile -----------------------------
(***************************************************************************)
(* Processes on one database file (the test on a single machine), each     *)
(* with a run of the same job: what an election with two winners leaves.   *)
(* The asyncio.Lock of a Storage serialises the methods of one process;    *)
(* SQLite serialises statements, and between the SELECT and the UPDATE of  *)
(* one method another process may write.  One block stands for the job's.  *)
(*                                                                         *)
(* Each run computes the block itself, as a run without workers does.      *)
(***************************************************************************)
EXTENDS Storage

CONSTANTS
    MaxAttempt  \* bound: a row with this attempt is not assigned again

ASSUME MaxAttemptAssumption == MaxAttempt \in Nat

\* The node of a process identifies it.
Procs == Nodes

VARIABLES
    row,      \* the block's row
    status,   \* the job's
    stored,   \* whether the result is in the results table
    pc,       \* where each run is, or which method's UPDATE it is about to do
    read,     \* the attempt_id a process's SELECT saw
    lease,    \* the attempt a run computes under
    outcome   \* the status a run is about to write

vars == <<row, status, stored, pc, read, lease, outcome>>

Goto(p, stage) == pc' = [pc EXCEPT ![p] = stage]

\* Both have read the block as pending.
Init ==
    /\ row = CreateBlock(AbsentRow)
    /\ status = "running"
    /\ stored = FALSE
    /\ pc = [p \in Procs |-> "assign"]
    /\ read = [p \in Procs |-> 0] /\ lease = [p \in Procs |-> 0]
    /\ outcome = [p \in Procs |-> "complete"]

-----------------------------------------------------------------------------
(* assign_block.                                                            *)

SelectAttempt(p) ==
    /\ pc[p] = "assign"
    /\ row.attempt_id < MaxAttempt
    /\ read' = [read EXCEPT ![p] = row.attempt_id]
    /\ Goto(p, "assigning")
    /\ UNCHANGED <<row, status, stored, lease, outcome>>

\* Mutant: the whole row is written, as an assignment finds it when it is new.
UpdateAttemptWhole(p) ==
    /\ pc[p] = "assigning"
    /\ row' = [CreateBlock(AbsentRow) EXCEPT
                   !.status = "assigned", !.worker_id = p,
                   !.assigned_at = "recent", !.attempt_id = read[p] + 1]
    /\ lease' = [lease EXCEPT ![p] = read[p] + 1]
    /\ Goto(p, "computing")
    /\ UNCHANGED <<status, stored, read, outcome>>

\* Mutant: the attempt is written, the worker with a statement of its own later.
UpdateAttemptOnly(p) ==
    /\ pc[p] = "assigning"
    /\ row' = [row EXCEPT !.status = "assigned", !.assigned_at = "recent",
                          !.attempt_id = read[p] + 1]
    /\ lease' = [lease EXCEPT ![p] = read[p] + 1]
    /\ Goto(p, "computing")
    /\ UNCHANGED <<status, stored, read, outcome>>

UpdateAttempt(p) ==
    /\ pc[p] = "assigning"
    /\ row' = [row EXCEPT !.status = "assigned", !.worker_id = p,
                          !.assigned_at = "recent", !.attempt_id = read[p] + 1]
    /\ lease' = [lease EXCEPT ![p] = read[p] + 1]
    /\ Goto(p, "computing")
    /\ UNCHANGED <<status, stored, read, outcome>>

-----------------------------------------------------------------------------
(* complete_block and fail_block.                                           *)

\* A stale result is rejected, and one of a done block ignored.
SelectLease(p) ==
    /\ pc[p] = "computing"
    /\ Goto(p, IF Accepts(row, lease[p]) /\ row.status # "done" THEN "completing" ELSE "poll")
    /\ UNCHANGED <<row, status, stored, read, lease, outcome>>

UpdateDone(p) ==
    /\ pc[p] = "completing"
    /\ row' = [row EXCEPT !.status = "done", !.partial = p]
    /\ Goto(p, "poll")
    /\ UNCHANGED <<status, stored, read, lease, outcome>>

\* The multiplication raises: fail_block is one statement.
ComputeFails(p) ==
    /\ pc[p] = "computing"
    /\ row' = FailBlock(row)
    /\ Goto(p, "poll")
    /\ UNCHANGED <<status, stored, read, lease, outcome>>

-----------------------------------------------------------------------------
(* _monitor_until_done.                                                     *)

LeaseExpires ==
    /\ row.status = "assigned" /\ row.assigned_at = "recent"
    /\ row' = [row EXCEPT !.assigned_at = "overdue"]
    /\ UNCHANGED <<status, stored, pc, read, lease, outcome>>

PollDone(p) ==
    /\ pc[p] = "poll" /\ row.status = "done"
    /\ Goto(p, "verify")
    /\ UNCHANGED <<row, status, stored, read, lease, outcome>>

PollTimedOut(p) ==
    /\ pc[p] = "poll" /\ row.status = "assigned" /\ row.assigned_at = "overdue"
    /\ Goto(p, "reclaim")
    /\ UNCHANGED <<row, status, stored, read, lease, outcome>>

Reclaim(p) ==
    /\ pc[p] = "reclaim"
    /\ row' = FailBlock(row)
    /\ Goto(p, "assign")
    /\ UNCHANGED <<status, stored, read, lease, outcome>>

-----------------------------------------------------------------------------
(* _assemble_and_store, and update_job_status.                              *)

\* all_blocks_done and get_all_blocks are two reads.
Verify(p) ==
    /\ pc[p] = "verify"
    /\ IF row.status = "done"
       THEN Goto(p, "collect") /\ UNCHANGED outcome
       ELSE Goto(p, "finish") /\ outcome' = [outcome EXCEPT ![p] = "failed"]
    /\ UNCHANGED <<row, status, stored, read, lease>>

Collect(p) ==
    /\ pc[p] = "collect"
    /\ IF row.partial # Null
       THEN Goto(p, "store") /\ UNCHANGED outcome
       ELSE Goto(p, "finish") /\ outcome' = [outcome EXCEPT ![p] = "failed"]
    /\ UNCHANGED <<row, status, stored, read, lease>>

Store(p) ==
    /\ pc[p] = "store"
    /\ stored' = TRUE
    /\ outcome' = [outcome EXCEPT ![p] = "complete"]
    /\ Goto(p, "finish")
    /\ UNCHANGED <<row, status, read, lease>>

SelectStatus(p) ==
    /\ pc[p] = "finish"
    /\ Goto(p, IF outcome[p] \in JobTransitions[status] THEN "finishing" ELSE "over")
    /\ UNCHANGED <<row, status, stored, read, lease, outcome>>

UpdateStatus(p) ==
    /\ pc[p] = "finishing"
    /\ status' = outcome[p]
    /\ Goto(p, "over")
    /\ UNCHANGED <<row, stored, read, lease, outcome>>

Next ==
    \/ LeaseExpires
    \/ \E p \in Procs :
          \/ SelectAttempt(p) \/ UpdateAttempt(p)
          \/ SelectLease(p) \/ UpdateDone(p) \/ ComputeFails(p)
          \/ PollDone(p) \/ PollTimedOut(p) \/ Reclaim(p)
          \/ Verify(p) \/ Collect(p) \/ Store(p)
          \/ SelectStatus(p) \/ UpdateStatus(p)

Spec == Init /\ [][Next]_vars

-----------------------------------------------------------------------------
(* Properties.                                                              *)

\* A product that is in the table stays there: an UPDATE computed from what an
\* earlier SELECT saw writes only the columns it names, so it undoes nothing
\* another process added in between.
ProductStays == [][row.partial # Null => row'.partial # Null]_vars

\* However writes interleave, an assigned row is in somebody's hands: the process
\* it names is computing it under the attempt the row has, and will be heard.
HolderIsAtWork ==
    row.status = "assigned" =>
        /\ row.worker_id \in Procs
        /\ lease[row.worker_id] = row.attempt_id
        /\ pc[row.worker_id] \in {"computing", "completing"}

\* storage.py:144, "Enforces state machine": COMPLETE is final.
CompleteIsFinal == [][status = "complete" => status' = "complete"]_vars
=============================================================================
