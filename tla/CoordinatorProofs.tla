------------------------- MODULE CoordinatorProofs -------------------------
(***************************************************************************)
(* Coordinator's safety for any number of blocks, members, runs and        *)
(* faults: types; the ways a row may change; a lease token names one       *)
(* execution of one block, and from it Attribution; the stored result is   *)
(* whole, and COMPLETE comes after it; and the runs implement MatrixJob.   *)
(***************************************************************************)
EXTENDS Coordinator, FiniteSetTheorems, TLAPS

(* The storage operators keep rows well-formed.                             *)

LEMMA AbsentRowType == AbsentRow \in BlockRow
BY DEF AbsentRow, BlockRow, BlockStatus, AssignedAt

LEMMA CreateBlockType ==
    ASSUME NEW row \in BlockRow PROVE CreateBlock(row) \in BlockRow
BY DEF CreateBlock, BlockRow, BlockStatus

LEMMA AssignBlockType ==
    ASSUME NEW row \in BlockRow, NEW w \in Members PROVE AssignBlock(row, w) \in BlockRow
<1>1. row.attempt_id + 1 \in Nat
    BY DEF BlockRow
<1>2. "assigned" \in BlockStatus /\ "recent" \in AssignedAt
    BY DEF BlockStatus, AssignedAt
<1> QED BY <1>1, <1>2 DEF AssignBlock, BlockRow

LEMMA CompleteBlockType ==
    ASSUME NEW row \in BlockRow, NEW a \in Int, NEW p \in Members \cup {Empty}
    PROVE  CompleteBlock(row, a, p) \in BlockRow
BY DEF CompleteBlock, BlockRow, BlockStatus

LEMMA FailBlockType ==
    ASSUME NEW row \in BlockRow PROVE FailBlock(row) \in BlockRow
BY DEF FailBlock, BlockRow, BlockStatus, AssignedAt

LEMMA UpdateJobStatusType ==
    ASSUME NEW s \in JobStatus, NEW n \in JobStatus PROVE UpdateJobStatus(s, n) \in JobStatus
BY DEF UpdateJobStatus

-----------------------------------------------------------------------------
(* Type correctness.                                                        *)

LEMMA TypeInit == Init => TypeOK
BY RunsAssumption, AbsentRowType
   DEF Init, TypeOK, JobStatus, Stage, Task, Result

LEMMA TypeStep == TypeOK /\ [Next]_vars => TypeOK'
<1> SUFFICES ASSUME TypeOK, [Next]_vars PROVE TypeOK'
    OBVIOUS
<1> USE RunsAssumption, EnvironmentAssumption DEF TypeOK, database, network, Goto, Members
<1>1. ASSUME NEW r \in Runs, CreateJob(r) PROVE TypeOK'
    BY <1>1 DEF CreateJob, JobStatus, Stage
<1>2. ASSUME NEW r \in Runs, MarkRunning(r) PROVE TypeOK'
    BY <1>2, UpdateJobStatusType DEF MarkRunning, SetStatus, JobStatus, Stage
<1>3. ASSUME NEW r \in Runs, NEW b \in Blocks, PersistBlock(r, b) PROVE TypeOK'
    BY <1>3, CreateBlockType DEF PersistBlock
<1>4. ASSUME NEW r \in Runs, BeginRun(r) PROVE TypeOK'
    BY <1>4 DEF BeginRun, Enqueue, Stage
<1>5. ASSUME NEW r \in Runs, Resume(r) PROVE TypeOK'
    BY <1>5, FailBlockType DEF Resume, Enqueue, Stage, PendingBlocks, TimedOutBlocks
<1>6. ASSUME NEW r \in Runs, NEW b \in Blocks, NEW w \in Members, AssignRemote(r, b, w)
      PROVE  TypeOK'
  <2>1. AssignBlock(blk[b], w) \in BlockRow
    BY AssignBlockType
  <2>2. [block |-> b, worker |-> w, attempt |-> AssignBlock(blk[b], w).attempt_id] \in Task
    BY <2>1 DEF Task, BlockRow
  <2> QED BY <1>6, <2>1, <2>2 DEF AssignRemote, Stage
<1>7. ASSUME NEW r \in Runs, NEW b \in Blocks, NEW stage \in Stage, TakeLocal(r, b, stage)
      PROVE  TypeOK'
  <2>1. AssignBlock(blk[b], HostOf[r]) \in BlockRow
    BY AssignBlockType
  <2>2. [block |-> b, worker |-> HostOf[r],
         attempt |-> AssignBlock(blk[b], HostOf[r]).attempt_id] \in Task
    BY <2>1 DEF Task, BlockRow
  <2> QED BY <1>7, <2>1, <2>2 DEF TakeLocal
<1>8. ASSUME NEW r \in Runs, EchoAssign(r) PROVE TypeOK'
  <2> PICK t \in doing[r] : blk' = [blk EXCEPT ![t.block] = AssignBlock(@, t.worker)]
    BY <1>8 DEF EchoAssign
  <2>1. t.block \in Blocks /\ t.worker \in Members
    BY DEF Task
  <2>2. AssignBlock(blk[t.block], t.worker) \in BlockRow
    BY <2>1, AssignBlockType
  <2> QED BY <1>8, <2>1, <2>2 DEF EchoAssign
<1>9. ASSUME NEW r \in Runs, SendWork(r) PROVE TypeOK'
    BY <1>9 DEF SendWork, Stage
<1>10. ASSUME NEW r \in Runs, SendConfirmed(r) PROVE TypeOK'
    BY <1>10 DEF SendConfirmed, Stage
<1>11. ASSUME NEW r \in Runs, SendFailed(r) PROVE TypeOK'
  <2> PICK t \in doing[r] : /\ blk' = [blk EXCEPT ![t.block] = FailBlock(@)]
                            /\ spare' = [spare EXCEPT ![r] = @ \cup {t.block}]
    BY <1>11 DEF SendFailed
  <2>1. t.block \in Blocks /\ FailBlock(blk[t.block]) \in BlockRow
    BY FailBlockType DEF Task
  <2> QED BY <1>11, <2>1 DEF SendFailed, Stage
<1>12. ASSUME NEW r \in Runs, NEW b \in Blocks, SkipLocal(r, b) PROVE TypeOK'
    BY <1>12 DEF SkipLocal
<1>13. ASSUME NEW r \in Runs, EndAssign(r) PROVE TypeOK'
    BY <1>13 DEF EndAssign, Stage
<1>14. ASSUME NEW r \in Runs, FinishLocal(r) PROVE TypeOK'
  <2> PICK t \in doing[r] : /\ EndLocal(r, t)
                            /\ blk' = [blk EXCEPT ![t.block] =
                                           CompleteBlock(@, t.attempt, t.worker)]
    BY <1>14 DEF FinishLocal
  <2>1. t.block \in Blocks /\ t.attempt \in Int /\ t.worker \in Members
    BY DEF Task
  <2>2. CompleteBlock(blk[t.block], t.attempt, t.worker) \in BlockRow
    BY <2>1, CompleteBlockType
  <2> QED BY <2>1, <2>2 DEF EndLocal, Stage
<1>15. ASSUME NEW r \in Runs, FailLocal(r) PROVE TypeOK'
  <2> PICK t \in doing[r] : /\ EndLocal(r, t)
                            /\ blk' = [blk EXCEPT ![t.block] = FailBlock(@)]
    BY <1>15 DEF FailLocal
  <2>1. t.block \in Blocks /\ FailBlock(blk[t.block]) \in BlockRow
    BY FailBlockType DEF Task
  <2> QED BY <2>1 DEF EndLocal, Stage
<1>16. ASSUME NEW r \in Runs, PollDone(r) PROVE TypeOK'
    BY <1>16 DEF PollDone, Stage
<1>17. ASSUME NEW r \in Runs, PollTimedOut(r) PROVE TypeOK'
    BY <1>17 DEF PollTimedOut, TimedOutBlocks, Stage
<1>18. ASSUME NEW r \in Runs, NEW b \in Blocks, Reclaim(r, b) PROVE TypeOK'
    BY <1>18, FailBlockType DEF Reclaim, Stage
<1>19. ASSUME NEW r \in Runs, NEW b \in Blocks, SkipReclaim(r, b) PROVE TypeOK'
    BY <1>19 DEF SkipReclaim
<1>20. ASSUME NEW r \in Runs, EchoFail(r) PROVE TypeOK'
    BY <1>20, FailBlockType DEF EchoFail
<1>21. ASSUME NEW r \in Runs, EndReclaim(r) PROVE TypeOK'
    BY <1>21 DEF EndReclaim, Stage
<1>22. ASSUME NEW r \in Runs, Assemble(r) PROVE TypeOK'
    BY <1>22 DEF Assemble, Assembled, Stage
<1>23. ASSUME NEW r \in Runs, AssembleFails(r) PROVE TypeOK'
    BY <1>23, UpdateJobStatusType DEF AssembleFails, SetStatus, JobStatus, Stage
<1>24. ASSUME NEW r \in Runs, MarkComplete(r) PROVE TypeOK'
    BY <1>24, UpdateJobStatusType DEF MarkComplete, SetStatus, JobStatus, Stage
<1>25. ASSUME NEW r \in Runs, EchoComplete(r) PROVE TypeOK'
    BY <1>25 DEF EchoComplete, SyncJobStatus, JobStatus
<1>26. ASSUME NEW r \in Runs, Announce(r) PROVE TypeOK'
    BY <1>26 DEF Announce, Stage
<1>27. ASSUME NEW t \in held, NEW f \in BOOLEAN, NodeFinish(t, f) PROVE TypeOK'
    BY <1>27 DEF NodeFinish, Result
<1>28. ASSUME NEW t \in held, BrowserFinish(t) PROVE TypeOK'
  <2>1. [task |-> t, failed |-> FALSE] \in Result
    BY DEF Result
  <2> QED BY <1>28, <2>1 DEF BrowserFinish
<1>29. ASSUME NEW t \in held, WorkerLoses(t) PROVE TypeOK'
    BY <1>29 DEF WorkerLoses
<1>30. ASSUME NEW m \in results, DeliverResult(m) PROVE TypeOK'
  <2>1. m.task.block \in Blocks /\ AttemptIn(m) \in Int /\ PartialIn(m) \in Members \cup {Empty}
    BY DEF Result, Task, AttemptIn, PartialIn, NoAttempt
  <2>2. CompleteBlock(blk[m.task.block], AttemptIn(m), PartialIn(m)) \in BlockRow
    BY <2>1, CompleteBlockType
  <2> QED BY <1>30, <2>1, <2>2 DEF DeliverResult
<1>31. ASSUME NEW m \in results, LoseResult(m) PROVE TypeOK'
    BY <1>31 DEF LoseResult
<1>32. ASSUME NEW b \in Blocks, LeaseExpires(b) PROVE TypeOK'
  <2>1. [blk[b] EXCEPT !.assigned_at = "overdue"] \in BlockRow
    BY DEF BlockRow, AssignedAt
  <2> QED BY <1>32, <2>1 DEF LeaseExpires
<1>33. ASSUME NEW n \in Nodes, Crash(n) PROVE TypeOK'
    BY <1>33 DEF Crash, Stage
<1>34. CASE UNCHANGED vars
    BY <1>34 DEF vars
<1>35. ASSUME NEW r \in Runs, NEW b \in Blocks, AssignLocal(r, b) PROVE TypeOK'
    BY <1>35, <1>7 DEF AssignLocal, Stage
<1>36. ASSUME NEW r \in Runs, NEW b \in Blocks, Reassign(r, b) PROVE TypeOK'
    BY <1>36, <1>7 DEF Reassign, Stage
<1> QED
    BY <1>1, <1>2, <1>3, <1>4, <1>5, <1>6, <1>8, <1>9, <1>10, <1>11, <1>12, <1>13,
       <1>14, <1>15, <1>16, <1>17, <1>18, <1>19, <1>20, <1>21, <1>22, <1>23, <1>24,
       <1>25, <1>26, <1>27, <1>28, <1>29, <1>30, <1>31, <1>32, <1>33, <1>34, <1>35, <1>36
       DEF Next, RunStep, SubmitStep, AssignStep, MonitorStep, AssembleStep, Environment

\* The tables and local variables keep their types (storage.py's columns,
\* coordinator.py's locals).
THEOREM TypeCorrect == Spec => []TypeOK
BY TypeInit, TypeStep, PTL DEF Spec

-----------------------------------------------------------------------------
(* How a step changes a row of the blocks table.  Everything below about    *)
(* rows follows from this list and not from the actions.                    *)

Move(b) ==
    \/ blk'[b] = blk[b]
    \/ blk'[b] = CreateBlock(blk[b])
    \/ blk'[b] = FailBlock(blk[b])
    \/ \E w \in Members : blk'[b] = AssignBlock(blk[b], w)
    \/ \E t \in Executions :
           t.block = b /\ blk'[b] = CompleteBlock(blk[b], t.attempt, t.worker)
    \/ \E m \in results : m.failed /\ blk'[b] = CompleteBlock(blk[b], NoAttempt, Empty)
    \/ blk[b].status = "assigned" /\ blk'[b] = [blk[b] EXCEPT !.assigned_at = "overdue"]

LEMMA RowMoves == TypeOK /\ [Next]_vars => \A b \in Blocks : Move(b)
<1> SUFFICES ASSUME TypeOK, [Next]_vars, NEW c \in Blocks PROVE Move(c)
    OBVIOUS
<1> USE RunsAssumption DEF database, Members
<1>1. CASE UNCHANGED blk
    BY <1>1 DEF Move
<1>2. ASSUME NEW r \in Runs, NEW b \in Blocks, PersistBlock(r, b) PROVE Move(c)
    BY <1>2 DEF PersistBlock, Move, TypeOK
<1>3. ASSUME NEW r \in Runs, Resume(r) PROVE Move(c)
    BY <1>3 DEF Resume, Move, TypeOK
<1>4. ASSUME NEW r \in Runs, NEW b \in Blocks, NEW w \in Members, AssignRemote(r, b, w)
      PROVE  Move(c)
    BY <1>4 DEF AssignRemote, Move, TypeOK
<1>5. ASSUME NEW r \in Runs, EchoAssign(r) PROVE Move(c)
    BY <1>5 DEF EchoAssign, Move, TypeOK, Task
<1>6. ASSUME NEW r \in Runs, SendFailed(r) PROVE Move(c)
    BY <1>6 DEF SendFailed, Move, TypeOK, Task
<1>7. ASSUME NEW r \in Runs, NEW b \in Blocks, NEW stage, TakeLocal(r, b, stage)
      PROVE  Move(c)
  <2>1. HostOf[r] \in Members
    OBVIOUS
  <2> QED BY <1>7, <2>1 DEF TakeLocal, Move, TypeOK
<1>8. ASSUME NEW r \in Runs, NEW b \in Blocks, AssignLocal(r, b) PROVE Move(c)
    BY <1>7, <1>8 DEF AssignLocal
<1>9. ASSUME NEW r \in Runs, NEW b \in Blocks, Reassign(r, b) PROVE Move(c)
    BY <1>7, <1>9 DEF Reassign
<1>10. ASSUME NEW r \in Runs, FinishLocal(r) PROVE Move(c)
  <2> PICK t \in doing[r] :
          blk' = [blk EXCEPT ![t.block] = CompleteBlock(@, t.attempt, t.worker)]
    BY <1>10 DEF FinishLocal
  <2>1. t \in Executions /\ t.block \in Blocks
    BY DEF Executions, TypeOK, Task
  <2> QED BY <2>1 DEF Move, TypeOK
<1>11. ASSUME NEW r \in Runs, FailLocal(r) PROVE Move(c)
    BY <1>11 DEF FailLocal, Move, TypeOK
<1>12. ASSUME NEW r \in Runs, NEW b \in Blocks, Reclaim(r, b) PROVE Move(c)
    BY <1>12 DEF Reclaim, Move, TypeOK
<1>13. ASSUME NEW r \in Runs, EchoFail(r) PROVE Move(c)
    BY <1>13 DEF EchoFail, Move, TypeOK
<1>14. ASSUME NEW m \in results, DeliverResult(m) PROVE Move(c)
  <2>1. m.task \in Executions /\ m.task.block \in Blocks
    BY DEF Executions, TypeOK, Result, Task
  <2>2. blk' = [blk EXCEPT ![m.task.block] = CompleteBlock(@, AttemptIn(m), PartialIn(m))]
    BY <1>14 DEF DeliverResult
  <2>3. CASE m.failed
    BY <2>1, <2>2, <2>3 DEF AttemptIn, PartialIn, Move, TypeOK
  <2>4. CASE ~m.failed
    BY <2>1, <2>2, <2>4 DEF AttemptIn, PartialIn, Move, TypeOK
  <2> QED BY <2>3, <2>4
<1>15. ASSUME NEW b \in Blocks, LeaseExpires(b) PROVE Move(c)
    BY <1>15 DEF LeaseExpires, Move, TypeOK
<1> QED
    BY <1>1, <1>2, <1>3, <1>4, <1>5, <1>6, <1>8, <1>9, <1>10, <1>11, <1>12, <1>13,
       <1>14, <1>15
       DEF Next, RunStep, SubmitStep, AssignStep, MonitorStep, AssembleStep, Environment,
           CreateJob, MarkRunning, BeginRun, SendWork, SendConfirmed, SkipLocal, EndAssign,
           PollDone, PollTimedOut, SkipReclaim, EndReclaim, Assemble, AssembleFails,
           MarkComplete, EchoComplete, Announce, NodeFinish, BrowserFinish, WorkerLoses,
           LoseResult, Crash, vars

-----------------------------------------------------------------------------
(* A row, once inserted, stays, and every block a run is about to handle    *)
(* has one: assign_block never returns None here.                           *)

Exists(b) == blk[b].status # "absent"

LEMMA RowsPersist ==
    ASSUME TypeOK, [Next]_vars, NEW b \in Blocks, Exists(b) PROVE Exists(b)'
<1>1. Move(b) /\ blk[b] \in BlockRow
    BY RowMoves DEF TypeOK
<1> QED BY <1>1 DEF Move, Exists, BlockRow, CreateBlock, FailBlock, AssignBlock, CompleteBlock

RowsExist ==
    \A r \in Runs :
        /\ pc[r] = "persist" => \A b \in Blocks \ todo[r] : Exists(b)
        /\ pc[r] # "persist" => \A b \in todo[r] : Exists(b)
        /\ \A b \in spare[r] : Exists(b)
        /\ \A t \in doing[r] : Exists(t.block)

LEMMA RowsExistStep == TypeOK /\ RowsExist /\ [Next]_vars => RowsExist'
<1> SUFFICES ASSUME TypeOK, RowsExist, [Next]_vars, NEW s \in Runs
             PROVE  /\ pc'[s] = "persist" => \A b \in Blocks \ todo'[s] : Exists(b)'
                    /\ pc'[s] # "persist" => \A b \in todo'[s] : Exists(b)'
                    /\ \A b \in spare'[s] : Exists(b)'
                    /\ \A t \in doing'[s] : Exists(t.block)'
    BY DEF RowsExist
<1> DEFINE Goal == /\ pc'[s] = "persist" => \A b \in Blocks \ todo'[s] : Exists(b)'
                   /\ pc'[s] # "persist" => \A b \in todo'[s] : Exists(b)'
                   /\ \A b \in spare'[s] : Exists(b)'
                   /\ \A t \in doing'[s] : Exists(t.block)'
<1>a. \A b \in Blocks : Exists(b) => Exists(b)'
    BY RowsPersist
<1>b. /\ pc[s] = "persist" => \A b \in Blocks \ todo[s] : Exists(b)
      /\ pc[s] # "persist" => \A b \in todo[s] : Exists(b)
      /\ \A b \in spare[s] : Exists(b)
      /\ \A t \in doing[s] : Exists(t.block)
    BY DEF RowsExist
<1>c. /\ todo[s] \subseteq Blocks /\ spare[s] \subseteq Blocks
      /\ \A t \in doing[s] : t.block \in Blocks
    BY DEF TypeOK, Task
<1>d. \A r \in Runs : pc \in [Runs -> Stage] /\ todo \in [Runs -> SUBSET Blocks]
          /\ spare \in [Runs -> SUBSET Blocks] /\ doing \in [Runs -> SUBSET Task]
    BY DEF TypeOK
<1> USE <1>a, <1>b, <1>c, <1>d DEF Goto
<1>1. CASE UNCHANGED <<pc, todo, spare, doing>>
    BY <1>1
<1>2. ASSUME NEW r \in Runs, CreateJob(r) PROVE Goal
    BY <1>2 DEF CreateJob
<1>3. ASSUME NEW r \in Runs, MarkRunning(r) PROVE Goal
    BY <1>3 DEF MarkRunning
<1>4. ASSUME NEW r \in Runs, NEW b \in Blocks, PersistBlock(r, b) PROVE Goal
  <2>1. Exists(b)'
    BY <1>4 DEF PersistBlock, Exists, CreateBlock, TypeOK, BlockRow
  <2> QED BY <1>4, <2>1 DEF PersistBlock
<1>5. ASSUME NEW r \in Runs, BeginRun(r) PROVE Goal
    BY <1>5 DEF BeginRun, Enqueue
<1>6. ASSUME NEW r \in Runs, Resume(r) PROVE Goal
  <2>1. \A b \in PendingBlocks(blk) \cup TimedOutBlocks(blk) : b \in Blocks /\ Exists(b)
    BY DEF PendingBlocks, TimedOutBlocks, Exists
  <2> QED BY <1>6, <2>1 DEF Resume, Enqueue
<1>7. ASSUME NEW r \in Runs, NEW b \in Blocks, NEW w \in Members, AssignRemote(r, b, w)
      PROVE  Goal
  <2>1. Exists(b)
    BY <1>7 DEF AssignRemote, RowsExist
  <2> QED BY <1>7, <2>1 DEF AssignRemote
<1>8. ASSUME NEW r \in Runs, NEW b \in Blocks, NEW stage, stage # "persist", b \in spare[r],
             pc[r] # "persist", TakeLocal(r, b, stage)
      PROVE  Goal
  <2>1. Exists(b)
    BY <1>8 DEF RowsExist
  <2> QED BY <1>8, <2>1 DEF TakeLocal
<1>9. ASSUME NEW r \in Runs, NEW b \in Blocks, AssignLocal(r, b) PROVE Goal
    BY <1>8, <1>9 DEF AssignLocal
<1>10. ASSUME NEW r \in Runs, NEW b \in Blocks, Reassign(r, b) PROVE Goal
    BY <1>8, <1>10 DEF Reassign
<1>11. ASSUME NEW r \in Runs, SendWork(r) PROVE Goal
    BY <1>11 DEF SendWork
<1>12. ASSUME NEW r \in Runs, SendConfirmed(r) PROVE Goal
    BY <1>12 DEF SendConfirmed
<1>13. ASSUME NEW r \in Runs, SendFailed(r) PROVE Goal
  <2> PICK t \in doing[r] : spare' = [spare EXCEPT ![r] = @ \cup {t.block}]
    BY <1>13 DEF SendFailed
  <2>1. t.block \in Blocks /\ Exists(t.block)
    BY DEF RowsExist, Task
  <2> QED BY <1>13, <2>1 DEF SendFailed
<1>14. ASSUME NEW r \in Runs, NEW b \in Blocks, SkipLocal(r, b) PROVE Goal
    BY <1>14 DEF SkipLocal
<1>15. ASSUME NEW r \in Runs, EndAssign(r) PROVE Goal
    BY <1>15 DEF EndAssign
<1>16. ASSUME NEW r \in Runs, NEW t \in doing[r], EndLocal(r, t) PROVE Goal
    BY <1>16 DEF EndLocal
<1>17. ASSUME NEW r \in Runs, FinishLocal(r) \/ FailLocal(r) PROVE Goal
    BY <1>16, <1>17 DEF FinishLocal, FailLocal
<1>18. ASSUME NEW r \in Runs, PollDone(r) PROVE Goal
    BY <1>18 DEF PollDone
<1>19. ASSUME NEW r \in Runs, PollTimedOut(r) PROVE Goal
  <2>1. \A b \in TimedOutBlocks(blk) : b \in Blocks /\ Exists(b)
    BY DEF TimedOutBlocks, Exists
  <2> QED BY <1>19, <2>1 DEF PollTimedOut
<1>20. ASSUME NEW r \in Runs, NEW b \in Blocks, Reclaim(r, b) PROVE Goal
  <2>1. Exists(b)
    BY <1>20 DEF Reclaim, RowsExist
  <2> QED BY <1>20, <2>1 DEF Reclaim
<1>21. ASSUME NEW r \in Runs, NEW b \in Blocks, SkipReclaim(r, b) PROVE Goal
    BY <1>21 DEF SkipReclaim
<1>22. ASSUME NEW r \in Runs, EndReclaim(r) PROVE Goal
    BY <1>22 DEF EndReclaim
<1>23. ASSUME NEW r \in Runs,
              Assemble(r) \/ AssembleFails(r) \/ MarkComplete(r) \/ Announce(r)
       PROVE  Goal
    BY <1>23 DEF Assemble, AssembleFails, MarkComplete, Announce
<1>24. ASSUME NEW n \in Nodes, Crash(n) PROVE Goal
  <2>1. CASE HostOf[s] = n
    BY <1>24, <2>1 DEF Crash, Active
  <2>2. CASE HostOf[s] # n
    BY <1>24, <2>2 DEF Crash
  <2> QED BY <2>1, <2>2
<1> QED
    BY <1>1, <1>2, <1>3, <1>4, <1>5, <1>6, <1>7, <1>9, <1>10, <1>11, <1>12, <1>13,
       <1>14, <1>15, <1>17, <1>18, <1>19, <1>20, <1>21, <1>22, <1>23, <1>24
       DEF Next, RunStep, SubmitStep, AssignStep, MonitorStep, AssembleStep, Environment,
           EchoAssign, EchoFail, EchoComplete, NodeFinish, BrowserFinish, WorkerLoses,
           DeliverResult, LoseResult, LeaseExpires, vars

\* Every block that is assigned has its row, so assign_block always returns a
\* lease token (the "block not found" branches of the coordinator are idle).
THEOREM RowsPresent == Spec => []RowsExist
<1>1. Init => RowsExist
    BY DEF Init, RowsExist
<1> QED BY <1>1, RowsExistStep, TypeCorrect, PTL DEF Spec

-----------------------------------------------------------------------------
(* Leases.  A step grants one lease, or grants none: then no execution      *)
(* begins, and a row that keeps its attempt keeps its worker or loses it.   *)

Grant(r, b, w) ==
    /\ Exists(b)
    /\ blk' = [blk EXCEPT ![b] = AssignBlock(@, w)]
    /\ doing' = [doing EXCEPT ![r] =
           {[block |-> b, worker |-> w, attempt |-> blk[b].attempt_id + 1]}]
    /\ UNCHANGED network

NoGrant ==
    /\ \A r \in Runs : doing'[r] \subseteq doing[r]
    /\ Executions' \subseteq Executions

LEMMA RowLease ==
    ASSUME TypeOK, [Next]_vars, NEW b \in Blocks
    PROVE  \/ /\ blk'[b].attempt_id = blk[b].attempt_id
              /\ blk'[b].worker_id \in {blk[b].worker_id, Null}
           \/ blk'[b].attempt_id = blk[b].attempt_id + 1
<1>1. Move(b) /\ blk[b] \in BlockRow
    BY RowMoves DEF TypeOK
<1> QED BY <1>1 DEF Move, BlockRow, CreateBlock, FailBlock, AssignBlock, CompleteBlock

LEMMA AssignGrants ==
    ASSUME TypeOK, NEW b \in Blocks, NEW w \in Members, Exists(b),
           blk' = [blk EXCEPT ![b] = AssignBlock(@, w)]
    PROVE  blk'[b].attempt_id = blk[b].attempt_id + 1
BY DEF Exists, AssignBlock, TypeOK, BlockRow

LEMMA StepLease ==
    TypeOK /\ RowsExist /\ [Next]_vars =>
        NoGrant \/ \E r \in Runs, b \in Blocks, w \in Members : Grant(r, b, w)
<1> SUFFICES ASSUME TypeOK, RowsExist, [Next]_vars
             PROVE  NoGrant \/ \E r \in Runs, b \in Blocks, w \in Members : Grant(r, b, w)
    OBVIOUS
<1> USE RunsAssumption
<1>1. doing \in [Runs -> SUBSET Task]
    BY DEF TypeOK
<1>2. CASE UNCHANGED <<doing, held, results>>
    BY <1>2 DEF NoGrant, Executions
<1>3. ASSUME NEW r \in Runs, NEW b \in Blocks, NEW w \in Members, AssignRemote(r, b, w)
      PROVE  Grant(r, b, w)
  <2>1. Exists(b)
    BY <1>3 DEF AssignRemote, RowsExist
  <2> QED BY <1>3, <2>1, AssignGrants DEF AssignRemote, Grant
<1>4. ASSUME NEW r \in Runs, NEW b \in Blocks, NEW stage, b \in spare[r],
             TakeLocal(r, b, stage)
      PROVE  HostOf[r] \in Members /\ Grant(r, b, HostOf[r])
  <2>1. Exists(b) /\ HostOf[r] \in Members
    BY <1>4 DEF RowsExist, Members
  <2> QED BY <1>4, <2>1, AssignGrants DEF TakeLocal, Grant
<1>5. ASSUME NEW r \in Runs, SendWork(r) PROVE NoGrant
    BY <1>5, <1>1 DEF SendWork, NoGrant, Executions
<1>6. ASSUME NEW r \in Runs, doing' = [doing EXCEPT ![r] = {}], UNCHANGED network
      PROVE  NoGrant
    BY <1>6, <1>1 DEF NoGrant, Executions, network
<1>7. ASSUME NEW r \in Runs, SendConfirmed(r) \/ SendFailed(r) PROVE NoGrant
    BY <1>6, <1>7 DEF SendConfirmed, SendFailed
<1>8. ASSUME NEW r \in Runs, FinishLocal(r) \/ FailLocal(r) PROVE NoGrant
    BY <1>6, <1>8 DEF FinishLocal, FailLocal, EndLocal
<1>9. ASSUME NEW t \in held, NEW f \in BOOLEAN, NodeFinish(t, f) PROVE NoGrant
    BY <1>9 DEF NodeFinish, NoGrant, Executions
<1>10. ASSUME NEW t \in held, BrowserFinish(t) PROVE NoGrant
    BY <1>10 DEF BrowserFinish, NoGrant, Executions
<1>11. ASSUME NEW t \in held, WorkerLoses(t) PROVE NoGrant
    BY <1>11 DEF WorkerLoses, NoGrant, Executions
<1>12. ASSUME NEW m \in results, DeliverResult(m) \/ LoseResult(m) PROVE NoGrant
    BY <1>12 DEF DeliverResult, LoseResult, NoGrant, Executions
<1>13. ASSUME NEW n \in Nodes, Crash(n) PROVE NoGrant
  <2>1. \A r \in Runs : doing'[r] \subseteq doing[r]
    BY <1>13 DEF Crash
  <2> QED BY <1>13, <2>1 DEF Crash, NoGrant, Executions
<1> QED
    BY <1>2, <1>3, <1>4, <1>5, <1>7, <1>8, <1>9, <1>10, <1>11, <1>12, <1>13
       DEF Next, RunStep, SubmitStep, AssignStep, MonitorStep, AssembleStep, Environment,
           CreateJob, MarkRunning, PersistBlock, BeginRun, Resume, AssignLocal, SkipLocal,
           EchoAssign, EndAssign, PollDone, PollTimedOut, Reclaim, SkipReclaim, EchoFail,
           Reassign, EndReclaim, Assemble, AssembleFails, MarkComplete, EchoComplete,
           Announce, LeaseExpires, network, vars

-----------------------------------------------------------------------------
(* Leases.                                                                  *)

(* LeaseUnique is not inductive: a step could grant a token somebody holds  *)
(* unless the row's attempt_id bounds every token of the block.             *)
LeaseBound ==
    \A t \in Executions :
        /\ t.attempt <= blk[t.block].attempt_id
        /\ t.attempt = blk[t.block].attempt_id
               => blk[t.block].worker_id \in {t.worker, Null}

LeaseInv == LeaseBound /\ LeaseUnique

LEMMA ExecutionsType == TypeOK => Executions \subseteq Task
BY DEF TypeOK, Executions, Result

LEMMA LeaseInit == Init => LeaseInv
BY DEF Init, LeaseInv, LeaseBound, LeaseUnique, Executions

(* Executions that go on keep the bound, whatever the step does to rows.    *)
LEMMA BoundKept ==
    ASSUME TypeOK, [Next]_vars, LeaseBound, NEW t \in Executions
    PROVE  /\ t.attempt <= blk'[t.block].attempt_id
           /\ t.attempt = blk'[t.block].attempt_id
                  => blk'[t.block].worker_id \in {t.worker, Null}
<1>1. t.block \in Blocks /\ t.attempt \in Nat
    BY ExecutionsType DEF Task
<1>2. blk[t.block].attempt_id \in Nat
    BY <1>1 DEF TypeOK, BlockRow
<1>3. \/ /\ blk'[t.block].attempt_id = blk[t.block].attempt_id
         /\ blk'[t.block].worker_id \in {blk[t.block].worker_id, Null}
      \/ blk'[t.block].attempt_id = blk[t.block].attempt_id + 1
    BY <1>1, RowLease
<1>4. t.attempt <= blk[t.block].attempt_id
    BY DEF LeaseBound
<1>5. t.attempt = blk[t.block].attempt_id => blk[t.block].worker_id \in {t.worker, Null}
    BY DEF LeaseBound
<1>6. CASE blk'[t.block].attempt_id = blk[t.block].attempt_id + 1
    BY <1>1, <1>2, <1>4, <1>6
<1> QED BY <1>3, <1>4, <1>5, <1>6

LEMMA LeaseStep == TypeOK /\ RowsExist /\ LeaseInv /\ [Next]_vars => LeaseInv'
<1> SUFFICES ASSUME TypeOK, RowsExist, LeaseInv, [Next]_vars PROVE LeaseInv'
    OBVIOUS
<1> USE DEF LeaseInv
<1>1. CASE NoGrant
  <2>1. LeaseBound'
    BY <1>1, BoundKept DEF NoGrant, LeaseBound
  <2>2. LeaseUnique'
    BY <1>1 DEF NoGrant, LeaseUnique
  <2> QED BY <2>1, <2>2
<1>2. ASSUME NEW r \in Runs, NEW b \in Blocks, NEW w \in Members, Grant(r, b, w)
      PROVE  LeaseInv'
  <2> DEFINE u == [block |-> b, worker |-> w, attempt |-> blk[b].attempt_id + 1]
  <2>1. /\ doing \in [Runs -> SUBSET Task] /\ doing' = [doing EXCEPT ![r] = {u}]
        /\ held' = held /\ results' = results
    BY <1>2 DEF Grant, network, TypeOK
  <2>2. Executions' \subseteq Executions \cup {u}
    BY <2>1 DEF Executions
  <2>3. blk[b].attempt_id \in Nat /\ u \in Task
    BY DEF TypeOK, BlockRow, Task
  <2>4. blk'[b].attempt_id = u.attempt /\ blk'[b].worker_id = w
    BY <1>2 DEF Grant, Exists, AssignBlock, TypeOK, BlockRow
  <2>5. LeaseBound'
    BY <2>2, <2>3, <2>4, BoundKept DEF LeaseBound
  <2>6. \A t \in Executions : t.block = b => t.attempt < u.attempt
    BY <2>3, ExecutionsType DEF LeaseBound, Task
  <2>7. \A t \in Executions : t # u /\ ~(t.block = u.block /\ t.attempt = u.attempt)
    BY <2>3, <2>6, ExecutionsType DEF Task
  <2>8. \A t, v \in Executions' : t.block = v.block /\ t.attempt = v.attempt => t = v
    BY <2>2, <2>7 DEF LeaseUnique
  <2>9. \A s \in Runs : u \notin doing[s]
    BY <2>7 DEF Executions
  <2>10. \A s, q \in Runs : s # q => doing'[s] \cap doing'[q] = {}
    BY <2>1, <2>9 DEF LeaseUnique
  <2> QED BY <2>5, <2>8, <2>10 DEF LeaseUnique
<1> QED BY <1>1, <1>2, StepLease

\* A lease token is never held twice (assign_block's attempt_id + 1), however
\* many coordinators, members, reassignments and lost responses there are.
THEOREM LeasesAreUnique == Spec => []LeaseUnique
<1>1. Spec => []LeaseInv
    BY LeaseInit, LeaseStep, TypeCorrect, RowsPresent, PTL DEF Spec
<1> QED BY <1>1, PTL DEF LeaseInv

-----------------------------------------------------------------------------
(* Attribution.                                                             *)

Attributed(row) ==
    row.status = "done" /\ row.worker_id # Null /\ row.partial # Empty
        => row.partial = row.worker_id

LEMMA AttributionStep ==
    TypeOK /\ LeaseInv /\ Attribution /\ [Next]_vars => Attribution'
<1> SUFFICES ASSUME TypeOK, LeaseInv, Attribution, [Next]_vars, NEW b \in Blocks
             PROVE  Attributed(blk'[b])
    BY DEF Attribution, Attributed
<1>1. Attributed(blk[b]) /\ blk[b] \in BlockRow
    BY DEF Attribution, Attributed, TypeOK
<1>2. Move(b)
    BY RowMoves
<1>3. ASSUME NEW t \in Executions, t.block = b,
             blk'[b] = CompleteBlock(blk[b], t.attempt, t.worker)
      PROVE  Attributed(blk'[b])
  <2>1. t.attempt \in Nat
    BY ExecutionsType DEF Task
  <2>2. t.attempt = blk[b].attempt_id => blk[b].worker_id \in {t.worker, Null}
    BY <1>3 DEF LeaseInv, LeaseBound
  <2> QED BY <1>1, <1>3, <2>1, <2>2 DEF Attributed, CompleteBlock, Accepts, BlockRow
<1>4. CASE \/ blk'[b] = blk[b]
           \/ blk'[b] = CreateBlock(blk[b])
           \/ blk'[b] = FailBlock(blk[b])
           \/ \E w \in Members : blk'[b] = AssignBlock(blk[b], w)
           \/ blk'[b] = CompleteBlock(blk[b], NoAttempt, Empty)
           \/ blk[b].status = "assigned"
                  /\ blk'[b] = [blk[b] EXCEPT !.assigned_at = "overdue"]
    BY <1>1, <1>4
       DEF Attributed, BlockRow, CreateBlock, FailBlock, AssignBlock, CompleteBlock
<1> QED BY <1>2, <1>3, <1>4 DEF Move

\* complete_block's attempt check is enough for a done row to name the member
\* whose product it keeps.
THEOREM RowsNameContributors == Spec => []Attribution
<1>1. Init => Attribution
    BY DEF Init, Attribution, AbsentRow
<1>2. Spec => []LeaseInv
    BY LeaseInit, LeaseStep, TypeCorrect, RowsPresent, PTL DEF Spec
<1> QED BY <1>1, <1>2, AttributionStep, TypeCorrect, PTL DEF Spec

-----------------------------------------------------------------------------
(* The result.                                                              *)

(* A run past the poll has seen all rows done, and rows stay; a run past    *)
(* the assembly has stored a result, and results stay.                      *)
Polled ==
    \A r \in Runs : pc[r] = "assemble" => \A b \in Blocks : Exists(b)

StoredFirst ==
    \A r \in Runs : pc[r] \in {"mark", "announce"} => AnswerStored

AnswerInv == Polled /\ StoredFirst /\ AnswerIsWhole /\ CompleteIsStored

LEMMA AllDone ==
    ASSUME Cardinality(DoneBlocks(blk)) >= Cardinality(Blocks)
    PROVE  DoneBlocks(blk) = Blocks
<1>1. DoneBlocks(blk) \in SUBSET Blocks
    BY DEF DoneBlocks
<1>2. /\ IsFiniteSet(DoneBlocks(blk))
      /\ Cardinality(DoneBlocks(blk)) <= Cardinality(Blocks)
      /\ Cardinality(Blocks) = Cardinality(DoneBlocks(blk)) => Blocks = DoneBlocks(blk)
    BY <1>1, BlocksAssumption, FS_Subset
<1>3. Cardinality(DoneBlocks(blk)) \in Nat /\ Cardinality(Blocks) \in Nat
    BY <1>2, BlocksAssumption, FS_CardinalityType
<1> QED BY <1>2, <1>3

LEMMA PolledStep == TypeOK /\ Polled /\ [Next]_vars => Polled'
<1> SUFFICES ASSUME TypeOK, Polled, [Next]_vars, NEW s \in Runs, pc'[s] = "assemble",
                    NEW b \in Blocks
             PROVE  Exists(b)'
    BY DEF Polled
<1>1. Exists(b) => Exists(b)'
    BY RowsPersist
<1>2. CASE pc[s] = "assemble"
    BY <1>1, <1>2 DEF Polled
<1>3. CASE pc[s] # "assemble"
  <2>1. \A r \in Runs : \A stage : Goto(r, stage) => r = s /\ stage = "assemble"
    BY <1>3 DEF Goto, TypeOK
  <2>2. ~(UNCHANGED pc)
    BY <1>3
  <2>3. ~(\E n \in Nodes : Crash(n))
    BY <1>3 DEF Crash
  <2>4. PollDone(s)
    BY <2>1, <2>2, <2>3
       DEF Next, RunStep, SubmitStep, AssignStep, MonitorStep, AssembleStep, Environment,
           CreateJob, MarkRunning, PersistBlock, BeginRun, Resume, AssignRemote, AssignLocal,
           SkipLocal, TakeLocal, EchoAssign, SendWork, SendConfirmed, SendFailed, FinishLocal,
           FailLocal, EndLocal, EndAssign, PollDone, PollTimedOut, Reclaim, SkipReclaim,
           EchoFail, Reassign, EndReclaim, Assemble, AssembleFails, MarkComplete,
           EchoComplete, Announce, NodeFinish, BrowserFinish, WorkerLoses, DeliverResult,
           LoseResult, LeaseExpires, vars
  <2>5. b \in DoneBlocks(blk)
    BY <2>4, AllDone DEF PollDone
  <2> QED BY <1>1, <2>5 DEF DoneBlocks, Exists
<1> QED BY <1>2, <1>3

(* What Assemble stores.                                                    *)
LEMMA AssembleWhole ==
    ASSUME TypeOK, Polled, NEW r \in Runs, Assemble(r)
    PROVE  /\ DOMAIN answer' = Blocks /\ Blocks # {}
           /\ \A b \in Blocks : blk[b].partial \in Members /\ answer'[b] = blk[b].partial
<1>1. \A b \in Blocks : Exists(b)
    BY DEF Assemble, Polled
<1>2. Assembled(blk) = Blocks
    BY <1>1 DEF Assembled, Exists
<1>3. \A b \in Blocks : blk[b].partial \in Members
    BY <1>2 DEF Assemble, Whole, TypeOK, BlockRow
<1> QED BY <1>2, <1>3, BlocksAssumption DEF Assemble

(* A step that assembles nothing keeps the result, leaves the status or     *)
(* makes it COMPLETE out of "mark" or "announce".                           *)
LEMMA ResultSteps ==
    ASSUME TypeOK, [Next]_vars
    PROVE  \/ \E r \in Runs : Assemble(r)
           \/ /\ answer' = answer
              /\ \/ job'.status # "complete"
                 \/ job'.status = job.status
                 \/ \E r \in Runs : pc[r] \in {"mark", "announce"}
              /\ \A s \in Runs : pc'[s] \in {"mark", "announce"}
                                     => pc[s] \in {"mark", "announce"}
<1> DEFINE Goal == /\ answer' = answer
                   /\ \/ job'.status # "complete"
                      \/ job'.status = job.status
                      \/ \E r \in Runs : pc[r] \in {"mark", "announce"}
                   /\ \A s \in Runs : pc'[s] \in {"mark", "announce"}
                                          => pc[s] \in {"mark", "announce"}
<1>1. pc \in [Runs -> Stage] /\ job \in [status: JobStatus, coordinator_id: Nodes \cup {Null}]
    BY DEF TypeOK
<1> USE <1>1, RunsAssumption DEF Goto, database
<1>2. CASE UNCHANGED <<job, answer, pc>>
    BY <1>2
<1>3. ASSUME NEW r \in Runs, NEW stage, stage \notin {"mark", "announce"}, Goto(r, stage),
             UNCHANGED <<job, answer>>
      PROVE  Goal
    BY <1>3
<1>4. ASSUME NEW r \in Runs, CreateJob(r) PROVE Goal
    BY <1>4 DEF CreateJob
<1>5. ASSUME NEW r \in Runs, MarkRunning(r) PROVE Goal
    BY <1>5 DEF MarkRunning, SetStatus, UpdateJobStatus
<1>6. ASSUME NEW r \in Runs, BeginRun(r) PROVE Goal
    BY <1>3, <1>6 DEF BeginRun
<1>7. ASSUME NEW r \in Runs, Resume(r) PROVE Goal
    BY <1>7 DEF Resume
<1>8. ASSUME NEW r \in Runs, NEW b \in Blocks, NEW w \in Members, AssignRemote(r, b, w)
      PROVE  Goal
    BY <1>3, <1>8 DEF AssignRemote
<1>9. ASSUME NEW r \in Runs,
             \/ SendWork(r) \/ SendConfirmed(r) \/ SendFailed(r) \/ EndAssign(r)
             \/ PollDone(r) \/ PollTimedOut(r) \/ EndReclaim(r)
      PROVE  Goal
    BY <1>3, <1>9
       DEF SendWork, SendConfirmed, SendFailed, EndAssign, PollDone, PollTimedOut, EndReclaim
<1>10. ASSUME NEW r \in Runs, FinishLocal(r) \/ FailLocal(r) PROVE Goal
    BY <1>3, <1>10 DEF FinishLocal, FailLocal, EndLocal
<1>11. ASSUME NEW r \in Runs, NEW b \in Blocks, Reclaim(r, b) PROVE Goal
    BY <1>3, <1>11 DEF Reclaim
<1>12. ASSUME NEW r \in Runs, AssembleFails(r) PROVE Goal
    BY <1>12 DEF AssembleFails, SetStatus, UpdateJobStatus
<1>13. ASSUME NEW r \in Runs, MarkComplete(r) PROVE Goal
    BY <1>13 DEF MarkComplete
<1>14. ASSUME NEW r \in Runs, EchoComplete(r) PROVE Goal
    BY <1>14 DEF EchoComplete
<1>15. ASSUME NEW r \in Runs, Announce(r) PROVE Goal
    BY <1>3, <1>15 DEF Announce
<1>16. ASSUME NEW n \in Nodes, Crash(n) PROVE Goal
  <2>1. \A s \in Runs : pc'[s] = "down" \/ pc'[s] = pc[s]
    BY <1>16 DEF Crash
  <2> QED BY <1>16, <2>1 DEF Crash
<1>17. ASSUME NEW r \in Runs, NEW b \in Blocks, AssignLocal(r, b) \/ Reassign(r, b)
       PROVE  Goal
    BY <1>3, <1>17 DEF AssignLocal, Reassign, TakeLocal
<1> QED
    BY <1>2, <1>4, <1>5, <1>6, <1>7, <1>8, <1>9, <1>10, <1>11, <1>12, <1>13, <1>14,
       <1>15, <1>16, <1>17
       DEF Next, RunStep, SubmitStep, AssignStep, MonitorStep, AssembleStep, Environment,
           PersistBlock, SkipLocal, EchoAssign, SkipReclaim, EchoFail, NodeFinish,
           BrowserFinish, WorkerLoses, DeliverResult, LoseResult, LeaseExpires, vars

LEMMA AnswerStep == TypeOK /\ AnswerInv /\ [Next]_vars => AnswerInv'
<1> SUFFICES ASSUME TypeOK, AnswerInv, [Next]_vars PROVE AnswerInv'
    OBVIOUS
<1> USE DEF AnswerInv
<1>1. Polled'
    BY PolledStep
<1>2. CASE \E r \in Runs : Assemble(r)
  <2> PICK r \in Runs : Assemble(r)
    BY <1>2
  <2>1. /\ DOMAIN answer' = Blocks /\ Blocks # {}
        /\ \A b \in Blocks : blk[b].partial \in Members /\ answer'[b] = blk[b].partial
    BY AssembleWhole
  <2> QED BY <1>1, <2>1 DEF StoredFirst, AnswerIsWhole, CompleteIsStored, AnswerStored
<1>3. CASE ~(\E r \in Runs : Assemble(r))
    BY <1>1, <1>3, ResultSteps DEF StoredFirst, AnswerIsWhole, CompleteIsStored, AnswerStored
<1> QED BY <1>2, <1>3

LEMMA AnswerAlways == Spec => []AnswerInv
<1>1. Init => AnswerInv
    BY DEF Init, AnswerInv, Polled, StoredFirst, AnswerIsWhole, CompleteIsStored, AnswerStored
<1> QED BY <1>1, AnswerStep, TypeCorrect, PTL DEF Spec

\* A result matrix in the database has every block, each computed by a member:
\* neither a crash in submit_job nor a failure report gets into it.
THEOREM AnswersAreWhole == Spec => []AnswerIsWhole
BY AnswerAlways, PTL DEF AnswerInv

\* A job shown COMPLETE has its result, wherever its coordinators die.
THEOREM CompletesAreStored == Spec => []CompleteIsStored
BY AnswerAlways, PTL DEF AnswerInv

-----------------------------------------------------------------------------
(* Coordinator implements MatrixJob when no multiplication raises and no    *)
(* backup's database is the job's own file.  A failure report overwrites a  *)
(* stored product with [], and a status forced by a backup on the same file *)
(* bypasses the status machine, so neither condition can be dropped.        *)

JobStarted == job.status \notin {"absent", "pending"}

(* Before the job is started nothing runs but submit_job.                   *)
StatusInv ==
    /\ pc[FirstRun] = "idle" => job.status = "absent"
    /\ \A r \in Runs : pc[r] = "start" => r = FirstRun /\ job.status = "pending"
    /\ ~JobStarted =>
           Executions = {} /\ \A r \in Runs : pc[r] \in {"idle", "start", "down"}

(* Only a multiplication that raised is reported as failed.                 *)
FailuresRaised == \A m \in results : m.failed => m.task.block \in Flaky

JobInv == StatusInv /\ FailuresRaised

-----------------------------------------------------------------------------
LEMMA FailuresStep == TypeOK /\ FailuresRaised /\ [Next]_vars => FailuresRaised'
<1> SUFFICES ASSUME TypeOK, FailuresRaised, [Next]_vars PROVE FailuresRaised'
    OBVIOUS
<1>1. CASE UNCHANGED results
    BY <1>1 DEF FailuresRaised
<1>2. ASSUME NEW t \in held, NEW f \in BOOLEAN, NodeFinish(t, f) PROVE FailuresRaised'
    BY <1>2 DEF NodeFinish, FailuresRaised
<1>3. ASSUME NEW t \in held, BrowserFinish(t) PROVE FailuresRaised'
    BY <1>3 DEF BrowserFinish, FailuresRaised
<1>4. ASSUME NEW m \in results, DeliverResult(m) \/ LoseResult(m) PROVE FailuresRaised'
    BY <1>4 DEF DeliverResult, LoseResult, FailuresRaised
<1> QED
    BY <1>1, <1>2, <1>3, <1>4
       DEF Next, RunStep, SubmitStep, AssignStep, MonitorStep, AssembleStep, Environment,
           CreateJob, MarkRunning, PersistBlock, BeginRun, Resume, AssignRemote, AssignLocal,
           SkipLocal, TakeLocal, EchoAssign, SendWork, SendConfirmed, SendFailed, FinishLocal,
           FailLocal, EndLocal, EndAssign, PollDone, PollTimedOut, Reclaim, SkipReclaim,
           EchoFail, Reassign, EndReclaim, Assemble, AssembleFails, MarkComplete,
           EchoComplete, Announce, WorkerLoses, LeaseExpires, Crash, network, vars

-----------------------------------------------------------------------------
(* The job's status and the runs' stages.                                   *)

(* A step other than submit_job's first two belongs to a started job, or is *)
(* a crash, or touches neither the job nor who executes what.               *)
Quiet == UNCHANGED <<job, pc, doing, held, results>>

LEMMA StartedSteps ==
    ASSUME TypeOK, StatusInv, [Next]_vars
    PROVE  \/ \E r \in Runs : CreateJob(r) \/ MarkRunning(r)
           \/ \E n \in Nodes : Crash(n)
           \/ Quiet
           \/ JobStarted
<1> DEFINE Busy == \E r \in Runs : pc[r] \notin {"idle", "start", "down"}
<1>1. Busy \/ Executions # {} => JobStarted
    BY DEF StatusInv
<1>2. ASSUME NEW r \in Runs, Resume(r) PROVE JobStarted
    BY <1>2 DEF Resume, MayResume, JobStarted
<1>3. ASSUME NEW r \in Runs, SubmitStep(r), ~CreateJob(r), ~MarkRunning(r) PROVE Busy
    BY <1>3 DEF SubmitStep, PersistBlock, BeginRun
<1>4. ASSUME NEW r \in Runs, AssignStep(r) PROVE Busy
    BY <1>4 DEF AssignStep, AssignRemote, AssignLocal, SkipLocal, EchoAssign, SendWork,
                SendConfirmed, SendFailed, FinishLocal, FailLocal, EndLocal, EndAssign
<1>5. ASSUME NEW r \in Runs, MonitorStep(r) PROVE Busy
    BY <1>5 DEF MonitorStep, PollDone, PollTimedOut, Reclaim, SkipReclaim, EchoFail,
                Reassign, EndReclaim
<1>6. ASSUME NEW r \in Runs, AssembleStep(r) PROVE Busy
    BY <1>6 DEF AssembleStep, Assemble, AssembleFails, MarkComplete, EchoComplete, Announce
<1>7. held \cup {m.task : m \in results} # {} => Executions # {}
    BY DEF Executions
<1>8. ASSUME NEW b \in Blocks, LeaseExpires(b) PROVE Quiet
    BY <1>8 DEF LeaseExpires, network, Quiet
<1>9. CASE UNCHANGED vars
    BY <1>9 DEF vars, database, network, Quiet
<1>10. CASE Environment
    BY <1>1, <1>7, <1>8, <1>10 DEF Environment
<1> HIDE DEF Busy
<1> QED BY <1>1, <1>2, <1>3, <1>4, <1>5, <1>6, <1>9, <1>10 DEF Next, RunStep

(* Nothing goes back to submit_job, and a started job stays started.        *)
LEMMA StagesForward ==
    ASSUME TypeOK, [Next]_vars
    PROVE  \/ \E r \in Runs : CreateJob(r)
           \/ /\ \A s \in Runs : pc'[s] \in {"idle", "start"} => pc'[s] = pc[s]
              /\ JobStarted => JobStarted'
<1> DEFINE Goal == /\ \A s \in Runs : pc'[s] \in {"idle", "start"} => pc'[s] = pc[s]
                   /\ JobStarted => JobStarted'
<1>1. pc \in [Runs -> Stage] /\ job \in [status: JobStatus, coordinator_id: Nodes \cup {Null}]
    BY DEF TypeOK
<1> USE <1>1 DEF Goto, database, JobStarted
<1>2. CASE UNCHANGED <<job, pc>>
    BY <1>2
<1>3. ASSUME NEW r \in Runs, NEW stage, stage \notin {"idle", "start"}, Goto(r, stage),
             job'.status = job.status \/ job'.status \in {"running", "complete", "failed"}
      PROVE  Goal
    BY <1>3
<1>4. ASSUME NEW new \in {"running", "complete", "failed"}, SetStatus(new)
      PROVE  job'.status = job.status \/ job'.status \in {"running", "complete", "failed"}
    BY <1>4 DEF SetStatus, UpdateJobStatus
<1>5. ASSUME NEW r \in Runs, MarkRunning(r) \/ MarkComplete(r) \/ AssembleFails(r) PROVE Goal
    BY <1>3, <1>4, <1>5 DEF MarkRunning, MarkComplete, AssembleFails
<1>6. ASSUME NEW r \in Runs, Resume(r) PROVE Goal
    BY <1>6 DEF Resume
<1>7. ASSUME NEW r \in Runs,
             \/ BeginRun(r) \/ SendWork(r) \/ SendConfirmed(r) \/ SendFailed(r)
             \/ EndAssign(r) \/ PollDone(r) \/ PollTimedOut(r) \/ EndReclaim(r)
             \/ Assemble(r) \/ Announce(r)
      PROVE  Goal
    BY <1>3, <1>7
       DEF BeginRun, SendWork, SendConfirmed, SendFailed, EndAssign, PollDone, PollTimedOut,
           EndReclaim, Assemble, Announce
<1>8. ASSUME NEW r \in Runs, NEW b \in Blocks, NEW w \in Members, AssignRemote(r, b, w)
      PROVE  Goal
    BY <1>3, <1>8 DEF AssignRemote
<1>9. ASSUME NEW r \in Runs, NEW b \in Blocks,
             AssignLocal(r, b) \/ Reassign(r, b) \/ Reclaim(r, b)
      PROVE  Goal
    BY <1>3, <1>9 DEF AssignLocal, Reassign, TakeLocal, Reclaim
<1>10. ASSUME NEW r \in Runs, FinishLocal(r) \/ FailLocal(r) PROVE Goal
    BY <1>3, <1>10 DEF FinishLocal, FailLocal, EndLocal
<1>11. ASSUME NEW r \in Runs, EchoComplete(r) PROVE Goal
    BY <1>11 DEF EchoComplete, SyncJobStatus
<1>12. ASSUME NEW n \in Nodes, Crash(n) PROVE Goal
  <2>1. \A s \in Runs : pc'[s] = "down" \/ pc'[s] = pc[s]
    BY <1>12 DEF Crash
  <2> QED BY <1>12, <2>1 DEF Crash
<1> QED
    BY <1>2, <1>5, <1>6, <1>7, <1>8, <1>9, <1>10, <1>11, <1>12
       DEF Next, RunStep, SubmitStep, AssignStep, MonitorStep, AssembleStep, Environment,
           PersistBlock, SkipLocal, EchoAssign, SkipReclaim, EchoFail, NodeFinish,
           BrowserFinish, WorkerLoses, DeliverResult, LoseResult, LeaseExpires, vars

LEMMA StatusStep == TypeOK /\ StatusInv /\ [Next]_vars => StatusInv'
<1> SUFFICES ASSUME TypeOK, StatusInv, [Next]_vars PROVE StatusInv'
    OBVIOUS
<1>1. pc \in [Runs -> Stage] /\ FirstRun \in Runs
    BY RunsAssumption DEF TypeOK
<1>2. ASSUME NEW r \in Runs, CreateJob(r) PROVE StatusInv'
  <2>1. job.status = "absent" /\ r = FirstRun
    BY <1>2 DEF CreateJob, StatusInv
  <2> QED BY <1>1, <1>2, <2>1 DEF CreateJob, Goto, StatusInv, JobStarted, Executions, network
<1>3. ASSUME NEW r \in Runs, MarkRunning(r) PROVE StatusInv'
  <2>1. job.status = "pending" /\ r = FirstRun
    BY <1>3 DEF MarkRunning, StatusInv
  <2>2. job'.status = "running"
    BY <1>3, <2>1
       DEF MarkRunning, SetStatus, UpdateJobStatus, JobTransitions, JobStatus, TypeOK
  <2> QED BY <1>1, <1>3, <2>1, <2>2 DEF MarkRunning, Goto, StatusInv, JobStarted
<1>4. ASSUME ~(\E r \in Runs : CreateJob(r)), JobStarted PROVE StatusInv'
  <2>1. JobStarted' /\ \A s \in Runs : pc'[s] \in {"idle", "start"} => pc'[s] = pc[s]
    BY <1>4, StagesForward
  <2>2. pc[FirstRun] # "idle" /\ \A s \in Runs : pc[s] # "start"
    BY <1>4 DEF StatusInv, JobStarted
  <2> QED BY <1>1, <2>1, <2>2 DEF StatusInv
<1>5. ASSUME NEW n \in Nodes, Crash(n), ~JobStarted PROVE StatusInv'
  <2>1. \A s \in Runs : pc'[s] = "down" \/ pc'[s] = pc[s]
    BY <1>5 DEF Crash
  <2>2. Executions' = {}
    BY <1>5 DEF Crash, Executions, StatusInv
  <2> QED BY <1>1, <1>5, <2>1, <2>2 DEF Crash, StatusInv, JobStarted, database
<1>6. CASE Quiet
    BY <1>6 DEF Quiet, StatusInv, JobStarted, Executions
<1> QED BY <1>2, <1>3, <1>4, <1>5, <1>6, StartedSteps

LEMMA JobInvAlways == Spec => []JobInv
<1>1. Init => JobInv
    BY RunsAssumption DEF Init, JobInv, StatusInv, JobStarted, FailuresRaised, Executions
<1>2. TypeOK /\ JobInv /\ [Next]_vars => JobInv'
    BY FailuresStep, StatusStep DEF JobInv
<1> QED BY <1>1, <1>2, TypeCorrect, PTL DEF Spec
-----------------------------------------------------------------------------
(* The products in the database.                                            *)

LEMMA SamePartials ==
    ASSUME \A c \in Blocks : blk'[c].partial = blk[c].partial
    PROVE  Stored' = Stored
BY DEF Stored

(* A product is added only for an execution, with the job left alone.       *)
Adds == /\ UNCHANGED <<job, answer>>
        /\ \E b \in Blocks : Stored' = Stored \cup {b}

LEMMA CompleteAdds ==
    ASSUME TypeOK, NEW b \in Blocks, NEW a \in Int, NEW w \in Members,
           blk' = [blk EXCEPT ![b] = CompleteBlock(@, a, w)], UNCHANGED <<job, answer>>
    PROVE  Stored' = Stored \/ Adds
<1>1. CASE blk'[b].partial = blk[b].partial
    BY <1>1, SamePartials DEF TypeOK
<1>2. CASE blk'[b].partial = w
    BY <1>2 DEF Stored, Adds, TypeOK
<1>3. blk'[b].partial = blk[b].partial \/ blk'[b].partial = w
    BY DEF CompleteBlock, TypeOK, BlockRow
<1> QED BY <1>1, <1>2, <1>3

LEMMA StoredSteps ==
    ASSUME TypeOK, FailuresRaised, Flaky = {}, [Next]_vars
    PROVE  Stored' = Stored \/ (Executions # {} /\ Adds)
<1> DEFINE Goal == Stored' = Stored \/ (Executions # {} /\ Adds)
           Kept == \A c \in Blocks : blk'[c].partial = blk[c].partial
<1>1. blk \in [Blocks -> BlockRow]
    BY DEF TypeOK
<1>2. CASE UNCHANGED blk
    BY <1>2 DEF Stored
<1>3. ASSUME NEW r \in Runs, NEW b \in Blocks, PersistBlock(r, b) PROVE Kept
    BY <1>1, <1>3 DEF PersistBlock, CreateBlock, BlockRow
<1>4. ASSUME NEW r \in Runs, Resume(r) PROVE Kept
    BY <1>1, <1>4 DEF Resume, FailBlock, BlockRow
<1>5. ASSUME NEW b \in Blocks, blk' = [blk EXCEPT ![b] = FailBlock(@)] PROVE Kept
    BY <1>1, <1>5 DEF FailBlock, BlockRow
<1>6. ASSUME NEW b \in Blocks, NEW w, blk' = [blk EXCEPT ![b] = AssignBlock(@, w)] PROVE Kept
    BY <1>1, <1>6 DEF AssignBlock, BlockRow
<1>7. ASSUME NEW r \in Runs, NEW b \in Blocks, NEW w \in Members, AssignRemote(r, b, w)
      PROVE  Kept
    BY <1>6, <1>7 DEF AssignRemote
<1>8. ASSUME NEW r \in Runs, NEW b \in Blocks, AssignLocal(r, b) \/ Reassign(r, b) PROVE Kept
    BY <1>6, <1>8 DEF AssignLocal, Reassign, TakeLocal
<1>9. ASSUME NEW r \in Runs, EchoAssign(r) PROVE Kept
    BY <1>6, <1>9 DEF EchoAssign, TypeOK, Task
<1>10. ASSUME NEW r \in Runs, SendFailed(r) PROVE Kept
    BY <1>5, <1>10 DEF SendFailed, TypeOK, Task
<1>11. ASSUME NEW r \in Runs, FailLocal(r) PROVE Kept
    BY <1>5, <1>11 DEF FailLocal, TypeOK, Task
<1>12. ASSUME NEW r \in Runs, NEW b \in Blocks, Reclaim(r, b) PROVE Kept
    BY <1>5, <1>12 DEF Reclaim
<1>13. ASSUME NEW r \in Runs, EchoFail(r) PROVE Kept
    BY <1>5, <1>13 DEF EchoFail, TypeOK
<1>14. ASSUME NEW b \in Blocks, LeaseExpires(b) PROVE Kept
    BY <1>1, <1>14 DEF LeaseExpires, BlockRow
<1>15. ASSUME NEW r \in Runs, FinishLocal(r) PROVE Goal
  <2> PICK t \in doing[r] : /\ EndLocal(r, t)
                            /\ blk' = [blk EXCEPT ![t.block] =
                                           CompleteBlock(@, t.attempt, t.worker)]
    BY <1>15 DEF FinishLocal
  <2>1. t \in Executions /\ t.block \in Blocks /\ t.attempt \in Int /\ t.worker \in Members
    BY DEF Executions, TypeOK, Task
  <2> QED BY <2>1, CompleteAdds DEF EndLocal
<1>16. ASSUME NEW m \in results, DeliverResult(m) PROVE Goal
  <2>1. m.task \in Executions /\ m.task.block \in Blocks /\ m.task.attempt \in Int
        /\ m.task.worker \in Members /\ ~m.failed
    BY DEF Executions, TypeOK, Result, Task, FailuresRaised
  <2>2. AttemptIn(m) = m.task.attempt /\ PartialIn(m) = m.task.worker
    BY <2>1 DEF AttemptIn, PartialIn
  <2> QED BY <1>16, <2>1, <2>2, CompleteAdds DEF DeliverResult
<1>17. CASE Kept
    BY <1>17, SamePartials
<1> HIDE DEF Kept
<1> QED
    BY <1>2, <1>3, <1>4, <1>7, <1>8, <1>9, <1>10, <1>11, <1>12, <1>13, <1>14,
       <1>15, <1>16, <1>17
       DEF Next, RunStep, SubmitStep, AssignStep, MonitorStep, AssembleStep, Environment,
           CreateJob, MarkRunning, BeginRun, SkipLocal, SendWork, SendConfirmed, EndAssign,
           PollDone, PollTimedOut, SkipReclaim, EndReclaim, Assemble, AssembleFails,
           MarkComplete, EchoComplete, Announce, NodeFinish, BrowserFinish, WorkerLoses,
           LoseResult, Crash, database, vars

-----------------------------------------------------------------------------
(* The refinement.                                                          *)

(* A step outside submit_job and the assembly leaves status and result.     *)
LEMMA OtherSteps ==
    ASSUME TypeOK, Mirrors = {}, [Next]_vars
    PROVE  \/ \E r \in Runs : \/ CreateJob(r) \/ MarkRunning(r) \/ Assemble(r)
                              \/ AssembleFails(r) \/ MarkComplete(r)
           \/ job'.status = job.status /\ answer' = answer
BY DEF Next, RunStep, SubmitStep, AssignStep, MonitorStep, AssembleStep, Environment,
       PersistBlock, BeginRun, Resume, AssignRemote, AssignLocal, SkipLocal, TakeLocal,
       EchoAssign, SendWork, SendConfirmed, SendFailed, FinishLocal, FailLocal, EndLocal,
       EndAssign, PollDone, PollTimedOut, Reclaim, SkipReclaim, EchoFail, Reassign,
       EndReclaim, EchoComplete, Announce, NodeFinish, BrowserFinish, WorkerLoses,
       DeliverResult, LoseResult, LeaseExpires, Crash, TypeOK, database, vars

LEMMA InitImplements == Init => Job!Init
BY NullAssumption DEF Init, Job!Init, Stored, AnswerStored, AbsentRow

LEMMA StepImplements ==
    ASSUME TypeOK, AnswerInv, JobInv, Flaky = {}, Mirrors = {}, [Next]_vars
    PROVE  [Job!Next]_(Job!vars)
<1> USE DEF Job!Next, Job!Submit, Job!Start, Job!Compute, Job!StoreResult, Job!Finish,
            Job!Fail, Job!vars
<1>1. job \in [status: JobStatus, coordinator_id: Nodes \cup {Null}]
    BY DEF TypeOK
<1>2. UNCHANGED blk => Stored' = Stored
    BY DEF Stored
<1>3. UNCHANGED answer => AnswerStored' = AnswerStored
    BY DEF AnswerStored
<1>4. ASSUME NEW r \in Runs, CreateJob(r) PROVE Job!Submit
  <2>1. job.status = "absent"
    BY <1>4 DEF CreateJob, JobInv, StatusInv
  <2> QED BY <1>2, <1>3, <1>4, <2>1 DEF CreateJob
<1>5. ASSUME NEW r \in Runs, MarkRunning(r) PROVE Job!Start
  <2>1. job.status = "pending"
    BY <1>5 DEF MarkRunning, JobInv, StatusInv
  <2>2. job'.status = "running"
    BY <1>1, <1>5, <2>1
       DEF MarkRunning, SetStatus, UpdateJobStatus, JobTransitions, JobStatus
  <2> QED BY <1>2, <1>3, <1>5, <2>1, <2>2 DEF MarkRunning
<1>6. ASSUME NEW r \in Runs, Assemble(r) PROVE Job!StoreResult
  <2>1. /\ DOMAIN answer' = Blocks /\ Blocks # {}
        /\ \A b \in Blocks : blk[b].partial \in Members
    BY <1>6, AssembleWhole DEF AnswerInv
  <2>2. Stored = Blocks /\ AnswerStored' = TRUE
    BY <2>1 DEF Stored, AnswerStored
  <2> QED BY <1>2, <1>6, <2>2 DEF Assemble
<1>7. ASSUME NEW r \in Runs, pc[r] = "assemble" \/ pc[r] = "mark"
      PROVE  job.status \in {"running", "complete", "failed"}
    BY <1>1, <1>7 DEF JobInv, StatusInv, JobStarted, JobStatus
<1>8. ASSUME NEW r \in Runs, AssembleFails(r) PROVE [Job!Next]_(Job!vars)
  <2>1. (job.status = "running" /\ job'.status = "failed") \/ job'.status = job.status
    BY <1>1, <1>7, <1>8
       DEF AssembleFails, SetStatus, UpdateJobStatus, JobTransitions, JobStatus
  <2> QED BY <1>2, <1>3, <1>8, <2>1 DEF AssembleFails
<1>9. ASSUME NEW r \in Runs, MarkComplete(r) PROVE [Job!Next]_(Job!vars)
  <2>1. AnswerStored
    BY <1>9 DEF MarkComplete, AnswerInv, StoredFirst
  <2>2. (job.status = "running" /\ job'.status = "complete") \/ job'.status = job.status
    BY <1>1, <1>7, <1>9
       DEF MarkComplete, SetStatus, UpdateJobStatus, JobTransitions, JobStatus
  <2> QED BY <1>2, <1>3, <1>9, <2>1, <2>2 DEF MarkComplete
<1>10. CASE job'.status = job.status /\ answer' = answer
  <2>1. CASE Stored' = Stored
    BY <1>3, <1>10, <2>1
  <2>2. CASE Executions # {} /\ Adds
    <3>1. job.status \notin {"absent", "pending"}
      BY <2>2 DEF JobInv, StatusInv, JobStarted
    <3>2. Job!Compute
      BY <1>3, <1>10, <2>2, <3>1 DEF Adds
    <3> QED BY <3>2
  <2> QED BY <2>1, <2>2, StoredSteps DEF JobInv
<1> QED BY <1>4, <1>5, <1>6, <1>8, <1>9, <1>10, OtherSteps

\* The runs implement the abstract job for any number of blocks, members,
\* coordinators and crashes: products accumulate, the result has all of them,
\* COMPLETE follows the result and is final.
THEOREM JobIsImplemented ==
    ASSUME Flaky = {}, Mirrors = {}
    PROVE  Spec => ImplementsMatrixJob
<1>1. TypeOK /\ AnswerInv /\ JobInv /\ [Next]_vars => [Job!Next]_(Job!vars)
    BY StepImplements
<1> QED BY <1>1, InitImplements, TypeCorrect, AnswerAlways, JobInvAlways, PTL
        DEF Spec, ImplementsMatrixJob, Job!Spec
=============================================================================
