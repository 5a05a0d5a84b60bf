-------------------------- MODULE SharedFileProofs --------------------------
(***************************************************************************)
(* What holds of several processes on one database file, for any number of *)
(* them and any interleaving of their statements.                          *)
(***************************************************************************)
EXTENDS SharedFile, TLAPS

Where == {"assign", "assigning", "computing", "completing", "poll", "reclaim", "verify",
          "collect", "store", "finish", "finishing", "over"}

Types ==
    /\ row \in BlockRow /\ row.status # "absent"
    /\ pc \in [Procs -> Where]
    /\ read \in [Procs -> Nat] /\ lease \in [Procs -> Nat]

LEMMA TypesInit == Init => Types
BY DEF Init, Types, Where, CreateBlock, AbsentRow, BlockRow, BlockStatus, AssignedAt

(* What FailBlock and the two UPDATEs leave of a row.                       *)
LEMMA FailedRow ==
    ASSUME NEW r \in BlockRow, r.status # "absent"
    PROVE  /\ FailBlock(r) \in BlockRow /\ FailBlock(r).status \notin {"absent", "assigned"}
           /\ FailBlock(r).partial = r.partial
BY DEF FailBlock, BlockRow, BlockStatus, AssignedAt

LEMMA AssignedRow ==
    ASSUME Types, NEW p \in Procs, UpdateAttempt(p)
    PROVE  /\ row' \in BlockRow /\ row'.status = "assigned" /\ row'.worker_id = p
           /\ row'.attempt_id = lease'[p] /\ lease' \in [Procs -> Nat]
           /\ row'.partial = row.partial
<1>1. read[p] + 1 \in Nat /\ p \in Members
    BY DEF Types, Procs, Members
<1> QED BY <1>1 DEF UpdateAttempt, Types, BlockRow, BlockStatus, AssignedAt

LEMMA DoneRow ==
    ASSUME Types, NEW p \in Procs, UpdateDone(p)
    PROVE  row' \in BlockRow /\ row'.status = "done" /\ row'.partial = p
BY DEF UpdateDone, Types, BlockRow, BlockStatus, Procs, Members

LEMMA OverdueRow ==
    ASSUME Types, LeaseExpires
    PROVE  /\ row' \in BlockRow /\ row'.partial = row.partial
           /\ row'.status = row.status /\ row'.worker_id = row.worker_id
           /\ row'.attempt_id = row.attempt_id
BY DEF LeaseExpires, Types, BlockRow, AssignedAt

(* The steps of a process that leave the row alone.                         *)
ReadStep(p) ==
    \/ SelectAttempt(p) \/ SelectLease(p) \/ PollDone(p) \/ PollTimedOut(p)
    \/ Verify(p) \/ Collect(p) \/ Store(p) \/ SelectStatus(p) \/ UpdateStatus(p)

LEMMA Steps ==
    ASSUME [Next]_vars
    PROVE  \/ UNCHANGED vars \/ LeaseExpires
           \/ \E p \in Procs : \/ UpdateAttempt(p) \/ UpdateDone(p)
                               \/ ComputeFails(p) \/ Reclaim(p) \/ ReadStep(p)
BY DEF Next, ReadStep

LEMMA TypesStep == Types /\ [Next]_vars => Types'
<1> SUFFICES ASSUME Types, [Next]_vars PROVE Types'
    OBVIOUS
<1>t. /\ row \in BlockRow /\ row.status # "absent" /\ pc \in [Procs -> Where]
      /\ read \in [Procs -> Nat] /\ lease \in [Procs -> Nat]
    BY DEF Types
<1>1. CASE UNCHANGED vars
    BY <1>t, <1>1 DEF vars, Types
<1>2. CASE LeaseExpires
    BY <1>t, <1>2, OverdueRow DEF LeaseExpires, Types
<1>3. ASSUME NEW p \in Procs, UpdateAttempt(p) PROVE Types'
  <2>1. pc' \in [Procs -> Where] /\ read' = read
    BY <1>t, <1>3 DEF UpdateAttempt, Goto, Where
  <2> QED BY <1>t, <1>3, <2>1, AssignedRow DEF Types
<1>4. ASSUME NEW p \in Procs, UpdateDone(p) PROVE Types'
  <2>1. pc' \in [Procs -> Where] /\ UNCHANGED <<read, lease>>
    BY <1>t, <1>4 DEF UpdateDone, Goto, Where
  <2> QED BY <1>t, <1>4, <2>1, DoneRow DEF Types
<1>5. ASSUME NEW p \in Procs, ComputeFails(p) \/ Reclaim(p) PROVE Types'
  <2>1. /\ pc' \in [Procs -> Where] /\ UNCHANGED <<read, lease>>
        /\ row' = FailBlock(row)
    BY <1>t, <1>5 DEF ComputeFails, Reclaim, Goto, Where
  <2> QED BY <1>t, <2>1, FailedRow DEF Types
<1>6. ASSUME NEW p \in Procs, ReadStep(p) PROVE Types'
  <2>1. row.attempt_id \in Nat
    BY <1>t DEF BlockRow
  <2>2. pc' \in [Procs -> Where] /\ UNCHANGED <<row, lease>> /\ read' \in [Procs -> Nat]
    BY <1>t, <1>6, <2>1
       DEF ReadStep, SelectAttempt, SelectLease, PollDone, PollTimedOut, Verify, Collect,
           Store, SelectStatus, UpdateStatus, Goto, Where
  <2> QED BY <1>t, <2>2 DEF Types
<1> QED BY <1>1, <1>2, <1>3, <1>4, <1>5, <1>6, Steps

\* The row of the block stays a row of the table, and what a process remembers
\* between two statements keeps its type (storage.py's methods).
THEOREM SharedFileTyped == Spec => []Types
BY TypesInit, TypesStep, PTL DEF Spec

-----------------------------------------------------------------------------

LEMMA HolderStep == Types /\ HolderIsAtWork /\ [Next]_vars => HolderIsAtWork'
<1> SUFFICES ASSUME Types, HolderIsAtWork, [Next]_vars PROVE HolderIsAtWork'
    OBVIOUS
<1>t. /\ row \in BlockRow /\ row.status # "absent" /\ pc \in [Procs -> Where]
      /\ read \in [Procs -> Nat] /\ lease \in [Procs -> Nat]
    BY DEF Types
<1>1. CASE UNCHANGED vars
    BY <1>1 DEF vars, HolderIsAtWork
<1>2. CASE LeaseExpires
    BY <1>2, OverdueRow DEF LeaseExpires, HolderIsAtWork
<1>3. ASSUME NEW p \in Procs, UpdateAttempt(p) PROVE HolderIsAtWork'
  <2>1. pc'[p] = "computing"
    BY <1>t, <1>3 DEF UpdateAttempt, Goto
  <2> QED BY <1>3, <2>1, AssignedRow DEF HolderIsAtWork
<1>4. ASSUME NEW p \in Procs, UpdateDone(p) PROVE HolderIsAtWork'
    BY <1>4, DoneRow DEF HolderIsAtWork
<1>5. ASSUME NEW p \in Procs, ComputeFails(p) \/ Reclaim(p) PROVE HolderIsAtWork'
    BY <1>t, <1>5, FailedRow DEF ComputeFails, Reclaim, HolderIsAtWork
<1>6. ASSUME NEW p \in Procs, ReadStep(p), row'.status = "assigned"
      PROVE  /\ row'.worker_id \in Procs
             /\ lease'[row'.worker_id] = row'.attempt_id
             /\ pc'[row'.worker_id] \in {"computing", "completing"}
  <2>1. row' = row /\ lease' = lease
    BY <1>6
       DEF ReadStep, SelectAttempt, SelectLease, PollDone, PollTimedOut, Verify, Collect,
           Store, SelectStatus, UpdateStatus
  <2> DEFINE w == row.worker_id
  <2>2. /\ w \in Procs /\ lease[w] = row.attempt_id
        /\ pc[w] \in {"computing", "completing"}
    BY <1>6, <2>1 DEF HolderIsAtWork
  <2>3. CASE p = w
    <3>1. SelectLease(w)
      BY <1>6, <2>2, <2>3
         DEF ReadStep, SelectAttempt, PollDone, PollTimedOut, Verify, Collect, Store,
             SelectStatus, UpdateStatus
    <3>2. Accepts(row, lease[w])
      BY <1>6, <2>1, <2>2 DEF Accepts
    <3>3. pc'[w] = "completing"
      BY <1>t, <1>6, <2>1, <2>2, <3>1, <3>2 DEF SelectLease, Goto
    <3> QED BY <2>1, <2>2, <3>3
  <2>4. CASE p # w
    <3>1. pc'[w] = pc[w]
      BY <1>t, <1>6, <2>2, <2>4
         DEF ReadStep, SelectAttempt, SelectLease, PollDone, PollTimedOut, Verify, Collect,
             Store, SelectStatus, UpdateStatus, Goto
    <3> QED BY <2>1, <2>2, <3>1
  <2> QED BY <2>3, <2>4
<1> QED BY <1>1, <1>2, <1>3, <1>4, <1>5, <1>6, Steps DEF HolderIsAtWork

\* assign_block's UPDATE writes the worker with the attempt it computed, so the
\* process an assigned row names holds the lease the row has, though two SELECTs may
\* have read one attempt, and its result is not rejected.
THEOREM HoldersAreAtWork == Spec => []HolderIsAtWork
<1>1. Init => HolderIsAtWork
    BY DEF Init, HolderIsAtWork, CreateBlock, AbsentRow
<1> QED BY <1>1, HolderStep, SharedFileTyped, PTL DEF Spec

\* No statement of any process takes a product out of the row: complete_block is the
\* only one that names partial_result.
THEOREM ProductsStay == Spec => ProductStays
<1>1. ASSUME Types, [Next]_vars PROVE row.partial # Null => row'.partial # Null
  <2>1. CASE UNCHANGED vars
    BY <2>1 DEF vars
  <2>2. CASE LeaseExpires
    BY <1>1, <2>2, OverdueRow
  <2>3. ASSUME NEW p \in Procs, UpdateAttempt(p) PROVE row'.partial = row.partial
    BY <1>1, <2>3, AssignedRow
  <2>4. ASSUME NEW p \in Procs, UpdateDone(p) PROVE row'.partial # Null
    BY <1>1, <2>4, DoneRow, NullAssumption DEF Procs, Members
  <2>5. ASSUME NEW p \in Procs, ComputeFails(p) \/ Reclaim(p) PROVE row'.partial = row.partial
    BY <1>1, <2>5, FailedRow DEF ComputeFails, Reclaim, Types
  <2>6. ASSUME NEW p \in Procs, ReadStep(p) PROVE row'.partial = row.partial
    BY <2>6
       DEF ReadStep, SelectAttempt, SelectLease, PollDone, PollTimedOut, Verify, Collect,
           Store, SelectStatus, UpdateStatus
  <2> QED BY <1>1, <2>1, <2>2, <2>3, <2>4, <2>5, <2>6, Steps
<1>2. Types /\ [Next]_vars => [row.partial # Null => row'.partial # Null]_vars
    BY <1>1
<1> QED BY <1>2, SharedFileTyped, PTL DEF Spec, ProductStays
=============================================================================
