----------------------------- MODULE MatrixJob -----------------------------
(***************************************************************************)
(* What the system promises of one job, whoever coordinates it: products   *)
(* of row-blocks accumulate and are never lost, the result is assembled    *)
(* only from the products of all blocks, and the job is COMPLETE, finally, *)
(* only once its result is stored.  Coordinator implements it.             *)
(***************************************************************************)
CONSTANTS Blocks

VARIABLES
    status,  \* of the job, as GET /jobs/{job_id} shows it
    stored,  \* blocks whose product is in the database
    result   \* whether the result matrix is in the database

vars == <<status, stored, result>>

Init == status = "absent" /\ stored = {} /\ result = FALSE

\* The job is submitted and started.
Submit == status = "absent"  /\ status' = "pending" /\ UNCHANGED <<stored, result>>
Start  == status = "pending" /\ status' = "running" /\ UNCHANGED <<stored, result>>

\* A product of a block arrives.
Compute == /\ status \notin {"absent", "pending"}
           /\ \E b \in Blocks : stored' = stored \cup {b}
           /\ UNCHANGED <<status, result>>

\* The matrix is assembled from all products.
StoreResult == /\ stored = Blocks
               /\ result' = TRUE
               /\ UNCHANGED <<status, stored>>

\* A result makes a running job complete; a failed job stays failed.
Finish == /\ status = "running" /\ result
          /\ status' = "complete"
          /\ UNCHANGED <<stored, result>>

Fail == /\ status = "running"
        /\ status' = "failed"
        /\ UNCHANGED <<stored, result>>

Next == Submit \/ Start \/ Compute \/ StoreResult \/ Finish \/ Fail

Spec == Init /\ [][Next]_vars
=============================================================================
