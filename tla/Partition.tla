----------------------------- MODULE Partition -----------------------------
(***************************************************************************)
(* How submit_job splits the rows of A into row-blocks and                 *)
(* _assign_all_blocks deals the blocks out to the workers, round robin.    *)
(***************************************************************************)
EXTENDS Integers, Sequences

CONSTANTS
    Dimensions,  \* MIN_DIM..MAX_DIM, the row counts submit_job accepts
    MaxPeers     \* bound: the other members known when the job is submitted

ASSUME DimensionsAssumption == Dimensions \subseteq Nat \ {0}
ASSUME MaxPeersAssumption == MaxPeers \in Nat

VARIABLES
    rows_A,  \* rows of A
    peers,   \* number of workers, without the submitting node
    row,     \* the loop's next row
    blocks,  \* the row-blocks, in order
    owner,   \* the worker each block was offered to so far, Self for the coordinator
    cursor   \* where worker_iter stands

vars == <<rows_A, peers, row, blocks, owner, cursor>>

Self == 0
num_workers == peers + 1

Lesser(m, n) == IF m <= n THEN m ELSE n

\* math.ceil(rows_A / num_workers), at least 1.
block_size == (rows_A + num_workers - 1) \div num_workers

Block == [row_start: Nat, row_end: Nat]

Init ==
    /\ rows_A \in Dimensions
    /\ peers \in 0..MaxPeers
    /\ row = 0
    /\ blocks = <<>>
    /\ owner = <<>>
    /\ cursor = 1

\* Mutant: blocks include the row they end at.
SplitBlockOverlap ==
    /\ row < rows_A
    /\ blocks' = Append(blocks, [row_start |-> row,
                                 row_end   |-> Lesser(row + block_size + 1, rows_A)])
    /\ row' = row + block_size
    /\ UNCHANGED <<rows_A, peers, owner, cursor>>

\* Mutant: the loop runs once more when the blocks come out even.
SplitBlockPastEnd ==
    /\ row <= rows_A
    /\ blocks' = Append(blocks, [row_start |-> row,
                                 row_end   |-> Lesser(row + block_size, rows_A)])
    /\ row' = row + block_size
    /\ UNCHANGED <<rows_A, peers, owner, cursor>>

\* Mutant: the block size is rounded down.
SplitBlockFloor ==
    /\ row < rows_A
    /\ LET size == IF rows_A < num_workers THEN 1 ELSE rows_A \div num_workers
       IN  /\ blocks' = Append(blocks, [row_start |-> row,
                                        row_end   |-> Lesser(row + size, rows_A)])
           /\ row' = row + size
    /\ UNCHANGED <<rows_A, peers, owner, cursor>>

\* One turn of the while loop.
SplitBlock ==
    /\ row < rows_A
    /\ blocks' = Append(blocks, [row_start |-> row,
                                 row_end   |-> Lesser(row + block_size, rows_A)])
    /\ row' = row + block_size
    /\ UNCHANGED <<rows_A, peers, owner, cursor>>

Split == row >= rows_A

\* Mutant: the exhausted iterator is not made anew.
DealBlockOnce ==
    /\ Split /\ Len(owner) < Len(blocks)
    /\ owner' = Append(owner, IF peers = 0 THEN Self ELSE cursor)
    /\ cursor' = cursor + 1
    /\ UNCHANGED <<rows_A, peers, row, blocks>>

\* Mutant: the iterator is made anew for every block.
DealBlockFirst ==
    /\ Split /\ Len(owner) < Len(blocks)
    /\ owner' = Append(owner, IF peers = 0 THEN Self ELSE 1)
    /\ UNCHANGED <<rows_A, peers, row, blocks, cursor>>

\* next(worker_iter), from the start again when it is exhausted; without workers
\* the block is the coordinator's.
DealBlock ==
    /\ Split /\ Len(owner) < Len(blocks)
    /\ LET next == IF cursor <= peers THEN cursor ELSE 1
       IN  IF peers = 0
           THEN owner' = Append(owner, Self) /\ UNCHANGED cursor
           ELSE owner' = Append(owner, next) /\ cursor' = next + 1
    /\ UNCHANGED <<rows_A, peers, row, blocks>>

Next == SplitBlock \/ DealBlock

Spec == Init /\ [][Next]_vars

-----------------------------------------------------------------------------
(* Properties.                                                              *)

Covers(k, i) == blocks[k].row_start <= i /\ i < blocks[k].row_end

\* The loop's variables and the deal's have their types.
TypeOK ==
    /\ rows_A \in Dimensions
    /\ peers \in 0..MaxPeers
    /\ row \in Nat
    /\ blocks \in Seq(Block)
    /\ owner \in Seq(0..peers)
    /\ cursor \in 1..(peers + 1)

\* Every row of A is in one block and in no other, so the assembled matrix has
\* each row once: no row is lost when rows_A is not a multiple of num_workers,
\* none computed twice where the last block is cut.
RowsCoveredOnce ==
    Split => \A i \in 0..(rows_A - 1) :
                 \E k \in DOMAIN blocks :
                     /\ Covers(k, i)
                     /\ \A l \in DOMAIN blocks \ {k} : ~Covers(l, i)

\* No block is empty: validate_assignment and worker.js refuse an A_block without
\* rows, and such a block could never be done.
NoBlockIsEmpty ==
    \A k \in DOMAIN blocks : blocks[k].row_start < blocks[k].row_end

\* There are at most as many blocks as members.
NoMoreBlocksThanMembers == Len(blocks) <= num_workers

\* A worker is dealt at most one block more than any other.
DealIsEven ==
    \A v, w \in 1..peers :
        LET share(x) == {k \in DOMAIN owner : owner[k] = x}
        IN  (\E k, l \in share(v) : k # l) => share(w) # {}
=============================================================================
