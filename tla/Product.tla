------------------------------ MODULE Product ------------------------------
(***************************************************************************)
(* The data of one job: the split of A and the deal of its blocks          *)
(* (Partition), multiply_block on each block in whatever order the workers *)
(* finish, and the assembly of C.                                          *)
(* Entries are integers: floating-point rounding is not modelled.          *)
(***************************************************************************)
EXTENDS Partition, FiniteSets, SequencesExt

CONSTANTS
    RightMatrices,  \* the matrices B a job may have
    LeftRows(_)     \* the rows A may have, given B

\* B is rectangular and has a row for each column of A: submit_job checks the
\* latter, and validate_assignment refuses rows of unequal length.
ASSUME MatricesAssumption ==
    \A M \in RightMatrices :
        /\ M \in Seq(Seq(Int)) /\ M # <<>>
        /\ \A p \in DOMAIN M : DOMAIN M[p] = DOMAIN M[1]
        /\ LeftRows(M) \subseteq [DOMAIN M -> Int]

VARIABLES
    A, B,
    partial,  \* the partial products in the database: from block number to matrix
    C         \* the stored result, <<>> before

data == <<A, B, partial, C>>

InitData ==
    /\ Init
    /\ B \in RightMatrices
    /\ A \in [1..rows_A -> LeftRows(B)]
    /\ partial = [k \in {} |-> <<>>]
    /\ C = <<>>

\* A[row_start:row_end].
Slice(M, b) == SubSeq(M, b.row_start + 1, b.row_end)

\* The triple loop: for each row i, each p adds a_ip * B_row to C_row.
MultiplyBlock(Ab, Bm) ==
    [i \in DOMAIN Ab |->
        FoldLeftDomain(
            LAMBDA C_row, p : [j \in DOMAIN Bm[1] |-> C_row[j] + Ab[i][p] * Bm[p][j]],
            [j \in DOMAIN Bm[1] |-> 0], Bm)]

\* The product of a block that has been dealt arrives.
Compute(k) ==
    /\ k \in DOMAIN owner \ DOMAIN partial
    /\ partial' = [l \in DOMAIN partial \cup {k} |->
                      IF l = k THEN MultiplyBlock(Slice(A, blocks[k]), B) ELSE partial[l]]
    /\ UNCHANGED <<A, B, C, vars>>

\* Mutant: the blocks are sorted the other way round.
InRowOrderReversed(ks) ==
    [n \in 1..Cardinality(ks) |->
        CHOOSE k \in ks : n = Cardinality({l \in ks : blocks[l].row_start >= blocks[k].row_start})]

\* blocks.sort(key=row_start): the n-th block has n that start no later.
InRowOrder(ks) ==
    [n \in 1..Cardinality(ks) |->
        CHOOSE k \in ks : n = Cardinality({l \in ks : blocks[l].row_start <= blocks[k].row_start})]

\* All blocks done: C is extended with each product in turn.
Assemble ==
    /\ Split /\ DOMAIN partial = DOMAIN blocks /\ C = <<>>
    /\ C' = FlattenSeq([n \in DOMAIN blocks |-> partial[InRowOrder(DOMAIN blocks)[n]]])
    /\ UNCHANGED <<A, B, partial, vars>>

SplitData == SplitBlock /\ UNCHANGED data
DealData  == DealBlock /\ UNCHANGED data

NextData == SplitData \/ DealData \/ (\E k \in DOMAIN blocks : Compute(k)) \/ Assemble

SpecData == InitData /\ [][NextData]_<<vars, data>>

-----------------------------------------------------------------------------
(* Properties.                                                              *)

\* An entry of A x B by its definition.
Entry(i, j) ==
    LET sum[p \in 0..Len(B)] == IF p = 0 THEN 0 ELSE sum[p - 1] + A[i][p] * B[p][j]
    IN  sum[Len(B)]

\* The stored matrix is A x B, whatever the number of workers and the order in
\* which their products arrived.
ResultIsProduct ==
    C # <<>> =>
        C = [i \in 1..rows_A |-> [j \in DOMAIN B[1] |-> Entry(i, j)]]
=============================================================================
