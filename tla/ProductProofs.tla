--------------------------- MODULE ProductProofs ---------------------------
(***************************************************************************)
(* The split covers every row once, in no more blocks than there are       *)
(* members, and the deal is even; and what is assembled from the blocks is *)
(* A x B.  For any matrices, any number of peers and any order of arrival. *)
(***************************************************************************)
EXTENDS Product, SequenceTheorems, FiniteSetTheorems, WellFoundedInduction, TLAPS

(* Between two turns of the loop the blocks cover, once each, exactly the   *)
(* rows below the loop's next row, and lie in order.                        *)
InOrder ==
    /\ \A k \in DOMAIN blocks :
           blocks[k].row_start < blocks[k].row_end /\ blocks[k].row_end <= Lesser(row, rows_A)
    /\ \A k, l \in DOMAIN blocks : k < l => blocks[k].row_end <= blocks[l].row_start
    /\ \A i \in 0..(Lesser(row, rows_A) - 1) : \E k \in DOMAIN blocks : Covers(k, i)

SplitInv == TypeOK /\ InOrder

LEMMA BlockSizePositive ==
    ASSUME rows_A \in Dimensions, peers \in 0..MaxPeers
    PROVE  block_size \in Nat \ {0}
<1>1. rows_A \in Nat \ {0} /\ peers \in Nat
    BY DimensionsAssumption, MaxPeersAssumption
<1>2. \A d \in Nat \ {0}, n \in Nat \ {0} : (n + d - 1) \div d \in Nat \ {0}
    OBVIOUS
<1> QED BY <1>1, <1>2 DEF block_size, num_workers

LEMMA SplitInit == Init => SplitInv
BY DimensionsAssumption, MaxPeersAssumption
   DEF Init, SplitInv, TypeOK, InOrder, Lesser

LEMMA SplitStep == SplitInv /\ [Next]_vars => SplitInv'
<1> SUFFICES ASSUME SplitInv, [Next]_vars PROVE SplitInv'
    OBVIOUS
<1>1. /\ rows_A \in Nat \ {0} /\ peers \in Nat /\ row \in Nat /\ blocks \in Seq(Block)
      /\ owner \in Seq(0..peers) /\ cursor \in 1..(peers + 1)
    BY DimensionsAssumption, MaxPeersAssumption DEF SplitInv, TypeOK
<1>2. CASE SplitBlock
  <2> DEFINE size == block_size
             new  == [row_start |-> row, row_end |-> Lesser(row + size, rows_A)]
  <2>1. size \in Nat \ {0}
    BY BlockSizePositive DEF SplitInv, TypeOK
  <2> HIDE DEF size
  <2>2. /\ row < rows_A /\ blocks' = Append(blocks, new) /\ row' = row + size
        /\ UNCHANGED <<rows_A, peers, owner, cursor>>
    BY <1>2 DEF SplitBlock, size
  <2>3. new \in Block /\ row < new.row_end /\ new.row_end = Lesser(row', rows_A') /\ Lesser(row, rows_A) = row
        /\ new.row_start = row /\ Lesser(row', rows_A') \in Nat
    BY <1>1, <2>1, <2>2 DEF Block, Lesser
  <2> HIDE DEF new
  <2>4. /\ blocks' \in Seq(Block) /\ Len(blocks') = Len(blocks) + 1
        /\ blocks'[Len(blocks) + 1] = new
        /\ \A k \in DOMAIN blocks : blocks'[k] = blocks[k]
        /\ DOMAIN blocks' = DOMAIN blocks \cup {Len(blocks) + 1}
        /\ DOMAIN blocks = 1..Len(blocks) /\ Len(blocks) \in Nat
    BY <1>1, <2>2, <2>3
  <2>5. TypeOK'
    BY <1>1, <2>1, <2>2, <2>4 DEF SplitInv, TypeOK
  <2>6. \A k \in DOMAIN blocks' :
            blocks'[k].row_start < blocks'[k].row_end /\ blocks'[k].row_end <= Lesser(row', rows_A')
    <3> TAKE k \in DOMAIN blocks'
    <3>1. CASE k \in DOMAIN blocks
      <4>1. blocks[k] \in Block
        BY <1>1, <3>1
      <4> QED BY <2>3, <2>4, <3>1, <4>1 DEF SplitInv, InOrder, Block
    <3>2. CASE k = Len(blocks) + 1
      BY <2>3, <2>4, <3>2
    <3> QED BY <2>4, <3>1, <3>2
  <2>7. \A k, l \in DOMAIN blocks' : k < l => blocks'[k].row_end <= blocks'[l].row_start
    <3> SUFFICES ASSUME NEW k \in DOMAIN blocks', NEW l \in DOMAIN blocks', k < l
                 PROVE  blocks'[k].row_end <= blocks'[l].row_start
        OBVIOUS
    <3>1. k \in DOMAIN blocks
      BY <2>4
    <3>2. CASE l \in DOMAIN blocks
      BY <2>4, <3>1, <3>2 DEF SplitInv, InOrder
    <3>3. CASE l = Len(blocks) + 1
      BY <2>3, <2>4, <3>1, <3>3 DEF SplitInv, InOrder
    <3> QED BY <2>4, <3>2, <3>3
  <2>8. \A i \in 0..(Lesser(row', rows_A') - 1) : \E k \in DOMAIN blocks' : Covers(k, i)'
    <3> SUFFICES ASSUME NEW i \in 0..(Lesser(row', rows_A') - 1)
                 PROVE  \E k \in DOMAIN blocks' : Covers(k, i)'
        OBVIOUS
    <3>i. i \in Nat /\ i < Lesser(row', rows_A')
      BY <2>3
    <3>1. CASE i < row
      <4>1. i \in 0..(Lesser(row, rows_A) - 1)
        BY <1>1, <2>3, <3>1
      <4>2. PICK k \in DOMAIN blocks : Covers(k, i)
        BY <4>1 DEF SplitInv, InOrder
      <4>3. Covers(k, i)' /\ k \in DOMAIN blocks'
        BY <2>4, <4>2 DEF Covers
      <4> QED BY <4>3
    <3>2. CASE row <= i
      <4> DEFINE last == Len(blocks) + 1
      <4>1. last \in DOMAIN blocks' /\ blocks'[last] = new
        BY <2>4
      <4>2. new.row_start <= i /\ i < new.row_end
        BY <1>1, <2>3, <3>2, <3>i DEF Block
      <4> HIDE DEF last
      <4> QED BY <4>1, <4>2 DEF Covers
    <3> QED BY <1>1, <3>1, <3>2
  <2> QED BY <2>5, <2>6, <2>7, <2>8 DEF SplitInv, InOrder
<1>3. CASE DealBlock
  <2>1. UNCHANGED <<rows_A, peers, row, blocks>>
    BY <1>3 DEF DealBlock
  <2>2. owner' \in Seq(0..peers) /\ cursor' \in 1..(peers + 1)
    <3>1. CASE peers = 0
      BY <1>1, <1>3, <3>1 DEF DealBlock, Self
    <3>2. CASE peers # 0
      <4>1. PICK next \in 1..peers : owner' = Append(owner, next) /\ cursor' = next + 1
        BY <1>1, <1>3, <3>2 DEF DealBlock
      <4> QED BY <1>1, <4>1
    <3> QED BY <3>1, <3>2
  <2> QED BY <2>1, <2>2 DEF SplitInv, TypeOK, InOrder, Covers, Lesser
<1>4. CASE UNCHANGED vars
    BY <1>4 DEF vars, SplitInv, TypeOK, InOrder, Covers, Lesser
<1> QED BY <1>2, <1>3, <1>4 DEF Next

LEMMA SplitAlways == Spec => []SplitInv
BY SplitInit, SplitStep, PTL DEF Spec

\* submit_job's loop loses no row and gives none to two blocks.
THEOREM SplitCoversOnce == Spec => []RowsCoveredOnce
<1>1. SplitInv => RowsCoveredOnce
  <2> SUFFICES ASSUME SplitInv, Split, NEW i \in 0..(rows_A - 1)
               PROVE  \E k \in DOMAIN blocks :
                          Covers(k, i) /\ \A l \in DOMAIN blocks \ {k} : ~Covers(l, i)
      BY DEF RowsCoveredOnce
  <2>1. rows_A \in Nat /\ row \in Nat /\ blocks \in Seq(Block) /\ Lesser(row, rows_A) = rows_A
    BY DimensionsAssumption DEF SplitInv, TypeOK, Split, Lesser
  <2>2. PICK k \in DOMAIN blocks : Covers(k, i)
    BY <2>1 DEF SplitInv, InOrder
  <2>3. ASSUME NEW l \in DOMAIN blocks, l # k PROVE ~Covers(l, i)
    <3>1. k \in Int /\ l \in Int /\ blocks[k] \in Block /\ blocks[l] \in Block
      BY <2>1
    <3>2. k < l \/ l < k
      BY <2>3, <3>1
    <3>3. \/ blocks[k].row_end <= blocks[l].row_start
          \/ blocks[l].row_end <= blocks[k].row_start
      BY <2>3, <3>2 DEF SplitInv, InOrder
    <3> QED BY <2>2, <3>1, <3>3 DEF Covers, Block
  <2> QED BY <2>2, <2>3
<1> QED BY <1>1, SplitAlways, PTL

\* No worker is sent a block without rows.
THEOREM BlocksHaveRows == Spec => []NoBlockIsEmpty
<1>1. SplitInv => NoBlockIsEmpty
    BY DEF SplitInv, InOrder, NoBlockIsEmpty
<1> QED BY <1>1, SplitAlways, PTL

\* The loop's and the deal's variables keep their types.
THEOREM SplitTyped == Spec => []TypeOK
<1>1. SplitInv => TypeOK
    BY DEF SplitInv
<1> QED BY <1>1, SplitAlways, PTL

-----------------------------------------------------------------------------
(* Counting blocks: the last one starts below rows_A, and num_workers       *)
(* blocks of block_size rows would reach it.                                *)

Counted ==
    /\ row = Len(blocks) * block_size
    /\ Len(blocks) > 0 => (Len(blocks) - 1) * block_size < rows_A

LEMMA BlocksReachEnd ==
    ASSUME NEW r \in Nat \ {0}, NEW n \in Nat \ {0}
    PROVE  n * ((r + n - 1) \div n) >= r
<1> DEFINE x == r + n - 1
           q == x \div n
           m == x % n
<1>1. x = n * q + m /\ m < n /\ q \in Nat /\ m \in Nat
    OBVIOUS
<1>2. n * q \in Nat
    BY <1>1
<1> QED BY <1>1, <1>2

LEMMA Multiples ==
    ASSUME NEW k \in Nat, NEW n \in Nat, NEW b \in Nat, k > n
    PROVE  (k - 1) * b >= n * b
<1>1. PICK d \in Nat : k - 1 = n + d
    <2>1. k - 1 - n \in Nat /\ k - 1 = n + (k - 1 - n)
      OBVIOUS
    <2> QED BY <2>1
<1>2. (n + d) * b = n * b + d * b /\ d * b \in Nat /\ n * b \in Nat
    OBVIOUS
<1> QED BY <1>1, <1>2

LEMMA CountedFew ==
    ASSUME SplitInv, Counted
    PROVE  NoMoreBlocksThanMembers
<1>1. rows_A \in Nat \ {0} /\ peers \in Nat /\ Len(blocks) \in Nat
    BY DimensionsAssumption, MaxPeersAssumption DEF SplitInv, TypeOK
<1>2. num_workers \in Nat \ {0} /\ block_size \in Nat \ {0}
    BY <1>1, BlockSizePositive DEF num_workers, SplitInv, TypeOK
<1>3. num_workers * block_size >= rows_A
    BY <1>1, <1>2, BlocksReachEnd DEF block_size
<1> SUFFICES ASSUME Len(blocks) > num_workers PROVE FALSE
    BY <1>1, <1>2 DEF NoMoreBlocksThanMembers
<1> DEFINE k == Len(blocks)
           n == num_workers
           b == block_size
<1>4. (k - 1) * b >= n * b
    BY <1>1, <1>2, Multiples
<1>5. (k - 1) * b < rows_A
    BY <1>1, <1>2 DEF Counted
<1>6. (k - 1) * b \in Int /\ n * b \in Int
    BY <1>1, <1>2
<1> HIDE DEF k, n, b
<1> QED BY <1>1, <1>3, <1>4, <1>5, <1>6 DEF n, b

LEMMA CountedStep == SplitInv /\ Counted /\ [Next]_vars => Counted'
<1> SUFFICES ASSUME SplitInv, Counted, [Next]_vars PROVE Counted'
    OBVIOUS
<1>1. rows_A \in Nat \ {0} /\ peers \in Nat /\ Len(blocks) \in Nat /\ blocks \in Seq(Block)
    BY DimensionsAssumption, MaxPeersAssumption DEF SplitInv, TypeOK
<1>2. block_size \in Nat \ {0}
    BY <1>1, BlockSizePositive DEF SplitInv, TypeOK
<1>3. CASE SplitBlock
  <2> DEFINE k == Len(blocks)
             b == block_size
  <2>1. row < rows_A /\ row' = row + b /\ rows_A' = rows_A /\ b' = b
    BY <1>3 DEF SplitBlock, block_size, num_workers
  <2>2. Len(blocks') = k + 1
    <3>1. [row_start |-> row, row_end |-> Lesser(row + block_size, rows_A)] \in Block
      BY <1>1, <1>2 DEF SplitInv, TypeOK, Block, Lesser
    <3> QED BY <1>1, <1>3, <3>1 DEF SplitBlock
  <2>3. row = k * b
    BY DEF Counted
  <2>4. (k + 1) * b = k * b + b /\ k + 1 - 1 = k
    BY <1>1, <1>2
  <2>5. row' = (k + 1) * b' /\ (k + 1 - 1) * b' < rows_A'
    BY <2>1, <2>3, <2>4
  <2> QED BY <2>2, <2>5 DEF Counted
<1>4. CASE UNCHANGED <<rows_A, peers, row, blocks>>
    BY <1>4 DEF Counted, block_size, num_workers
<1>5. DealBlock \/ UNCHANGED vars => UNCHANGED <<rows_A, peers, row, blocks>>
    BY DEF DealBlock, vars
<1> QED BY <1>3, <1>4, <1>5 DEF Next

LEMMA CountedAlways == Spec => [](SplitInv /\ Counted)
<1>1. Init => Counted
  <2> SUFFICES ASSUME Init PROVE Counted
      OBVIOUS
  <2>1. block_size \in Nat \ {0}
    BY BlockSizePositive DEF Init
  <2> QED BY <2>1 DEF Init, Counted
<1> QED BY <1>1, SplitAlways, CountedStep, PTL DEF Spec

\* However the rows divide, the loop makes at most one block per member.
THEOREM BlocksAreFew == Spec => []NoMoreBlocksThanMembers
BY CountedAlways, CountedFew, PTL

-----------------------------------------------------------------------------
(* The deal: there being at most one block more than workers, the iterator  *)
(* is made anew at most once.                                               *)

Dealt ==
    /\ Len(owner) <= Len(blocks) /\ (owner # <<>> => Split)
    /\ peers > 0 => /\ \A k \in DOMAIN owner : owner[k] = IF k <= peers THEN k ELSE 1
                    /\ cursor = IF Len(owner) <= peers THEN Len(owner) + 1 ELSE 2

LEMMA DealtStep ==
    SplitInv /\ NoMoreBlocksThanMembers /\ Dealt /\ [Next]_vars => Dealt'
<1> SUFFICES ASSUME SplitInv, NoMoreBlocksThanMembers, Dealt, [Next]_vars PROVE Dealt'
    OBVIOUS
<1>1. /\ peers \in Nat /\ row \in Nat /\ rows_A \in Nat /\ blocks \in Seq(Block)
      /\ owner \in Seq(0..peers) /\ cursor \in 1..(peers + 1)
      /\ Len(owner) \in Nat /\ Len(blocks) \in Nat /\ Len(blocks) <= peers + 1
    BY DimensionsAssumption, MaxPeersAssumption
       DEF SplitInv, TypeOK, NoMoreBlocksThanMembers, num_workers
<1>2. CASE SplitBlock
  <2>1. owner = <<>> /\ Len(owner) = 0
    BY <1>1, <1>2 DEF SplitBlock, Split, Dealt
  <2>2. UNCHANGED <<peers, owner, cursor>>
    BY <1>2 DEF SplitBlock
  <2>3. Len(blocks') \in Nat
    <3>1. blocks' \in Seq(Block)
      BY SplitStep DEF SplitInv, TypeOK
    <3> QED BY <3>1
  <2> QED BY <1>1, <2>1, <2>2, <2>3 DEF Dealt
<1>3. CASE DealBlock
  <2>1. Len(owner) < Len(blocks) /\ Split /\ UNCHANGED <<rows_A, peers, row, blocks>> /\ Split'
    BY <1>3 DEF DealBlock, Split
  <2>2. CASE peers = 0
    <3>1. owner' = Append(owner, Self) /\ Self \in 0..peers
      BY <1>1, <1>3, <2>2 DEF DealBlock, Self
    <3>2. Len(owner') = Len(owner) + 1
      BY <1>1, <3>1
    <3> QED BY <1>1, <2>1, <2>2, <3>2 DEF Dealt
  <2>3. CASE peers > 0
    <3> DEFINE next == IF cursor <= peers THEN cursor ELSE 1
    <3>1. owner' = Append(owner, next) /\ cursor' = next + 1 /\ next \in 0..peers
      BY <1>1, <1>3, <2>3 DEF DealBlock
    <3>2. Len(owner) <= peers
      BY <1>1, <2>1
    <3>3. next = IF Len(owner) + 1 <= peers THEN Len(owner) + 1 ELSE 1
      BY <1>1, <2>3, <3>2 DEF Dealt
    <3> HIDE DEF next
    <3>4. /\ Len(owner') = Len(owner) + 1 /\ owner'[Len(owner) + 1] = next
          /\ \A k \in DOMAIN owner : owner'[k] = owner[k]
          /\ DOMAIN owner' = DOMAIN owner \cup {Len(owner) + 1}
          /\ DOMAIN owner = 1..Len(owner)
      BY <1>1, <3>1
    <3>5. \A k \in DOMAIN owner' : owner'[k] = IF k <= peers THEN k ELSE 1
      BY <1>1, <2>3, <3>3, <3>4 DEF Dealt
    <3>6. cursor' = IF Len(owner') <= peers THEN Len(owner') + 1 ELSE 2
      BY <1>1, <3>1, <3>2, <3>3, <3>4
    <3> QED BY <1>1, <2>1, <3>4, <3>5, <3>6 DEF Dealt
  <2> QED BY <1>1, <2>2, <2>3
<1>4. CASE UNCHANGED vars
    BY <1>4 DEF vars, Dealt, Split
<1> QED BY <1>2, <1>3, <1>4 DEF Next

LEMMA DealtAlways == Spec => [](SplitInv /\ Dealt)
<1>1. Init => Dealt
  <2> SUFFICES ASSUME Init PROVE Dealt
      OBVIOUS
  <2>1. peers \in Nat
    BY MaxPeersAssumption DEF Init
  <2> QED BY <2>1 DEF Init, Dealt
<1> QED BY <1>1, CountedAlways, BlocksAreFew, DealtStep, PTL DEF Spec

\* No worker is dealt a second block while another has none.
THEOREM DealtEvenly == Spec => []DealIsEven
<1>1. SplitInv /\ Dealt => DealIsEven
  <2> SUFFICES ASSUME SplitInv, Dealt, NEW v \in 1..peers, NEW w \in 1..peers,
                      NEW k \in DOMAIN owner, NEW l \in DOMAIN owner,
                      owner[k] = v, owner[l] = v, k # l
               PROVE  {x \in DOMAIN owner : owner[x] = w} # {}
      BY DEF DealIsEven
  <2>1. peers \in Nat /\ owner \in Seq(0..peers) /\ DOMAIN owner = 1..Len(owner) /\ Len(owner) \in Nat
    BY MaxPeersAssumption DEF SplitInv, TypeOK
  <2>2. \A x \in DOMAIN owner : owner[x] = IF x <= peers THEN x ELSE 1
    BY <2>1 DEF Dealt
  <2>3. k > peers \/ l > peers
    BY <2>1, <2>2
  <2>4. w \in DOMAIN owner /\ owner[w] = w
    BY <2>1, <2>2, <2>3
  <2> QED BY <2>4
<1> QED BY <1>1, DealtAlways, PTL

-----------------------------------------------------------------------------
(* Induction on a set of numbers: the library's principle about predicates  *)
(* cannot be instantiated, the one about well-founded sets can.             *)

Below == {pair \in Nat \X Nat : pair[1] < pair[2]}

LEMMA Least ==
    ASSUME NEW T, T \subseteq Nat, T # {}
    PROVE  \E x \in T : \A y \in T : x <= y
<1>1. IsWellFoundedOn(Below, Nat)
    BY NatLessThanWellFounded DEF OpToRel, Below
<1>2. PICK x \in T : \A y \in T : <<y, x>> \notin Below
    BY <1>1, WFMin
<1>3. ASSUME NEW y \in T PROVE x <= y
  <2>1. <<y, x>> \in Nat \X Nat /\ ~(y < x)
    BY <1>2 DEF Below
  <2> QED BY <2>1
<1> QED BY <1>3

LEMMA Induction ==
    ASSUME NEW T, 0 \in T, \A n \in Nat : n \in T => n + 1 \in T
    PROVE  \A n \in Nat : n \in T
<1> SUFFICES ASSUME NEW n \in Nat, n \notin T PROVE FALSE
    OBVIOUS
<1>1. PICK m \in Nat \ T : \A k \in Nat \ T : m <= k
    BY Least
<1>2. m # 0 /\ m - 1 \in Nat
    BY <1>1
<1>3. m - 1 \in T
    BY <1>1, <1>2
<1> QED BY <1>1, <1>2, <1>3

-----------------------------------------------------------------------------
(* The sum of Entry.                                                        *)

Summed(f, n, a, M, j) ==
    f = [p \in 0..n |-> IF p = 0 THEN 0 ELSE f[p - 1] + a[p] * M[p][j]]

LEMMA SumExists ==
    ASSUME NEW a, NEW M, NEW j, NEW n \in Nat
    PROVE  \E f : Summed(f, n, a, M, j)
<1> DEFINE T == {m \in Nat : \E f : Summed(f, m, a, M, j)}
<1>1. 0 \in T
  <2> DEFINE f == [p \in 0..0 |-> 0]
  <2>1. Summed(f, 0, a, M, j)
    BY DEF Summed
  <2> QED BY <2>1
<1>2. ASSUME NEW m \in Nat, m \in T PROVE m + 1 \in T
  <2> PICK f : Summed(f, m, a, M, j)
    BY <1>2
  <2> DEFINE next == f[m] + a[m + 1] * M[m + 1][j]
             g == [p \in 0..(m + 1) |-> IF p <= m THEN f[p] ELSE next]
  <2>1. \A p \in 0..m : g[p] = f[p]
    OBVIOUS
  <2>2. g[m + 1] = next
    OBVIOUS
  <2>3. DOMAIN g = 0..(m + 1) /\ g = [p \in 0..(m + 1) |-> g[p]]
    OBVIOUS
  <2> HIDE DEF g
  <2>4. ASSUME NEW p \in 0..(m + 1)
        PROVE  g[p] = IF p = 0 THEN 0 ELSE g[p - 1] + a[p] * M[p][j]
    <3>1. CASE p <= m
      <4>1. f[p] = IF p = 0 THEN 0 ELSE f[p - 1] + a[p] * M[p][j]
        BY <3>1 DEF Summed
      <4>2. g[p] = f[p] /\ (p # 0 => g[p - 1] = f[p - 1])
        BY <2>1, <3>1
      <4> QED BY <4>1, <4>2
    <3>2. CASE p = m + 1
      BY <2>1, <2>2, <3>2
    <3> QED BY <3>1, <3>2
  <2>5. Summed(g, m + 1, a, M, j)
    BY <2>3, <2>4 DEF Summed
  <2> QED BY <2>5
<1> HIDE DEF T
<1>3. n \in T
    BY <1>1, <1>2, Induction
<1> QED BY <1>3 DEF T

LEMMA SumSteps ==
    ASSUME NEW f, NEW n \in Nat, NEW a, NEW M, NEW j, Summed(f, n, a, M, j)
    PROVE  /\ f[0] = 0
           /\ \A p \in 1..n : f[p] = f[p - 1] + a[p] * M[p][j]
<1>1. \A p \in 0..n : f[p] = IF p = 0 THEN 0 ELSE f[p - 1] + a[p] * M[p][j]
    BY Zenon DEF Summed
<1>2. 0 \in 0..n /\ \A p \in 1..n : p \in 0..n /\ p # 0
    OBVIOUS
<1> QED BY <1>1, <1>2, Zenon

LEMMA EntryIsSum ==
    ASSUME NEW i, NEW j, Len(B) \in Nat
    PROVE  \E f : Summed(f, Len(B), A[i], B, j) /\ Entry(i, j) = f[Len(B)]
<1> DEFINE f == CHOOSE sum : Summed(sum, Len(B), A[i], B, j)
<1>1. \E sum : Summed(sum, Len(B), A[i], B, j)
    BY SumExists
<1>2. Summed(f, Len(B), A[i], B, j)
  <2> HIDE DEF f
  <2> QED BY <1>1, Zenon DEF f
<1>3. Entry(i, j) = f[Len(B)]
    BY Zenon DEF Entry, Summed
<1> HIDE DEF f
<1> QED BY <1>2, <1>3

-----------------------------------------------------------------------------
(* The fold of multiply_block.                                              *)

Zero(M) == [j \in DOMAIN M[1] |-> 0]
AddRow(a, M, C_row, p) == [j \in DOMAIN M[1] |-> C_row[j] + a[p] * M[p][j]]

Folded(g, n, a, M) ==
    g = [s \in SUBSET (1..n) |->
            IF s = {} THEN Zero(M) ELSE AddRow(a, M, g[s \ {Max(s)}], Max(s))]

LEMMA MaxOfInterval ==
    ASSUME NEW n \in Nat, NEW s \in SUBSET (1..(n + 1)), n + 1 \in s
    PROVE  Max(s) = n + 1
<1>1. \A y \in s : n + 1 >= y
    OBVIOUS
<1>2. \A x \in s : (\A y \in s : x >= y) => x = n + 1
    OBVIOUS
<1> QED BY <1>1, <1>2 DEF Max

LEMMA MaxExists ==
    ASSUME NEW n \in Nat, NEW s \in SUBSET (1..n), s # {}
    PROVE  Max(s) \in s
<1> DEFINE Bounds == {m \in Nat : \A y \in s : m >= y}
<1>1. n \in Bounds
    OBVIOUS
<1>2. PICK m \in Bounds : \A k \in Bounds : m <= k
    BY <1>1, Least
<1>3. m \in s
  <2> SUFFICES ASSUME m \notin s PROVE FALSE
      OBVIOUS
  <2>1. PICK y \in s : TRUE
    OBVIOUS
  <2>2. m - 1 \in Nat /\ \A z \in s : m - 1 >= z
    BY <2>1
  <2>3. m - 1 \in Bounds
    BY <2>2
  <2> QED BY <1>2, <2>3
<1>4. \E x \in s : \A y \in s : x >= y
    BY <1>3
<1> QED BY <1>4, Zenon DEF Max

LEMMA FoldExists ==
    ASSUME NEW a, NEW M, NEW n \in Nat
    PROVE  \E g : Folded(g, n, a, M)
<1> DEFINE T == {m \in Nat : \E g : Folded(g, m, a, M)}
<1>1. 0 \in T
  <2> DEFINE g == [s \in SUBSET (1..0) |-> Zero(M)]
  <2>1. \A s \in SUBSET (1..0) : s = {}
    OBVIOUS
  <2>2. Folded(g, 0, a, M)
    BY <2>1 DEF Folded
  <2> QED BY <2>2
<1>2. ASSUME NEW m \in Nat, m \in T PROVE m + 1 \in T
  <2> PICK g : Folded(g, m, a, M)
    BY <1>2
  <2> DEFINE All == SUBSET (1..(m + 1))
             Old(s) == m + 1 \notin s
             h == [s \in All |->
                      IF Old(s) THEN g[s] ELSE AddRow(a, M, g[s \ {m + 1}], m + 1)]
  <2>1. \A s \in All : Old(s) => s \in SUBSET (1..m) /\ h[s] = g[s]
    OBVIOUS
  <2>2. \A s \in All : ~Old(s) => h[s] = AddRow(a, M, g[s \ {m + 1}], m + 1)
    OBVIOUS
  <2>3. h = [s \in All |-> h[s]]
    OBVIOUS
  <2> HIDE DEF h
  <2>4. ASSUME NEW s \in All
        PROVE  h[s] = IF s = {} THEN Zero(M) ELSE AddRow(a, M, h[s \ {Max(s)}], Max(s))
    <3>1. CASE Old(s)
      <4>1. s \in SUBSET (1..m) /\ h[s] = g[s]
        BY <2>1, <3>1
      <4>2. s \ {Max(s)} \in All /\ Old(s \ {Max(s)})
        BY <3>1
      <4>3. h[s \ {Max(s)}] = g[s \ {Max(s)}]
        BY <2>1, <4>2
      <4>4. g[s] = IF s = {} THEN Zero(M) ELSE AddRow(a, M, g[s \ {Max(s)}], Max(s))
        BY <4>1 DEF Folded
      <4> QED BY <4>1, <4>3, <4>4
    <3>2. CASE ~Old(s)
      <4>1. Max(s) = m + 1 /\ s # {}
        BY <3>2, MaxOfInterval
      <4>2. s \ {m + 1} \in All /\ Old(s \ {m + 1})
        OBVIOUS
      <4>3. h[s \ {m + 1}] = g[s \ {m + 1}]
        BY <2>1, <4>2
      <4>4. h[s] = AddRow(a, M, g[s \ {m + 1}], m + 1)
        BY <2>2, <3>2
      <4> QED BY <4>1, <4>3, <4>4
    <3> QED BY <3>1, <3>2
  <2>5. Folded(h, m + 1, a, M)
    BY <2>3, <2>4 DEF Folded
  <2> QED BY <2>5
<1> HIDE DEF T
<1>3. n \in T
    BY <1>1, <1>2, Induction
<1> QED BY <1>3 DEF T

(* One turn of multiply_block's loop over the rows of A.                    *)
RowProduct(a, M) == FoldLeftDomain(LAMBDA C_row, p : AddRow(a, M, C_row, p), Zero(M), M)

\* The fold over the rows of M, as the function it is defined by.
LEMMA FoldIsFolded ==
    ASSUME NEW a, NEW M, NEW n \in Nat, DOMAIN M = 1..n
    PROVE  \E g : Folded(g, n, a, M) /\ RowProduct(a, M) = g[1..n]
<1> DEFINE seq == [i \in DOMAIN M |-> i]
           Is(iter) == iter = [s \in SUBSET DOMAIN seq |->
                          IF s = {} THEN Zero(M)
                          ELSE AddRow(a, M, iter[s \ {Max(s)}], seq[Max(s)])]
           g == CHOOSE iter : Is(iter)
<1>1. RowProduct(a, M) = g[DOMAIN seq]
    BY Zenon DEF RowProduct, FoldLeftDomain, FoldLeft, MapThenFoldSet
<1>2. DOMAIN seq = 1..n /\ \A i \in 1..n : seq[i] = i
    OBVIOUS
<1> HIDE DEF seq
<1>3. \A s \in SUBSET (1..n) : s # {} => seq[Max(s)] = Max(s)
    BY <1>2, MaxExists
<1>4. \A h : Is(h) <=> Folded(h, n, a, M)
    BY <1>2, <1>3 DEF Folded
<1>5. Is(g)
  <2>1. \E h : Is(h)
    BY <1>4, FoldExists
  <2> HIDE DEF g, Is
  <2> QED BY <2>1, Zenon DEF g
<1> HIDE DEF g, Is
<1> QED BY <1>1, <1>2, <1>4, <1>5

LEMMA FoldValue ==
    ASSUME NEW a, NEW M, NEW n \in Nat, NEW g, Folded(g, n, a, M),
           NEW F, \A j \in DOMAIN M[1] : Summed(F[j], n, a, M, j)
    PROVE  g[1..n] = [j \in DOMAIN M[1] |-> F[j][n]]
<1> DEFINE T == {m \in Nat : m <= n => g[1..m] = [j \in DOMAIN M[1] |-> F[j][m]]}
<1>1. 0 \in T
  <2>1. 1..0 = {} /\ 1..0 \in SUBSET (1..n)
    OBVIOUS
  <2>2. g[1..0] = Zero(M)
    BY <2>1 DEF Folded
  <2>3. \A j \in DOMAIN M[1] : F[j][0] = 0
    BY SumSteps
  <2>4. Zero(M) = [j \in DOMAIN M[1] |-> F[j][0]]
    BY <2>3 DEF Zero
  <2> QED BY <2>2, <2>4
<1>2. ASSUME NEW m \in Nat, m \in T PROVE m + 1 \in T
  <2> SUFFICES ASSUME m + 1 <= n PROVE g[1..(m + 1)] = [j \in DOMAIN M[1] |-> F[j][m + 1]]
      OBVIOUS
  <2>1. g[1..m] = [j \in DOMAIN M[1] |-> F[j][m]]
    BY <1>2
  <2> HIDE DEF T
  <2>2. /\ 1..(m + 1) \in SUBSET (1..n) /\ 1..(m + 1) # {} /\ m + 1 \in 1..(m + 1)
        /\ (1..(m + 1)) \ {m + 1} = 1..m
    OBVIOUS
  <2>3. Max(1..(m + 1)) = m + 1
    BY <2>2, MaxOfInterval
  <2>4. g[1..(m + 1)] = AddRow(a, M, g[1..m], m + 1)
    BY <2>2, <2>3 DEF Folded
  <2>5. \A j \in DOMAIN M[1] : F[j][m + 1] = F[j][m] + a[m + 1] * M[m + 1][j]
    <3> TAKE j \in DOMAIN M[1]
    <3>1. m + 1 \in 1..n /\ m + 1 - 1 = m
      OBVIOUS
    <3> QED BY <3>1, SumSteps
  <2> QED BY <2>1, <2>4, <2>5 DEF AddRow
<1> HIDE DEF T
<1>3. n \in T
    BY <1>1, <1>2, Induction
<1> QED BY <1>3 DEF T

\* multiply_block computes the rows of A x B that belong to the rows it is given.
LEMMA BlockProduct ==
    ASSUME Len(B) \in Nat, DOMAIN B = 1..Len(B),
           NEW Ab, NEW i \in DOMAIN Ab, NEW k, Ab[i] = A[k]
    PROVE  MultiplyBlock(Ab, B)[i] = [j \in DOMAIN B[1] |-> Entry(k, j)]
<1> DEFINE n == Len(B)
           a == A[k]
           F == [j \in DOMAIN B[1] |-> CHOOSE f : Summed(f, n, a, B, j) /\ Entry(k, j) = f[n]]
<1>1. PICK g : Folded(g, n, a, B) /\ RowProduct(a, B) = g[1..n]
    BY FoldIsFolded
<1>2. MultiplyBlock(Ab, B)[i] = g[1..n]
  <2>1. MultiplyBlock(Ab, B)[i] = RowProduct(Ab[i], B)
    BY Zenon DEF MultiplyBlock, RowProduct, AddRow, Zero
  <2> QED BY <1>1, <2>1, Zenon
<1>3. \A j \in DOMAIN B[1] : Summed(F[j], n, a, B, j) /\ Entry(k, j) = F[j][n]
  <2> TAKE j \in DOMAIN B[1]
  <2>1. \E f : Summed(f, n, a, B, j) /\ Entry(k, j) = f[n]
    BY EntryIsSum
  <2> QED BY <2>1, Zenon
<1> HIDE DEF F, n, a
<1>4. g[1..n] = [j \in DOMAIN B[1] |-> F[j][n]]
  <2>1. n \in Nat
    BY DEF n
  <2> QED BY <1>1, <1>3, <2>1, FoldValue
<1> QED BY <1>2, <1>3, <1>4

-----------------------------------------------------------------------------
(* The assembly.                                                            *)

Flattened(g, n, parts) ==
    g = [i \in 1..n |-> IF i = 1 THEN parts[i] ELSE g[i - 1] \o parts[i]]

LEMMA FlattenExists ==
    ASSUME NEW parts, NEW n \in Nat
    PROVE  \E g : Flattened(g, n, parts)
<1> DEFINE T == {m \in Nat : \E g : Flattened(g, m, parts)}
<1>1. 0 \in T
  <2> DEFINE g == [i \in 1..0 |-> parts]
  <2>1. Flattened(g, 0, parts)
    BY DEF Flattened
  <2> QED BY <2>1
<1>2. ASSUME NEW m \in Nat, m \in T PROVE m + 1 \in T
  <2> PICK g : Flattened(g, m, parts)
    BY <1>2
  <2> DEFINE next == IF m = 0 THEN parts[1] ELSE g[m] \o parts[m + 1]
             h == [i \in 1..(m + 1) |-> IF i <= m THEN g[i] ELSE next]
  <2> HIDE DEF next
  <2>1. (\A i \in 1..m : h[i] = g[i]) /\ h[m + 1] = next
    OBVIOUS
  <2>2. h = [i \in 1..(m + 1) |-> h[i]]
    OBVIOUS
  <2> HIDE DEF h
  <2>3. ASSUME NEW i \in 1..(m + 1)
        PROVE  h[i] = IF i = 1 THEN parts[i] ELSE h[i - 1] \o parts[i]
    <3>1. CASE i <= m
      <4>1. i \in 1..m /\ (i # 1 => i - 1 \in 1..m)
        BY <3>1
      <4>2. g[i] = IF i = 1 THEN parts[i] ELSE g[i - 1] \o parts[i]
        BY <4>1, Zenon DEF Flattened
      <4> QED BY <2>1, <4>1, <4>2, Zenon
    <3>2. CASE i = m + 1
      <4>1. (i = 1 <=> m = 0) /\ (m # 0 => i - 1 = m /\ m \in 1..m)
        BY <3>2
      <4> QED BY <2>1, <3>2, <4>1, Zenon DEF next
    <3> QED BY <3>1, <3>2
  <2>4. Flattened(h, m + 1, parts)
    BY <2>2, <2>3, Zenon DEF Flattened
  <2> QED BY <2>4
<1> HIDE DEF T
<1>3. n \in T
    BY <1>1, <1>2, Induction
<1> QED BY <1>3 DEF T

LEMMA FlattenIsFlattened ==
    ASSUME NEW parts, Len(parts) \in Nat \ {0}
    PROVE  \E g : Flattened(g, Len(parts), parts) /\ FlattenSeq(parts) = g[Len(parts)]
<1> DEFINE g == CHOOSE flatten : Flattened(flatten, Len(parts), parts)
<1>1. \E flatten : Flattened(flatten, Len(parts), parts)
    BY FlattenExists
<1>2. Flattened(g, Len(parts), parts)
  <2> HIDE DEF g
  <2> QED BY <1>1, Zenon DEF g
<1>3. FlattenSeq(parts) = g[Len(parts)]
    BY Zenon DEF FlattenSeq, Flattened
<1> HIDE DEF g
<1> QED BY <1>2, <1>3

(* The sequence s is what comes in t after from.                            *)
Piece(s, t, from) == \A i \in 1..Len(s) : s[i] = t[from + i]

LEMMA ConcatPieces ==
    ASSUME NEW S, NEW first \in Seq(S), NEW next \in Seq(S), NEW t,
           Piece(first, t, 0), Piece(next, t, Len(first))
    PROVE  /\ first \o next \in Seq(S) /\ Len(first \o next) = Len(first) + Len(next)
           /\ Piece(first \o next, t, 0)
<1>1. Len(first) \in Nat /\ Len(next) \in Nat
    OBVIOUS
<1>2. ASSUME NEW i \in 1..(Len(first) + Len(next)) PROVE (first \o next)[i] = t[0 + i]
  <2>1. (first \o next)[i] = IF i <= Len(first) THEN first[i] ELSE next[i - Len(first)]
    BY <1>2, ConcatProperties
  <2>2. CASE i <= Len(first)
    BY <1>1, <2>1, <2>2 DEF Piece
  <2>3. CASE ~(i <= Len(first))
    <3>1. i - Len(first) \in 1..Len(next) /\ Len(first) + (i - Len(first)) = 0 + i
      BY <1>1, <2>3
    <3>2. next[i - Len(first)] = t[Len(first) + (i - Len(first))]
      BY <3>1 DEF Piece
    <3> QED BY <2>1, <2>3, <3>1, <3>2
  <2> QED BY <2>2, <2>3
<1>3. first \o next \in Seq(S) /\ Len(first \o next) = Len(first) + Len(next)
    BY ConcatProperties
<1> QED BY <1>2, <1>3 DEF Piece

\* The n parts are pieces of t that follow each other; the k-th ends at end[k].
Consecutive(parts, S, n, end, t) ==
    /\ n \in Nat \ {0} /\ parts \in [1..n -> Seq(S)]
    /\ end \in [0..n -> Nat] /\ end[0] = 0
    /\ \A k \in 1..n : end[k] = end[k - 1] + Len(parts[k])
    /\ \A k \in 1..n : Piece(parts[k], t, end[k - 1])

\* Pieces of t that follow each other, put together, are t.
LEMMA FlattenValue ==
    ASSUME NEW S, NEW n, NEW parts, NEW end, NEW t, Consecutive(parts, S, n, end, t)
    PROVE  FlattenSeq(parts) = [i \in 1..end[n] |-> t[i]]
<1> USE DEF Consecutive
<1>1. parts \in Seq(Seq(S)) /\ Len(parts) = n
    OBVIOUS
<1>2. PICK g : Flattened(g, n, parts) /\ FlattenSeq(parts) = g[n]
    BY <1>1, FlattenIsFlattened
<1>3. /\ g[1] = parts[1]
      /\ \A k \in 1..n : k # 1 => g[k] = g[k - 1] \o parts[k]
  <2>1. \A k \in 1..n : g[k] = IF k = 1 THEN parts[k] ELSE g[k - 1] \o parts[k]
    BY <1>2, Zenon DEF Flattened
  <2>2. 1 \in 1..n
    OBVIOUS
  <2> QED BY <2>1, <2>2, Zenon
<1> DEFINE Holds(k) == g[k] \in Seq(S) /\ Len(g[k]) = end[k] /\ Piece(g[k], t, 0)
           T == {m \in Nat : m + 1 <= n => Holds(m + 1)}
<1>4. 0 \in T
  <2>1. /\ 1 \in 1..n /\ end[1] = end[0] + Len(parts[1]) /\ parts[1] \in Seq(S)
        /\ end[1] \in Nat /\ end[1 - 1] = 0
    OBVIOUS
  <2>2. end[1] = Len(parts[1]) /\ Piece(parts[1], t, 0)
    BY <2>1
  <2>3. Holds(1)
    BY <1>3, <2>1, <2>2
  <2> QED BY <2>3
<1>5. ASSUME NEW m \in Nat, m \in T PROVE m + 1 \in T
  <2> SUFFICES ASSUME m + 1 + 1 <= n PROVE Holds(m + 1 + 1)
      OBVIOUS
  <2> DEFINE k     == m + 1 + 1
             first == g[k - 1]
             next  == parts[k]
  <2>1. k \in 1..n /\ k # 1 /\ k - 1 = m + 1 /\ k - 1 \in 1..n
    OBVIOUS
  <2>2. Holds(k - 1)
    BY <1>5, <2>1
  <2> HIDE DEF T, k
  <2>3. /\ g[k] = first \o next /\ next \in Seq(S)
        /\ end[k] = end[k - 1] + Len(next) /\ Piece(next, t, end[k - 1])
    BY <1>3, <2>1
  <2>4. /\ first \in Seq(S) /\ Piece(first, t, 0) /\ Len(first) = end[k - 1]
    BY <2>2
  <2>5. Piece(next, t, Len(first))
    BY <2>3, <2>4
  <2> HIDE DEF first, next
  <2>6. /\ first \o next \in Seq(S) /\ Len(first \o next) = Len(first) + Len(next)
        /\ Piece(first \o next, t, 0)
    BY <2>3, <2>4, <2>5, ConcatPieces
  <2>7. Holds(k)
    BY <2>3, <2>4, <2>6
  <2> QED BY <2>7 DEF k
<1> HIDE DEF T
<1>6. n - 1 \in Nat /\ n - 1 + 1 = n /\ n <= n
    OBVIOUS
<1>7. n - 1 \in T
    BY <1>4, <1>5, <1>6, Induction
<1>8. Holds(n)
    BY <1>6, <1>7 DEF T
<1>9. g[n] = [i \in 1..end[n] |-> g[n][i]] /\ end[n] \in Nat
    BY <1>8, LenProperties
<1>10. \A i \in 1..end[n] : g[n][i] = t[i]
    BY <1>8, <1>9 DEF Piece
<1> QED BY <1>2, <1>9, <1>10
-----------------------------------------------------------------------------
(* The assembled matrix.                                                    *)

\* The rest of a job's data does not disturb the split and the deal.
LEMMA DataIsSplit == SpecData => Spec
<1>1. [NextData]_<<vars, data>> => [Next]_vars
    BY DEF NextData, SplitData, DealData, Compute, Assemble, Next, data
<1>2. InitData => Init
    BY DEF InitData
<1> QED BY <1>1, <1>2, PTL DEF SpecData, Spec

(* Each block begins where the one before it ends, and the last one so far  *)
(* ends where the loop goes on.                                             *)
Adjacent ==
    /\ \A k \in DOMAIN blocks :
           blocks[k].row_start = IF k = 1 THEN 0 ELSE blocks[k - 1].row_end
    /\ IF Len(blocks) = 0 THEN row = 0
                          ELSE Lesser(row, rows_A) = blocks[Len(blocks)].row_end

LEMMA AdjacentStep == SplitInv /\ Adjacent /\ [Next]_vars => Adjacent'
<1> SUFFICES ASSUME SplitInv, Adjacent, [Next]_vars PROVE Adjacent'
    OBVIOUS
<1>1. /\ rows_A \in Nat \ {0} /\ row \in Nat /\ peers \in Nat /\ blocks \in Seq(Block)
      /\ Len(blocks) \in Nat /\ DOMAIN blocks = 1..Len(blocks)
    BY DimensionsAssumption, MaxPeersAssumption DEF SplitInv, TypeOK
<1>2. CASE SplitBlock
  <2> DEFINE new == [row_start |-> row, row_end |-> Lesser(row + block_size, rows_A)]
             n == Len(blocks)
  <2>1. block_size \in Nat \ {0}
    BY BlockSizePositive DEF SplitInv, TypeOK
  <2>2. /\ row < rows_A /\ blocks' = Append(blocks, new) /\ row' = row + block_size
        /\ rows_A' = rows_A
    BY <1>2 DEF SplitBlock
  <2>3. new.row_start = row /\ new.row_end = Lesser(row', rows_A') /\ new \in Block
    BY <1>1, <2>1, <2>2 DEF Block, Lesser
  <2>4. Lesser(row, rows_A) = row
    BY <1>1, <2>2 DEF Lesser
  <2> HIDE DEF new
  <2>5. /\ Len(blocks') = n + 1 /\ DOMAIN blocks' = 1..(n + 1) /\ blocks'[n + 1] = new
        /\ \A k \in 1..n : blocks'[k] = blocks[k]
    BY <1>1, <2>2, <2>3
  <2>6. ASSUME NEW k \in 1..(n + 1)
        PROVE  blocks'[k].row_start = IF k = 1 THEN 0 ELSE blocks'[k - 1].row_end
    <3>1. CASE k \in 1..n
      <4>1. k # 1 => k - 1 \in 1..n
        BY <3>1
      <4> QED BY <1>1, <2>5, <3>1, <4>1 DEF Adjacent
    <3>2. CASE k = n + 1 /\ n = 0
      BY <2>3, <2>5, <3>2 DEF Adjacent
    <3>3. CASE k = n + 1 /\ n # 0
      <4>1. k - 1 = n /\ k # 1 /\ n \in 1..n
        BY <1>1, <3>3
      <4> QED BY <2>3, <2>4, <2>5, <3>3, <4>1 DEF Adjacent
    <3> QED BY <1>1, <3>1, <3>2, <3>3
  <2> QED BY <1>1, <2>3, <2>5, <2>6 DEF Adjacent
<1>3. CASE UNCHANGED <<rows_A, row, blocks>>
    BY <1>3 DEF Adjacent, Lesser
<1>4. DealBlock \/ UNCHANGED vars => UNCHANGED <<rows_A, row, blocks>>
    BY DEF DealBlock, vars
<1> QED BY <1>2, <1>3, <1>4 DEF Next

LEMMA AdjacentAlways == Spec => []Adjacent
<1>1. Init => Adjacent
    BY DEF Init, Adjacent
<1> QED BY <1>1, SplitAlways, AdjacentStep, PTL DEF Spec

LEMMA BlocksTyped ==
    ASSUME SplitInv
    PROVE  /\ rows_A \in Nat \ {0} /\ row \in Nat
           /\ Len(blocks) \in Nat /\ DOMAIN blocks = 1..Len(blocks)
           /\ \A k \in DOMAIN blocks :
                  blocks[k] \in Block /\ blocks[k].row_start \in Nat /\ blocks[k].row_end \in Nat
<1>1. blocks \in Seq(Block) /\ rows_A \in Nat \ {0} /\ row \in Nat
    BY DimensionsAssumption DEF SplitInv, TypeOK
<1>2. \A k \in DOMAIN blocks : blocks[k] \in Block
    BY <1>1
<1> QED BY <1>1, <1>2 DEF Block

LEMMA IntervalSize == \A n \in Nat : Cardinality(1..n) = n
BY FS_Interval

\* Sorted by row_start the blocks are as submit_job made them.
LEMMA AlreadyInOrder ==
    ASSUME SplitInv, NEW n \in DOMAIN blocks
    PROVE  InRowOrder(DOMAIN blocks)[n] = n
<1> DEFINE UpTo(k) == {l \in DOMAIN blocks : blocks[l].row_start <= blocks[k].row_start}
<1>1. /\ Len(blocks) \in Nat /\ DOMAIN blocks = 1..Len(blocks)
      /\ \A k \in DOMAIN blocks : blocks[k].row_start \in Nat /\ blocks[k].row_end \in Nat
      /\ Cardinality(DOMAIN blocks) = Len(blocks)
    BY BlocksTyped, IntervalSize
<1>2. \A k, l \in DOMAIN blocks : l < k => blocks[l].row_start < blocks[k].row_start
  <2> SUFFICES ASSUME NEW k \in DOMAIN blocks, NEW l \in DOMAIN blocks, l < k
               PROVE  blocks[l].row_start < blocks[k].row_start
      OBVIOUS
  <2>1. blocks[l].row_start < blocks[l].row_end /\ blocks[l].row_end <= blocks[k].row_start
    BY DEF SplitInv, InOrder
  <2> QED BY <1>1, <2>1
<1>3. ASSUME NEW k \in DOMAIN blocks PROVE Cardinality(UpTo(k)) = k
  <2>1. \A l \in DOMAIN blocks : blocks[l].row_start <= blocks[k].row_start <=> l <= k
    BY <1>1, <1>2
  <2>2. UpTo(k) = 1..k /\ k \in Nat
    BY <1>1, <2>1
  <2> HIDE DEF UpTo
  <2> QED BY <2>2, IntervalSize
<1>4. InRowOrder(DOMAIN blocks)[n] = CHOOSE k \in DOMAIN blocks : n = Cardinality(UpTo(k))
    BY <1>1, Zenon DEF InRowOrder
<1> HIDE DEF UpTo
<1> QED BY <1>3, <1>4

TheProduct == [i \in 1..rows_A |-> [j \in DOMAIN B[1] |-> Entry(i, j)]]

DataInv ==
    /\ B \in RightMatrices /\ A \in [1..rows_A -> LeftRows(B)]
    /\ DOMAIN partial \subseteq DOMAIN blocks
    /\ \A k \in DOMAIN partial : partial[k] = MultiplyBlock(Slice(A, blocks[k]), B)

\* A block's product is the part of A x B its rows stand for.
LEMMA PartOfProduct ==
    ASSUME SplitInv, Adjacent, DataInv, NEW k \in DOMAIN partial,
           NEW start, start = blocks[k].row_start,
           NEW size, size = blocks[k].row_end - start
    PROVE  /\ size \in Nat /\ start \in Nat /\ start + size <= rows_A
           /\ partial[k] = [i \in 1..size |-> TheProduct[start + i]]
<1> DEFINE end == blocks[k].row_end
           Ab  == Slice(A, blocks[k])
<1>1. B \in Seq(Seq(Int)) /\ A \in [1..rows_A -> LeftRows(B)]
  <2>1. B \in RightMatrices /\ A \in [1..rows_A -> LeftRows(B)]
    BY DEF DataInv
  <2> QED BY <2>1, MatricesAssumption, Zenon
<1>2. Len(B) \in Nat /\ DOMAIN B = 1..Len(B)
    BY <1>1, LenProperties
<1>3. k \in DOMAIN blocks /\ rows_A \in Nat /\ row \in Nat /\ start \in Nat /\ end \in Nat
    BY BlocksTyped DEF DataInv
<1>4. start < end /\ end <= rows_A
    BY <1>3 DEF SplitInv, InOrder, Lesser
<1>5. size \in Nat /\ size = end - start /\ start + size <= rows_A
    BY <1>3, <1>4
<1>6. Ab = SubSeq(A, start + 1, end)
    BY DEF Slice
<1> HIDE DEF end, Ab
<1>7. DOMAIN Ab = 1..size /\ \A i \in 1..size : Ab[i] = A[start + i]
  <2> DEFINE m == start + 1
  <2>1. \A i \in m..end : i \in 1..rows_A
    BY <1>3, <1>4
  <2>2. m \in Int /\ end \in Int /\ \A i \in m..end : A[i] \in LeftRows(B)
    BY <1>1, <1>3, <2>1
  <2>3. Ab = SubSeq(A, m, end)
    BY <1>6
  <2>4. /\ end - m + 1 = size /\ (IF m <= end THEN end - m + 1 ELSE 0) = size
        /\ \A i \in 1..size : m + i - 1 = start + i
    BY <1>3, <1>4, <1>5
  <2> HIDE DEF m
  <2>5. /\ Ab \in Seq(LeftRows(B)) /\ Len(Ab) = IF m <= end THEN end - m + 1 ELSE 0
        /\ \A i \in 1..(end - m + 1) : Ab[i] = A[m + i - 1]
    BY <2>2, <2>3, SubSeqProperties
  <2>6. DOMAIN Ab = 1..Len(Ab)
    BY <2>5, LenProperties
  <2> QED BY <2>4, <2>5, <2>6
<1>8. partial[k] = MultiplyBlock(Ab, B)
    BY DEF DataInv, Ab
<1>9. ASSUME NEW i \in 1..size PROVE MultiplyBlock(Ab, B)[i] = TheProduct[start + i]
  <2>1. i \in DOMAIN Ab /\ Ab[i] = A[start + i]
    BY <1>7
  <2>2. MultiplyBlock(Ab, B)[i] = [j \in DOMAIN B[1] |-> Entry(start + i, j)]
    BY <1>2, <2>1, BlockProduct
  <2>3. start + i \in 1..rows_A
    BY <1>3, <1>5
  <2> QED BY <2>2, <2>3, Zenon DEF TheProduct
<1>10. MultiplyBlock(Ab, B) = [i \in 1..size |-> MultiplyBlock(Ab, B)[i]]
    BY <1>7, Zenon DEF MultiplyBlock
<1> QED BY <1>3, <1>5, <1>8, <1>9, <1>10

LEMMA AssembledIsProduct ==
    ASSUME SplitInv, Adjacent, DataInv, Assemble
    PROVE  C' = TheProduct
<1> DEFINE n == Len(blocks)
           end == [k \in 0..n |-> IF k = 0 THEN 0 ELSE blocks[k].row_end]
           S == {TheProduct[i] : i \in 1..rows_A}
           parts == [k \in DOMAIN blocks |-> partial[InRowOrder(DOMAIN blocks)[k]]]
<1>1. /\ rows_A \in Nat \ {0} /\ row \in Nat /\ n \in Nat /\ DOMAIN blocks = 1..n
      /\ \A k \in 1..n : blocks[k].row_start \in Nat /\ blocks[k].row_end \in Nat
    BY BlocksTyped
<1>2. row >= rows_A /\ DOMAIN partial = 1..n
    BY <1>1 DEF Assemble, Split
<1>3. n # 0 /\ blocks[n].row_end = rows_A
    BY <1>1, <1>2 DEF Adjacent, Lesser
<1>4. /\ end \in [0..n -> Nat] /\ end[0] = 0 /\ end[n] = rows_A
      /\ \A k \in 1..n : end[k] = blocks[k].row_end
    BY <1>1, <1>3
<1>5. \A k \in 1..n : end[k - 1] = blocks[k].row_start
    BY <1>1 DEF Adjacent
<1>6. \A k \in 1..n : parts[k] = partial[k]
    BY <1>1, AlreadyInOrder
<1>7. parts = [k \in 1..n |-> parts[k]]
    BY <1>1
<1>8. C' = FlattenSeq(parts)
    BY DEF Assemble
<1> HIDE DEF n, end, parts
<1>9. ASSUME NEW k \in 1..n
      PROVE  /\ parts[k] \in Seq(S) /\ end[k] = end[k - 1] + Len(parts[k])
             /\ Piece(parts[k], TheProduct, end[k - 1])
  <2> DEFINE start == blocks[k].row_start
             size  == blocks[k].row_end - start
  <2>1. /\ size \in Nat /\ start \in Nat /\ start + size <= rows_A
        /\ partial[k] = [i \in 1..size |-> TheProduct[start + i]]
    BY <1>2, PartOfProduct
  <2>2. end[k - 1] = start /\ end[k] = start + size
    BY <1>1, <1>4, <1>5
  <2> HIDE DEF start, size
  <2>3. \A i \in 1..size : start + i \in 1..rows_A
    BY <1>1, <2>1
  <2>4. \A i \in 1..size : TheProduct[start + i] \in S
    BY <2>3
  <2> HIDE DEF S
  <2>5. partial[k] \in Seq(S) /\ Len(partial[k]) = size
    BY <2>1, <2>4
  <2>6. \A i \in 1..size : partial[k][i] = TheProduct[start + i]
    BY <2>1
  <2> QED BY <1>6, <2>2, <2>5, <2>6 DEF Piece
<1> HIDE DEF S
<1>10. parts \in [1..n -> Seq(S)]
    BY <1>7, <1>9
<1>11. n \in Nat \ {0}
    BY <1>1, <1>3
<1>12. FlattenSeq(parts) = [i \in 1..end[n] |-> TheProduct[i]]
  <2>1. end \in [0..n -> Nat] /\ end[0] = 0
    BY <1>4
  <2>2. \A k \in 1..n : end[k] = end[k - 1] + Len(parts[k])
    BY <1>9
  <2>3. \A k \in 1..n : Piece(parts[k], TheProduct, end[k - 1])
    BY <1>9
  <2>4. Consecutive(parts, S, n, end, TheProduct)
    BY <1>10, <1>11, <2>1, <2>2, <2>3 DEF Consecutive
  <2> QED BY <2>4, FlattenValue
<1>13. TheProduct = [i \in 1..rows_A |-> TheProduct[i]]
    BY DEF TheProduct
<1> QED BY <1>4, <1>8, <1>12, <1>13

\* A x B changes only with A and B.
EntryOf(Am, Bm, i, j) ==
    LET sum[p \in 0..Len(Bm)] == IF p = 0 THEN 0 ELSE sum[p - 1] + Am[i][p] * Bm[p][j]
    IN  sum[Len(Bm)]

ProductOf(Am, Bm, rows) == [i \in 1..rows |-> [j \in DOMAIN Bm[1] |-> EntryOf(Am, Bm, i, j)]]

LEMMA ProductKept == A' = A /\ B' = B /\ rows_A' = rows_A => TheProduct' = TheProduct
<1>1. TheProduct = ProductOf(A, B, rows_A)
    BY Zenon DEF TheProduct, ProductOf, Entry, EntryOf
<1>2. TheProduct' = ProductOf(A', B', rows_A')
    BY Zenon DEF TheProduct, ProductOf, Entry, EntryOf
<1> QED BY <1>1, <1>2

LEMMA DataStep ==
    SplitInv /\ Adjacent /\ Len(owner) <= Len(blocks) /\ DataInv /\ ResultIsProduct
      /\ [NextData]_<<vars, data>> => DataInv' /\ ResultIsProduct'
<1> SUFFICES ASSUME SplitInv, Adjacent, Len(owner) <= Len(blocks), DataInv, ResultIsProduct,
                    [NextData]_<<vars, data>>
             PROVE  DataInv' /\ ResultIsProduct'
    OBVIOUS
<1>1. /\ blocks \in Seq(Block) /\ owner \in Seq(0..peers)
      /\ DOMAIN owner \subseteq DOMAIN blocks
    BY DEF SplitInv, TypeOK
<1>2. A' = A /\ B' = B /\ rows_A' = rows_A
    BY DEF NextData, SplitData, DealData, Compute, Assemble, SplitBlock, DealBlock, data, vars
<1>3. TheProduct' = TheProduct
    BY <1>2, ProductKept
<1>4. C' = C => ResultIsProduct'
    BY <1>3 DEF ResultIsProduct, TheProduct
<1>5. CASE SplitData
  <2>1. UNCHANGED <<partial, C>>
    BY <1>5 DEF SplitData, data
  <2>2. /\ DOMAIN blocks \subseteq DOMAIN blocks'
        /\ \A k \in DOMAIN blocks : blocks'[k] = blocks[k]
    BY <1>1, <1>5 DEF SplitData, SplitBlock
  <2> QED BY <1>2, <1>4, <2>1, <2>2 DEF DataInv
<1>6. CASE DealData
  <2>1. UNCHANGED <<blocks, partial, C>>
    BY <1>6 DEF DealData, DealBlock, data
  <2> QED BY <1>2, <1>4, <2>1 DEF DataInv
<1>7. ASSUME NEW k \in DOMAIN blocks, Compute(k) PROVE DataInv' /\ ResultIsProduct'
  <2>1. UNCHANGED <<blocks, C>>
    BY <1>7 DEF Compute, vars
  <2>2. /\ DOMAIN partial' = DOMAIN partial \cup {k}
        /\ \A l \in DOMAIN partial' :
               partial'[l] = IF l = k THEN MultiplyBlock(Slice(A, blocks[k]), B) ELSE partial[l]
    BY <1>7 DEF Compute
  <2> QED BY <1>2, <1>4, <2>1, <2>2 DEF DataInv
<1>8. CASE Assemble
  <2>1. UNCHANGED <<blocks, partial>>
    BY <1>8 DEF Assemble, vars
  <2>2. C' = TheProduct'
    BY <1>3, <1>8, AssembledIsProduct
  <2> QED BY <1>2, <2>1, <2>2 DEF DataInv, ResultIsProduct, TheProduct
<1>9. CASE UNCHANGED <<vars, data>>
  <2>1. UNCHANGED <<blocks, partial, C>>
    BY <1>9 DEF vars, data
  <2> QED BY <1>2, <1>4, <2>1 DEF DataInv
<1> QED BY <1>5, <1>6, <1>7, <1>8, <1>9 DEF NextData

\* The stored result is A x B for every A and B, every number of workers and every
\* order in which the products arrive.
THEOREM ResultsAreProducts == SpecData => []ResultIsProduct
<1>1. InitData => DataInv /\ ResultIsProduct
    BY DEF InitData, DataInv, ResultIsProduct
<1>2. SpecData => []Dealt
    BY DataIsSplit, DealtAlways, PTL
<1>3. Dealt => Len(owner) <= Len(blocks)
    BY DEF Dealt
<1> QED
    BY <1>1, <1>2, <1>3, DataIsSplit, SplitAlways, AdjacentAlways, DataStep, PTL DEF SpecData
=============================================================================
