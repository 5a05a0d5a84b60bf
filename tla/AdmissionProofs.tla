-------------------------- MODULE AdmissionProofs --------------------------
(***************************************************************************)
(* The slots of _block_sem balance, and its queue holds exactly the tasks  *)
(* that wait, for any number of assignments and slots.                     *)
(***************************************************************************)
EXTENDS Admission, FiniteSetTheorems, TLAPS

Where == {"absent", "refused", "created", "waiting", "woken", "computing", "reporting", "failing",
          "ended"}

\* The queue matters only through First: whoever is given a slot waits for one.
SlotInv ==
    /\ task \in [Requests -> Where]
    /\ value \in Nat
    /\ SlotsBalance

LEMMA HoldingFinite == IsFiniteSet(Holding) /\ Cardinality(Holding) \in Nat
<1>1. Holding \subseteq Requests
    BY DEF Holding
<1>2. IsFiniteSet(Holding)
    BY <1>1, RequestsAssumption, FS_Subset
<1> QED BY <1>2, FS_CardinalityType

LEMMA SlotInit == Init => SlotInv
<1> SUFFICES ASSUME Init PROVE SlotInv
    OBVIOUS
<1>1. Holding = {}
    BY DEF Init, Holding
<1>2. Cardinality(Holding) = 0
    BY <1>1, FS_EmptySet
<1> QED BY <1>2, LimitAssumption DEF Init, SlotInv, SlotsBalance, Where

(* A slot taken from the counter, given back to it, and handed over.        *)

LEMMA SlotTaken ==
    ASSUME SlotInv, value > 0, value' = value - 1, task' \in [Requests -> Where],
           NEW r \in Requests, r \notin Holding, Holding' = Holding \cup {r}
    PROVE  SlotInv'
<1>1. Cardinality(Holding') = Cardinality(Holding) + 1
    BY HoldingFinite, FS_AddElement
<1> QED BY <1>1, HoldingFinite, LimitAssumption DEF SlotInv, SlotsBalance

LEMMA SlotReturned ==
    ASSUME SlotInv, value' = value + 1, task' \in [Requests -> Where],
           NEW r \in Holding, Holding' = Holding \ {r}
    PROVE  SlotInv'
<1>1. Cardinality(Holding') = Cardinality(Holding) - 1
    BY HoldingFinite, FS_RemoveElement
<1> QED BY <1>1, HoldingFinite, LimitAssumption DEF SlotInv, SlotsBalance

LEMMA SlotHandedOver ==
    ASSUME SlotInv, value' = value, task' \in [Requests -> Where],
           NEW r \in Holding, NEW w \in Requests, w \notin Holding,
           Holding' = (Holding \ {r}) \cup {w}
    PROVE  SlotInv'
<1>1. IsFiniteSet(Holding \ {r}) /\ Cardinality(Holding \ {r}) = Cardinality(Holding) - 1
    BY HoldingFinite, FS_RemoveElement
<1>2. Cardinality(Holding') = Cardinality(Holding \ {r}) + 1
    BY <1>1, FS_AddElement
<1> QED BY <1>1, <1>2, HoldingFinite, LimitAssumption DEF SlotInv, SlotsBalance

LEMMA SlotsKept ==
    ASSUME SlotInv, value' = value, task' \in [Requests -> Where], Holding' = Holding
    PROVE  SlotInv'
BY DEF SlotInv, SlotsBalance

LEMMA FirstWaits == \A w : First(w) => task[w] = "waiting"
BY DEF First

LEMMA ReleaseStep ==
    ASSUME SlotInv, NEW r \in Requests, task[r] \in {"reporting", "failing"}, Release(r)
    PROVE  SlotInv'
<1>1. r \in Holding /\ task \in [Requests -> Where]
    BY DEF Holding, SlotInv
<1>2. CASE task' = [task EXCEPT ![r] = "ended"] /\ value' = value + 1
  <2>1. task' \in [Requests -> Where] /\ Holding' = Holding \ {r}
    BY <1>1, <1>2 DEF Holding, Where
  <2> QED BY <1>1, <1>2, <2>1, SlotReturned
<1>3. ASSUME NEW w \in Requests, First(w),
             task' = [task EXCEPT ![r] = "ended", ![w] = "woken"], value' = value
      PROVE  SlotInv'
  <2>1. task[w] = "waiting"
    BY <1>3, FirstWaits
  <2>2. w \notin Holding /\ w # r
    BY <2>1 DEF Holding
  <2>3. task' \in [Requests -> Where]
    BY <1>1, <1>3 DEF Where
  <2>4. Holding' = (Holding \ {r}) \cup {w}
    BY <1>1, <1>3, <2>2 DEF Holding
  <2> QED BY <1>1, <1>3, <2>2, <2>3, <2>4, SlotHandedOver
<1> QED BY <1>2, <1>3 DEF Release

LEMMA SlotStep == SlotInv /\ [Next]_vars => SlotInv'
<1> SUFFICES ASSUME SlotInv, [Next]_vars PROVE SlotInv'
    OBVIOUS
<1>t. task \in [Requests -> Where] /\ value \in Nat
    BY DEF SlotInv
<1>1. ASSUME NEW r \in Requests, ReceiveWork(r) PROVE SlotInv'
  <2>1. task' \in [Requests -> Where] /\ Holding' = Holding /\ value' = value
    BY <1>t, <1>1 DEF ReceiveWork, Holding, Where
  <2> QED BY <2>1, SlotsKept
<1>2. ASSUME NEW r \in Requests, Begin(r) PROVE SlotInv'
  <2>1. CASE Locked
    <3>1. task' = [task EXCEPT ![r] = "waiting"] /\ task[r] = "created" /\ value' = value
      BY <1>2, <2>1 DEF Begin
    <3>2. task' \in [Requests -> Where] /\ Holding' = Holding
      BY <1>t, <3>1 DEF Holding, Where
    <3> QED BY <3>1, <3>2, SlotsKept
  <2>2. CASE ~Locked
    <3>1. task' = [task EXCEPT ![r] = "computing"] /\ task[r] = "created" /\ value' = value - 1
      BY <1>2, <2>2 DEF Begin
    <3>2. value > 0
      BY <1>t, <2>2 DEF Locked
    <3>3. task' \in [Requests -> Where] /\ r \notin Holding /\ Holding' = Holding \cup {r}
      BY <1>t, <3>1 DEF Holding, Where
    <3> QED BY <3>1, <3>2, <3>3, SlotTaken
  <2> QED BY <2>1, <2>2
<1>3. ASSUME NEW r \in Requests, Resume(r) PROVE SlotInv'
  <2>1. CASE task' = [task EXCEPT ![r] = "computing"] /\ value' = value
    <3>1. task' \in [Requests -> Where] /\ Holding' = Holding
      BY <1>t, <1>3, <2>1 DEF Resume, Holding, Where
    <3> QED BY <2>1, <3>1, SlotsKept
  <2>2. ASSUME NEW w \in Requests, First(w), value > 0, value' = value - 1,
               task' = [task EXCEPT ![r] = "computing", ![w] = "woken"]
        PROVE  SlotInv'
    <3>1. task[w] = "waiting" /\ task[r] = "woken"
      BY <1>3, <2>2, FirstWaits DEF Resume
    <3>2. task' \in [Requests -> Where] /\ w \notin Holding /\ Holding' = Holding \cup {w}
      BY <1>t, <2>2, <3>1 DEF Holding, Where
    <3> QED BY <2>2, <3>2, SlotTaken
  <2> QED BY <1>3, <2>1, <2>2 DEF Resume
<1>4. ASSUME NEW r \in Requests, Computed(r) \/ Raised(r) PROVE SlotInv'
  <2>1. task' \in [Requests -> Where] /\ Holding' = Holding /\ value' = value
    BY <1>t, <1>4 DEF Computed, Raised, Holding, Where
  <2> QED BY <2>1, SlotsKept
<1>5. ASSUME NEW r \in Requests, Reported(r) \/ FailureReported(r) PROVE SlotInv'
    BY <1>5, ReleaseStep DEF Reported, FailureReported
<1>6. ASSUME UNCHANGED <<task, value>> PROVE SlotInv'
    BY <1>6 DEF SlotInv, SlotsBalance, Holding
<1> QED BY <1>1, <1>2, <1>3, <1>4, <1>5, <1>6 DEF Next, Step, vars

\* No slot of _block_sem is lost or used twice, on any path of _process_block.
THEOREM SlotsAlwaysBalance == Spec => []SlotsBalance
<1>1. SlotInv => SlotsBalance
    BY DEF SlotInv
<1> QED BY <1>1, SlotInit, SlotStep, PTL DEF Spec

-----------------------------------------------------------------------------
(* The queue.                                                               *)

Queued == {waiters[i] : i \in DOMAIN waiters}

(* Nobody is in it twice: remove takes out the one entry of a task.         *)
QueueInv ==
    /\ waiters \in Seq(Requests)
    /\ Waiting = Queued
    /\ \A i, j \in DOMAIN waiters : waiters[i] = waiters[j] => i = j

LEMMA WithoutOne ==
    ASSUME NEW seq \in Seq(Requests), NEW i \in DOMAIN seq, NEW rest, rest = Without(seq, i),
           \A j, k \in DOMAIN seq : seq[j] = seq[k] => j = k
    PROVE  /\ rest \in Seq(Requests)
           /\ \A x \in Requests : (\E j \in DOMAIN rest : rest[j] = x)
                       <=> x # seq[i] /\ \E j \in DOMAIN seq : seq[j] = x
           /\ \A j, k \in DOMAIN rest : rest[j] = rest[k] => j = k
<1> DEFINE from(j) == IF j < i THEN j ELSE j + 1
<1>1. /\ Len(seq) \in Nat /\ DOMAIN seq = 1..Len(seq) /\ i \in 1..Len(seq)
      /\ \A j \in 1..Len(seq) : seq[j] \in Requests
    OBVIOUS
<1>2. /\ DOMAIN rest = 1..(Len(seq) - 1) /\ Len(seq) - 1 \in Nat
      /\ \A j \in DOMAIN rest :
             /\ from(j) \in 1..Len(seq) /\ from(j) # i
             /\ rest[j] = seq[from(j)]
    BY <1>1 DEF Without
<1>3. rest \in [1..(Len(seq) - 1) -> Requests]
    BY <1>1 DEF Without
<1>4. rest \in Seq(Requests)
    BY <1>2, <1>3
<1>5. \A j, k \in DOMAIN rest : from(j) = from(k) => j = k
    BY <1>1, <1>2
<1>6. \A j, k \in DOMAIN rest : rest[j] = rest[k] => j = k
  <2> HIDE DEF from
  <2> QED BY <1>1, <1>2, <1>5
<1>7. ASSUME NEW k \in DOMAIN seq, k # i PROVE \E j \in DOMAIN rest : from(j) = k
  <2>1. CASE k < i
    BY <1>1, <1>2, <1>7, <2>1
  <2>2. CASE k > i
    <3>1. k - 1 \in DOMAIN rest /\ from(k - 1) = k
      BY <1>1, <1>2, <1>7, <2>2
    <3> QED BY <3>1
  <2> QED BY <1>1, <1>7, <2>1, <2>2
<1>8. \A x \in Requests : (\E j \in DOMAIN rest : rest[j] = x)
               <=> x # seq[i] /\ \E j \in DOMAIN seq : seq[j] = x
  <2> HIDE DEF from
  <2> QED BY <1>1, <1>2, <1>7
<1> QED BY <1>4, <1>6, <1>8

LEMMA QueueKept ==
    ASSUME QueueInv, waiters' = waiters, Waiting' = Waiting PROVE QueueInv'
BY DEF QueueInv, Queued

LEMMA QueueStep == SlotInv /\ QueueInv /\ [Next]_vars => QueueInv'
<1> SUFFICES ASSUME SlotInv, QueueInv, [Next]_vars PROVE QueueInv'
    OBVIOUS
<1>1. task \in [Requests -> Where]
    BY DEF SlotInv
<1>2. CASE UNCHANGED vars
    BY <1>2, QueueKept DEF vars, Waiting
<1>3. ASSUME NEW r \in Requests, ReceiveWork(r) \/ Computed(r) \/ Raised(r) PROVE QueueInv'
  <2>1. waiters' = waiters /\ Waiting' = Waiting
    BY <1>1, <1>3 DEF ReceiveWork, Computed, Raised, Waiting
  <2> QED BY <2>1, QueueKept
<1>4. ASSUME NEW r \in Requests, Begin(r) PROVE QueueInv'
  <2>1. task[r] = "created" /\ r \notin Waiting
    BY <1>4 DEF Begin, Waiting
  <2>2. CASE ~Locked
    <3>1. waiters' = waiters /\ Waiting' = Waiting
      BY <1>1, <1>4, <2>1, <2>2 DEF Begin, Waiting
    <3> QED BY <3>1, QueueKept
  <2>3. CASE Locked
    <3>1. Waiting' = Waiting \cup {r} /\ waiters' = Append(waiters, r)
      BY <1>1, <1>4, <2>3 DEF Begin, Waiting
    <3>2. /\ waiters \in Seq(Requests) /\ Waiting = Queued
          /\ \A i, j \in DOMAIN waiters : waiters[i] = waiters[j] => i = j
      BY DEF QueueInv
    <3>3. /\ waiters' \in Seq(Requests) /\ Len(waiters) \in Nat
          /\ DOMAIN waiters = 1..Len(waiters) /\ DOMAIN waiters' = 1..(Len(waiters) + 1)
          /\ waiters'[Len(waiters) + 1] = r
          /\ \A i \in DOMAIN waiters : waiters'[i] = waiters[i]
      BY <3>1, <3>2
    <3>4. \A i \in DOMAIN waiters : waiters[i] # r
      BY <2>1, <3>2 DEF Queued
    <3>5. Queued' = Queued \cup {r}
      BY <3>3 DEF Queued
    <3>6. \A i, j \in DOMAIN waiters' : waiters'[i] = waiters'[j] => i = j
      BY <3>2, <3>3, <3>4
    <3> QED BY <3>1, <3>2, <3>3, <3>5, <3>6 DEF QueueInv
  <2> QED BY <2>2, <2>3
<1>5. ASSUME NEW r \in Requests, Resume(r) PROVE QueueInv'
  <2>1. task[r] = "woken" /\ \A w : First(w) => task[w] = "waiting"
    BY <1>5, FirstWaits DEF Resume
  <2>2. Waiting' = Waiting \ {r}
    BY <1>1, <1>5, <2>1 DEF Resume, Waiting
  <2>3. PICK i \in DOMAIN waiters : waiters[i] = r /\ waiters' = Without(waiters, i)
    BY <1>5 DEF Resume
  <2>4. /\ waiters \in Seq(Requests)
        /\ \A j, k \in DOMAIN waiters : waiters[j] = waiters[k] => j = k
    BY DEF QueueInv
  <2>5. /\ waiters' \in Seq(Requests)
        /\ \A x \in Requests : (\E j \in DOMAIN waiters' : waiters'[j] = x)
                    <=> x # waiters[i] /\ \E j \in DOMAIN waiters : waiters[j] = x
        /\ \A j, k \in DOMAIN waiters' : waiters'[j] = waiters'[k] => j = k
    BY <2>3, <2>4, WithoutOne
  <2>6. Queued' = Queued \ {r}
    <3>1. Queued \subseteq Requests /\ Queued' \subseteq Requests
      BY <2>4, <2>5 DEF Queued
    <3>2. \A x \in Requests : x \in Queued' <=> x \in Queued \ {r}
      BY <2>3, <2>5 DEF Queued
    <3> QED BY <3>1, <3>2
  <2> QED BY <2>2, <2>5, <2>6 DEF QueueInv
<1>6. ASSUME NEW r \in Requests, Reported(r) \/ FailureReported(r) PROVE QueueInv'
  <2>1. /\ task[r] \in {"reporting", "failing"} /\ waiters' = waiters /\ Release(r)
        /\ \A w : First(w) => task[w] = "waiting"
    BY <1>6, FirstWaits DEF Reported, FailureReported
  <2>2. Waiting' = Waiting
    BY <1>1, <2>1 DEF Release, Waiting
  <2> QED BY <2>1, <2>2, QueueKept
<1> QED BY <1>2, <1>3, <1>4, <1>5, <1>6 DEF Next, Step

\* _block_sem's counter stays within its limit and its queue holds each waiting task
\* once and nobody else: a woken task finds itself there, and no slot is passed to a
\* task that has gone.
THEOREM AdmissionTyped == Spec => []TypeOK
<1>1. Init => QueueInv
    BY DEF Init, QueueInv, Queued, Waiting
<1>2. Spec => [](SlotInv /\ QueueInv)
    BY <1>1, SlotInit, SlotStep, QueueStep, PTL DEF Spec
<1>3. SlotInv /\ QueueInv => TypeOK
    BY HoldingFinite, LimitAssumption DEF SlotInv, SlotsBalance, QueueInv, Queued, TypeOK, Where
<1> QED BY <1>2, <1>3, PTL
=============================================================================
