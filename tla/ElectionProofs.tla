--------------------------- MODULE ElectionProofs ---------------------------
(* What holds of elections for any number of nodes, crashes and messages.   *)
EXTENDS Election, TLAPS

\* One more or one less coroutine stays within the bound.
LEMMA Counting ==
    ASSUME NEW max \in Nat, NEW n \in Nodes,
           NEW count \in [Nodes -> 0..max], NEW after
    PROVE  /\ count[n] < max /\ after = [count EXCEPT ![n] = @ + 1]
                  => after \in [Nodes -> 0..max]
           /\ count[n] > 0 /\ after = [count EXCEPT ![n] = @ - 1]
                  => after \in [Nodes -> 0..max]
    OBVIOUS

\* A request is posted to nodes only.
LEMMA Posting ==
    ASSUME TypeOK, NEW n \in Nodes, NEW type \in {"election", "ok", "announce"},
           NEW targets \in SUBSET Nodes
    PROVE  /\ Post(n, type, targets) => messages' \subseteq Message
           /\ Heard(n) \subseteq Nodes /\ Above(n) \subseteq Nodes
    BY DEF TypeOK, Post, Message, Heard, Above

LEMMA TypeStep == TypeOK /\ [Next]_vars => TypeOK'
<1> SUFFICES ASSUME TypeOK, [Next]_vars PROVE TypeOK'
    OBVIOUS
<1> USE NodesAssumption DEF TypeOK, Count, jobRow, tables, tasks
<1>1. ASSUME NEW n \in Nodes, HealthTick(n) PROVE TypeOK'
    BY <1>1, Counting, Posting
       DEF HealthTick, StartElection, Contend, WinUnopposed, Declare, Begins
<1>2. ASSUME NEW n \in Nodes, WaitEnds(n) PROVE TypeOK'
    BY <1>2, Counting, Posting DEF WaitEnds, WinByTimeout, GiveWay, Declare, Begins, Ends
<1>3. ASSUME NEW n \in Nodes, BecomeCoordinator(n) PROVE TypeOK'
    BY <1>3, Counting DEF BecomeCoordinator, CleanupJob, Begins, Ends
<1>4. ASSUME NEW n \in Nodes, ClearDone(n) PROVE TypeOK'
    BY <1>4, Counting DEF ClearDone, Ends
<1>5. ASSUME NEW n \in Nodes, OkWaitEnds(n) PROVE TypeOK'
    BY <1>5, Counting DEF OkWaitEnds, NoAnnouncement, Announced, Ends
<1>6. ASSUME NEW n \in Nodes, JobEnds(n) \/ Crash(n) \/ Restart(n) PROVE TypeOK'
  <2>1. CASE JobEnds(n)
    <3>1. status' \in {"running", "complete", "failed"}
        BY <2>1 DEF JobEnds
    <3> QED BY <2>1, <3>1 DEF JobEnds
  <2>2. CASE Crash(n)
    BY <2>2 DEF Crash
  <2>3. CASE Restart(n)
    BY <2>3 DEF Restart
  <2> QED BY <1>6, <2>1, <2>2, <2>3
<1>7. ASSUME NEW m \in messages, ReceiveElection(m) \/ Lose(m) PROVE TypeOK'
    BY <1>7 DEF ReceiveElection, Lose, Message
<1>8. ASSUME NEW m \in messages, ReceiveOk(m) \/ ReceiveAnnounce(m) PROVE TypeOK'
  <2>1. m.from \in Nodes /\ m.to \in Nodes
    BY DEF Message
  <2>2. CASE ReceiveOk(m)
    <3>1. ok' \in [Nodes -> {Null} \cup SUBSET Nodes]
        BY <2>1, <2>2 DEF ReceiveOk
    <3>2. okWaits' \in [Nodes -> 0..MaxTasks]
        BY <2>1, <2>2, Counting DEF ReceiveOk, Begins
    <3> QED BY <2>2, <3>1, <3>2 DEF ReceiveOk, Receives
  <2>3. CASE ReceiveAnnounce(m)
    BY <2>1, <2>3, Counting DEF ReceiveAnnounce, Receives, CleanupJob, Begins
  <2> QED BY <1>8, <2>2, <2>3
<1>9. CASE UNCHANGED vars
    BY <1>9 DEF vars
<1> QED
    BY <1>1, <1>2, <1>3, <1>4, <1>5, <1>6, <1>7, <1>8, <1>9 DEF Next, NodeStep

\* Every node's election state and the job's row keep their types, for any number
\* of nodes.
THEOREM ElectionTyped == Spec => []TypeOK
<1>1. Init => TypeOK
    BY NodesAssumption DEF Init, TypeOK, Count
<1> QED
    BY <1>1, TypeStep, PTL DEF Spec

\* As long as no node comes back before its jobs were taken over, the health check
\* may trust that the node of a running job's coordinator, if it is up, works on the
\* job: a winner writes its id only when it resumes the job, and a run ends only with
\* the job or with its process.
THEOREM CoordinatorIsWorking ==
    ASSUME SlowRestart
    PROVE  Spec => []CoordinatorWorks
<1>1. Init => CoordinatorWorks
    BY DEF Init, CoordinatorWorks
<1>2. ASSUME TypeOK, CoordinatorWorks, [Next]_vars PROVE CoordinatorWorks'
  <2> USE <1>2 DEF CoordinatorWorks, jobRow
  <2>1. ASSUME NEW n \in Nodes, BecomeCoordinator(n) PROVE CoordinatorWorks'
      BY <2>1 DEF BecomeCoordinator
  <2>2. ASSUME NEW n \in Nodes, JobEnds(n) PROVE CoordinatorWorks'
      BY <2>2 DEF JobEnds
  <2>3. ASSUME NEW n \in Nodes, Crash(n) PROVE CoordinatorWorks'
      BY <2>3 DEF Crash
  <2>4. ASSUME NEW n \in Nodes, Restart(n) PROVE CoordinatorWorks'
      BY <2>4 DEF Restart
  <2>5. CASE UNCHANGED <<alive, jobRow>>
      BY <2>5
  <2>6. ASSUME NEW n \in Nodes, NodeStep(n) \/ JobEnds(n) \/ Crash(n) \/ Restart(n)
        PROVE  CoordinatorWorks'
      BY <2>1, <2>2, <2>3, <2>4, <2>5, <2>6
         DEF NodeStep, HealthTick, WaitEnds, WinByTimeout, GiveWay, ClearDone,
             OkWaitEnds, NoAnnouncement, Announced
  <2>7. ASSUME NEW m \in messages,
               ReceiveElection(m) \/ ReceiveOk(m) \/ ReceiveAnnounce(m) \/ Lose(m)
        PROVE  CoordinatorWorks'
      BY <2>5, <2>7 DEF ReceiveElection, ReceiveOk, ReceiveAnnounce, Lose
  <2>8. CASE UNCHANGED vars
      BY <2>5, <2>8 DEF vars
  <2> QED
      BY <2>6, <2>7, <2>8 DEF Next
<1> QED
    BY <1>1, <1>2, ElectionTyped, PTL DEF Spec

(* A coordinator that no election made is First, which was given the job    *)
(* and begins no election of its own while the row names it.                *)
Unopposed == coordinator = First /\ waiting[First] = 0 /\ announcing[First] = 0

TakeoverInv == coordinator \in elected \/ Unopposed

LEMMA TakeoverStep == TypeOK /\ TakeoverInv /\ [Next]_vars => TakeoverInv'
<1> SUFFICES ASSUME TypeOK, TakeoverInv, [Next]_vars PROVE TakeoverInv'
    OBVIOUS
<1>1. /\ First \in Nodes /\ First \in Nat
      /\ waiting \in [Nodes -> 0..MaxElections] /\ announcing \in [Nodes -> 0..MaxTasks]
    BY NodesAssumption DEF TypeOK, Count
<1> USE <1>1 DEF TakeoverInv, Unopposed, jobRow, tables, tasks
<1>2. ASSUME NEW n \in Nodes, HealthTick(n) PROVE TakeoverInv'
  <2>1. UNCHANGED <<coordinator, elected>> /\ coordinator # n
    BY <1>2 DEF HealthTick
  <2>2. n # First => waiting'[First] = waiting[First] /\ announcing'[First] = announcing[First]
    BY <1>2 DEF HealthTick, StartElection, Contend, WinUnopposed, Declare, Begins
  <2> QED BY <2>1, <2>2
<1>3. ASSUME NEW n \in Nodes, WaitEnds(n) PROVE TakeoverInv'
  <2>1. UNCHANGED <<coordinator, elected>> /\ waiting[n] > 0
    BY <1>3 DEF WaitEnds, WinByTimeout, GiveWay, Ends
  <2>2. n # First => waiting'[First] = waiting[First] /\ announcing'[First] = announcing[First]
    BY <1>3 DEF WaitEnds, WinByTimeout, GiveWay, Declare, Begins, Ends
  <2> QED BY <2>1, <2>2
<1>4. ASSUME NEW n \in Nodes, BecomeCoordinator(n) PROVE TakeoverInv'
  <2>1. announcing[n] > 0 /\ announcing' = [announcing EXCEPT ![n] = @ - 1] /\ waiting' = waiting
    BY <1>4 DEF BecomeCoordinator, Ends
  <2>2. \/ UNCHANGED <<coordinator, elected>>
        \/ coordinator' = n /\ elected' = elected \cup {n}
    BY <1>4 DEF BecomeCoordinator
  <2> QED BY <2>1, <2>2
<1>5. ASSUME NEW n \in Nodes, Crash(n) PROVE TakeoverInv'
    BY <1>5 DEF Crash
<1>6. CASE UNCHANGED <<coordinator, elected, waiting, announcing>>
    BY <1>6
<1> QED
    BY <1>2, <1>3, <1>4, <1>5, <1>6
       DEF Next, NodeStep, ClearDone, OkWaitEnds, NoAnnouncement, Announced, JobEnds, Restart,
           ReceiveElection, ReceiveOk, ReceiveAnnounce, Lose, vars

\* A node wins a job that the row says is its own only after an election made it so:
\* submit_job's node never holds an election of a job it was given and still has,
\* whoever dies, comes back or is not heard (election.py _declare_victory).
THEOREM TakeoversAreDue == Spec => TakeoverIsDue
<1>1. Init => TakeoverInv
    BY NodesAssumption DEF Init, TakeoverInv, Unopposed
<1>2. TypeOK /\ TakeoverInv /\ [Next]_vars =>
          [\A n \in Nodes : BecomeCoordinator(n) /\ coordinator = n => n \in elected]_vars
    BY NodesAssumption DEF TypeOK, Count, TakeoverInv, Unopposed, BecomeCoordinator, Ends
<1>3. Spec => []TakeoverInv
    BY <1>1, TakeoverStep, ElectionTyped, PTL DEF Spec
<1> QED
    BY <1>2, <1>3, ElectionTyped, PTL DEF Spec, TakeoverIsDue
=============================================================================
