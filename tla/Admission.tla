----------------------------- MODULE Admission -----------------------------
(***************************************************************************)
(* The blocks one node works on at a time: assignments posted to /work     *)
(* wait for a slot of _block_sem, hold it while they are computed and      *)
(* reported, and give it back on every path.  A coordinator on the same    *)
(* node computes blocks of its own beside them and asks for no slot.       *)
(*                                                                         *)
(* What is computed and whether a report arrives is Coordinator's matter.  *)
(* The executor's threads, which may be fewer than the slots, only add     *)
(* time and are left out.                                                  *)
(***************************************************************************)
EXTENDS Naturals, Sequences, FiniteSets

CONSTANTS
    Requests,               \* assignments on their way at a time
    MAX_CONCURRENT_BLOCKS

ASSUME LimitAssumption == MAX_CONCURRENT_BLOCKS \in Nat \ {0}
ASSUME RequestsAssumption == IsFiniteSet(Requests)

VARIABLES
    task,     \* where each assignment is
    value,    \* _block_sem's counter
    waiters   \* _block_sem's queue; one that was woken stays until it runs

vars == <<task, value, waiters>>

Init ==
    /\ task = [r \in Requests |-> "absent"]
    /\ value = MAX_CONCURRENT_BLOCKS
    /\ waiters = <<>>

\* asyncio.Semaphore.locked.
Locked == value = 0 \/ waiters # <<>>

\* The handler of /work, up to its answer.  Several handlers may run before
\* the tasks they create.
ReceiveWork(r) ==
    /\ task[r] \in {"absent", "refused", "ended"}
    /\ task' = [task EXCEPT ![r] = IF Locked THEN "refused" ELSE "created"]
    /\ UNCHANGED <<value, waiters>>

\* Mutants of the task: it takes a slot without looking, and gives up when
\* there is none.
BeginUnchecked(r) ==
    /\ task[r] = "created"
    /\ task' = [task EXCEPT ![r] = "computing"]
    /\ value' = value - 1
    /\ UNCHANGED waiters

BeginOrGiveUp(r) ==
    /\ task[r] = "created"
    /\ IF Locked
       THEN task' = [task EXCEPT ![r] = "refused"] /\ UNCHANGED value
       ELSE task' = [task EXCEPT ![r] = "computing"] /\ value' = value - 1
    /\ UNCHANGED waiters

\* The task starts: it takes a slot or joins the queue.
Begin(r) ==
    /\ task[r] = "created"
    /\ \/ /\ ~Locked
          /\ task' = [task EXCEPT ![r] = "computing"]
          /\ value' = value - 1
          /\ UNCHANGED waiters
       \/ /\ Locked
          /\ task' = [task EXCEPT ![r] = "waiting"]
          /\ waiters' = Append(waiters, r)
          /\ UNCHANGED value

\* The queue's first that has not been woken.
First(r) ==
    \E i \in DOMAIN waiters :
        /\ waiters[i] = r /\ task[r] = "waiting"
        /\ \A j \in 1..(i - 1) : task[waiters[j]] # "waiting"

\* deque.remove.
Without(seq, i) ==
    [j \in 1..(Len(seq) - 1) |-> IF j < i THEN seq[j] ELSE seq[j + 1]]

\* A woken task goes on with the slot it was given, and passes another on if
\* there is one.
Resume(r) ==
    /\ task[r] = "woken"
    /\ \E i \in DOMAIN waiters : waiters[i] = r /\ waiters' = Without(waiters, i)
    /\ \/ /\ value = 0 \/ \A w \in Requests : ~First(w)
          /\ task' = [task EXCEPT ![r] = "computing"]
          /\ UNCHANGED value
       \/ /\ value > 0
          /\ \E w \in Requests :
                First(w) /\ task' = [task EXCEPT ![r] = "computing", ![w] = "woken"]
          /\ value' = value - 1

\* execute_block returns, or raises WorkerError.
Computed(r) ==
    /\ task[r] = "computing"
    /\ task' = [task EXCEPT ![r] = "reporting"]
    /\ UNCHANGED <<value, waiters>>

Raised(r) ==
    /\ task[r] = "computing"
    /\ task' = [task EXCEPT ![r] = "failing"]
    /\ UNCHANGED <<value, waiters>>

\* The slot is given back, to the first that waits for one if any does.
Release(r) ==
    \/ /\ \A w \in Requests : ~First(w)
       /\ task' = [task EXCEPT ![r] = "ended"]
       /\ value' = value + 1
    \/ /\ \E w \in Requests : First(w) /\ task' = [task EXCEPT ![r] = "ended", ![w] = "woken"]
       /\ UNCHANGED value

\* _route_to_coordinator ends: with an answer, without one, or by raising.
Reported(r) ==
    /\ task[r] = "reporting"
    /\ Release(r)
    /\ UNCHANGED waiters

\* Mutant: a task that failed keeps its slot.
FailureReportedLeaks(r) ==
    /\ task[r] = "failing"
    /\ task' = [task EXCEPT ![r] = "ended"]
    /\ UNCHANGED <<value, waiters>>

FailureReported(r) ==
    /\ task[r] = "failing"
    /\ Release(r)
    /\ UNCHANGED waiters

Step(r) ==
    Begin(r) \/ Resume(r) \/ Computed(r) \/ Raised(r) \/ Reported(r) \/ FailureReported(r)

Next == \E r \in Requests : ReceiveWork(r) \/ Step(r)

Spec == Init /\ [][Next]_vars

\* A ready task runs, a multiplication ends and so does a post (the session's
\* ten seconds).  Nobody need send another assignment.
FairSpec == Spec /\ \A r \in Requests : WF_vars(Step(r))

-----------------------------------------------------------------------------
(* Properties.                                                              *)

\* Tasks that hold a slot, a woken one included.
Holding == {r \in Requests : task[r] \in {"woken", "computing", "reporting", "failing"}}

Waiting == {r \in Requests : task[r] \in {"waiting", "woken"}}

\* Types; whoever waits is in the queue.
TypeOK ==
    /\ task \in [Requests -> {"absent", "refused", "created", "waiting", "woken", "computing",
                              "reporting", "failing", "ended"}]
    /\ value \in 0..MAX_CONCURRENT_BLOCKS
    /\ waiters \in Seq(Requests)
    /\ Waiting = {waiters[i] : i \in DOMAIN waiters}

\* No slot is lost or handed out twice, whichever way a block ends (a result, a
\* WorkerError, a report that raises) and however releases, woken tasks and new
\* arrivals meet.
SlotsBalance == value + Cardinality(Holding) = MAX_CONCURRENT_BLOCKS

\* A block whose assignment was answered with "accepted" is computed and
\* reported, though its slot was taken between the answer and the task's start,
\* and though assignments keep arriving.
AcceptedEnds == \A r \in Requests : task[r] = "created" ~> task[r] = "ended"
=============================================================================
