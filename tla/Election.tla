------------------------------ MODULE Election ------------------------------
(***************************************************************************)
(* The election of a new coordinator for one running job: election.py, the *)
(* health check of node.py that starts it, and resume_job, which ends it.  *)
(* The nodes share the jobs table (Coordinator says when they do); what a  *)
(* run does, and how several of one job get along, is Coordinator's.       *)
(*                                                                         *)
(* A node's coroutines of one kind differ only in where they are           *)
(* suspended, so they are counted.  Timers have no lengths: what is left   *)
(* open is which of two timers, or of a timer and a message, is first.  A  *)
(* task that was just created runs before the node's event loop turns to   *)
(* its timers and sockets again, so creating and beginning it are one step. *)
(***************************************************************************)
EXTENDS Naturals

CONSTANTS
    Nodes,       \* node ids, ordered as the code compares them
    First,       \* the coordinator the job was submitted to
    Null,        \* no entry in a dictionary
    Deaf,        \* pairs <<n, m>>: n has dropped the live m from its registry
    Crashable,   \* nodes that may die
    Restartable, \* nodes that may come back under the same id
    SlowRestart, \* only after the jobs they coordinated have been taken over
    MaxElections, \* bound on the elections of one node that wait for OKs
    MaxTasks     \* bound on its other coroutines of one kind

ASSUME NodesAssumption ==
    /\ Nodes \subseteq Nat
    /\ First \in Nodes
    /\ Deaf \subseteq Nodes \X Nodes
    /\ Crashable \subseteq Nodes /\ Restartable \subseteq Nodes
    /\ SlowRestart \in BOOLEAN
    /\ MaxElections \in Nat \ {0} /\ MaxTasks \in Nat \ {0}

VARIABLES
    alive,        \* node processes that are up
    status,       \* the job's row: its status
    coordinator,  \* its coordinator_id
    working,      \* nodes in which a run of the job is in progress
    elected,      \* history: nodes that became its coordinator by an election
    ok,           \* _ok_received[job] of each node
    done,         \* _election_done[job], where absent reads as FALSE
    waiting,      \* elections asleep for ELECTION_TIMEOUT
    announcing,   \* victories being announced
    okWaits,      \* on_ok_received calls asleep for COORDINATOR_ANNOUNCE_WAIT
    clears,       \* _clear_done timers
    messages      \* requests on their way

jobRow   == <<status, coordinator, working, elected>>
tables   == <<ok, done>>
tasks    == <<waiting, announcing, okWaits, clears>>
vars     == <<alive, jobRow, tables, tasks, messages>>

Message == [type: {"election", "ok", "announce"}, from: Nodes, to: Nodes]

Count == 0..MaxTasks

Init ==
    /\ alive = Nodes
    /\ status = "running" /\ coordinator = First /\ working = {First}
    /\ elected = {}
    /\ ok = [n \in Nodes |-> Null]
    /\ done = [n \in Nodes |-> FALSE]
    /\ waiting = [n \in Nodes |-> 0]
    /\ announcing = [n \in Nodes |-> 0]
    /\ okWaits = [n \in Nodes |-> 0]
    /\ clears = [n \in Nodes |-> 0]
    /\ messages = {}

Begins(n, count, max) == count[n] < max /\ count' = [count EXCEPT ![n] = @ + 1]
Ends(n, count)   == n \in alive /\ count[n] > 0 /\ count' = [count EXCEPT ![n] = @ - 1]

\* get_active_nodes, without self and those whose requests all fail: the dead
\* ones still listed and the browsers.
Heard(n)  == {m \in alive \ {n} : <<n, m>> \notin Deaf}
Above(n)  == {m \in Heard(n) : m > n}

Post(n, type, targets) ==
    messages' = messages \cup [type: {type}, from: {n}, to: targets]

-----------------------------------------------------------------------------
(* start_election.  It does nothing when _election_done[job] is set, or when *)
(* _active_tasks[job] has not ended.  A task that a handler creates is the    *)
(* one in _active_tasks when it begins: it finds itself there and returns.    *)
(* The tasks of the health check are in no dictionary, and proceed.           *)

\* Somebody with a higher id is listed, perhaps only a dead node or a browser.
Contend(n) ==
    /\ ok' = [ok EXCEPT ![n] = {}]
    /\ done' = [done EXCEPT ![n] = FALSE]
    /\ Post(n, "election", Above(n))
    /\ Begins(n, waiting, MaxElections)
    /\ UNCHANGED announcing

\* _declare_victory up to its await.
Declare(n) ==
    /\ done' = [done EXCEPT ![n] = TRUE]
    /\ Post(n, "announce", Heard(n))
    /\ Begins(n, announcing, MaxTasks)

WinUnopposed(n) ==
    /\ Above(n) = {}
    /\ ok' = [ok EXCEPT ![n] = {}]
    /\ Declare(n)
    /\ UNCHANGED waiting

StartElection(n) == ~done[n] /\ (Contend(n) \/ WinUnopposed(n))

\* Mutants of the check below: the coordinator's heartbeats are not looked at; a
\* node does not recognise itself as the coordinator.
HealthTickAlways(n) ==
    /\ n \in alive /\ status = "running"
    /\ coordinator # n
    /\ StartElection(n)
    /\ UNCHANGED <<alive, jobRow, okWaits, clears>>

HealthTickOwn(n) ==
    /\ n \in alive /\ status = "running"
    /\ coordinator \notin Heard(n)
    /\ StartElection(n)
    /\ UNCHANGED <<alive, jobRow, okWaits, clears>>

\* node.py, _coord_health_tick, every COORD_HEALTH_INTERVAL.
HealthTick(n) ==
    /\ n \in alive /\ status = "running"
    /\ coordinator # n /\ coordinator \notin Heard(n)
    /\ StartElection(n)
    /\ UNCHANGED <<alive, jobRow, okWaits, clears>>

\* _ok_received.get(job_id): an entry that was removed reads as one without OKs.
NoOk(n) == ok[n] \in {Null, {}}

WinByTimeout(n) ==
    /\ Ends(n, waiting) /\ NoOk(n)
    /\ Declare(n)
    /\ UNCHANGED <<alive, jobRow, ok, okWaits, clears>>

GiveWay(n) ==
    /\ Ends(n, waiting) /\ ~NoOk(n)
    /\ UNCHANGED <<alive, jobRow, tables, announcing, okWaits,
                   clears, messages>>

-----------------------------------------------------------------------------
(* _cleanup_job, and the rest of _declare_victory with resume_job.          *)

CleanupJob(n) ==
    /\ ok' = [ok EXCEPT ![n] = Null]
    /\ Begins(n, clears, MaxTasks)

BecomeCoordinator(n) ==
    /\ Ends(n, announcing)
    /\ CleanupJob(n)
    /\ \/ status = "complete" /\ UNCHANGED <<coordinator, working, elected>>
       \/ /\ status # "complete"
          /\ coordinator' = n /\ working' = working \cup {n} /\ elected' = elected \cup {n}
    /\ UNCHANGED <<alive, status, done, waiting, okWaits, messages>>

\* Mutants: the flag stays for good; it is set to None.
ClearDoneNever(n) ==
    /\ Ends(n, clears)
    /\ UNCHANGED <<alive, jobRow, tables, waiting, announcing, okWaits, messages>>

ClearDoneNull(n) ==
    /\ Ends(n, clears)
    /\ done' = [done EXCEPT ![n] = Null]
    /\ UNCHANGED <<alive, jobRow, ok, waiting, announcing, okWaits, messages>>

ClearDone(n) ==
    /\ Ends(n, clears)
    /\ done' = [done EXCEPT ![n] = FALSE]
    /\ UNCHANGED <<alive, jobRow, ok, waiting, announcing, okWaits, messages>>

-----------------------------------------------------------------------------
(* The handlers.                                                            *)

Receives(m, type) ==
    m \in messages /\ m.type = type /\ m.to \in alive /\ messages' = messages \ {m}

\* An OK is posted to a sender that is listed; the start_election task created
\* after it ends at once.
ReceiveElection(m) ==
    /\ m \in messages /\ m.type = "election" /\ m.to \in alive
    /\ messages' = (messages \ {m}) \cup
           [type: {"ok"}, from: {m.to}, to: {m.from} \cap Heard(m.to)]
    /\ UNCHANGED <<alive, jobRow, tables, tasks>>

ReceiveOk(m) ==
    /\ Receives(m, "ok")
    /\ ok' = [ok EXCEPT ![m.to] = IF @ = Null THEN Null ELSE @ \cup {m.from}]
    /\ Begins(m.to, okWaits, MaxTasks)
    /\ UNCHANGED <<alive, jobRow, done, waiting, announcing, clears>>

\* So does the one created here, after the entries were removed.
NoAnnouncement(n) ==
    /\ Ends(n, okWaits) /\ ~done[n]
    /\ ok' = [ok EXCEPT ![n] = Null]
    /\ UNCHANGED <<alive, jobRow, done, waiting, announcing, clears, messages>>

Announced(n) ==
    /\ Ends(n, okWaits) /\ done[n]
    /\ UNCHANGED <<alive, jobRow, tables, waiting, announcing, clears, messages>>

\* Mutant: the announcement's receiver puts the winner into the job's row.
ReceiveAnnounceWrites(m) ==
    /\ Receives(m, "announce")
    /\ done' = [done EXCEPT ![m.to] = TRUE]
    /\ CleanupJob(m.to)
    /\ coordinator' = m.from
    /\ UNCHANGED <<alive, status, working, elected, waiting, announcing, okWaits>>

\* The announcement is never the receiver's own: it is not posted to self.
ReceiveAnnounce(m) ==
    /\ Receives(m, "announce")
    /\ done' = [done EXCEPT ![m.to] = TRUE]
    /\ CleanupJob(m.to)
    /\ UNCHANGED <<alive, jobRow, waiting, announcing, okWaits>>

Lose(m) ==
    /\ m \in messages
    /\ messages' = messages \ {m}
    /\ UNCHANGED <<alive, jobRow, tables, tasks>>

-----------------------------------------------------------------------------
(* The run ends; processes die and come back with nothing in memory.        *)

JobEnds(n) ==
    /\ n \in working
    /\ status' \in IF status = "running" THEN {"complete", "failed"} ELSE {status}
    /\ working' = working \ {n}
    /\ UNCHANGED <<alive, coordinator, elected, tables, tasks, messages>>

Crash(n) ==
    /\ n \in alive \cap Crashable
    /\ alive' = alive \ {n}
    /\ working' = working \ {n}
    /\ ok' = [ok EXCEPT ![n] = Null]
    /\ done' = [done EXCEPT ![n] = FALSE]
    /\ waiting' = [waiting EXCEPT ![n] = 0]
    /\ announcing' = [announcing EXCEPT ![n] = 0]
    /\ okWaits' = [okWaits EXCEPT ![n] = 0]
    /\ clears' = [clears EXCEPT ![n] = 0]
    /\ UNCHANGED <<status, coordinator, elected, messages>>

Restart(n) ==
    /\ n \in Restartable \ alive
    /\ SlowRestart /\ status = "running" => coordinator # n
    /\ alive' = alive \cup {n}
    /\ UNCHANGED <<jobRow, tables, tasks, messages>>

-----------------------------------------------------------------------------
WaitEnds(n) == WinByTimeout(n) \/ GiveWay(n)
OkWaitEnds(n) == NoAnnouncement(n) \/ Announced(n)

NodeStep(n) ==
    \/ HealthTick(n) \/ WaitEnds(n) \/ BecomeCoordinator(n)
    \/ ClearDone(n) \/ OkWaitEnds(n)

Next ==
    \/ \E n \in Nodes : NodeStep(n) \/ JobEnds(n) \/ Crash(n) \/ Restart(n)
    \/ \E m \in messages :
           ReceiveElection(m) \/ ReceiveOk(m) \/ ReceiveAnnounce(m) \/ Lose(m)

Spec == Init /\ [][Next]_vars

\* The health check repeats, the event loop runs every task, timers expire and
\* posts end.  Nothing is assumed of messages, of runs or of crashes.
FairSpec ==
    Spec /\ \A n \in Nodes :
                /\ WF_vars(HealthTick(n))
                /\ WF_vars(WaitEnds(n)) /\ WF_vars(BecomeCoordinator(n))
                /\ WF_vars(ClearDone(n))
                /\ WF_vars(OkWaitEnds(n))

-----------------------------------------------------------------------------
(* Properties.                                                              *)

\* Every node's election state, task counts and the job's row have their types.
TypeOK ==
    /\ alive \subseteq Nodes
    /\ status \in {"running", "complete", "failed"}
    /\ coordinator \in Nodes /\ working \subseteq alive /\ elected \subseteq Nodes
    /\ ok \in [Nodes -> {Null} \cup SUBSET Nodes]
    /\ done \in [Nodes -> BOOLEAN]
    /\ waiting \in [Nodes -> 0..MaxElections] /\ announcing \in [Nodes -> Count]
    /\ okWaits \in [Nodes -> Count] /\ clears \in [Nodes -> Count]
    /\ messages \subseteq Message

\* What the health check relies on when it leaves a job alone because its
\* coordinator's node is up: that node works on the job.
CoordinatorWorks ==
    status = "running" /\ coordinator \in alive => coordinator \in working

\* What Coordinator's MayResume assumes: a node takes over a job that is its own
\* already only if it became its coordinator by an election before.
TakeoverIsDue ==
    [][\A n \in Nodes : BecomeCoordinator(n) /\ coordinator = n => n \in elected]_vars

\* Nodes stop dying and coming back.
NodesSettle == <>[][FALSE]_alive

\* A running job that nobody works on gets a coordinator, whatever messages are
\* lost and however announcements, OKs and timers overlap, once nodes settle.
CoordinatorEmerges ==
    NodesSettle =>
        ((status = "running" /\ working = {}) ~> (working # {} \/ status # "running"))

\* Elections end: once nodes settle the job's coordinator stops changing.
Stabilises == NodesSettle => <>[][FALSE]_coordinator
=============================================================================
