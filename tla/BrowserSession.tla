--------------------------- MODULE BrowserSession ---------------------------
(***************************************************************************)
(* One browser and one node: the page's WebSocket and its reconnects       *)
(* (web/app.js), the handler the node runs for each socket, the tables of  *)
(* browsers and sockets those handlers share (server.py /ws, node.py), and *)
(* the way of a job's result to the page: pushed to every socket when the  *)
(* job completes, or fetched when the page comes back.                     *)
(*                                                                         *)
(* A socket has two ends that learn of its end at different times.  The    *)
(* page keeps its id and its last job in localStorage across visits.       *)
(* Sockets are reused once both ends are through with them.                *)
(*                                                                         *)
(* Left out: the blocks a browser computes (Coordinator), subscribe_job    *)
(* (a socket that subscribes gets every job_complete anyway), what the     *)
(* page displays beside results.                                           *)
(***************************************************************************)
EXTENDS Naturals, Sequences, FiniteSets

CONSTANTS
    Sockets,    \* WebSocket connections that may exist at a time
    Jobs,       \* jobs of this node
    MaxDrops,   \* bound on connections cut while both ends are up
    Null

ASSUME SessionAssumption ==
    /\ MaxDrops \in Nat
    /\ Null \notin Sockets /\ Null \notin Jobs

VARIABLES
    visiting,   \* whether the page is loaded
    client,     \* readyState of each socket at the page
    ws,         \* the page's current socket
    timers,     \* reconnects scheduled
    lastJob,    \* matmul_last_job in localStorage
    submits,    \* jobs whose answer to /submit is on its way
    polls,      \* jobs the page is fetching
    shown,      \* jobs whose result the page has rendered
    serving,    \* the node's handler of each socket
    wire,       \* messages to the node, browser_register before all others
    push,       \* job_complete messages to the page
    table,      \* _browser_sockets[id]
    row,        \* whether the nodes table has the browser
    ui,         \* _ui_sockets
    sending,    \* sockets _send_to_browser is writing an assignment to
    status,     \* of each job
    targets,    \* sockets a job_complete has still to be written to
    robbed,     \* history: the page's current socket was taken from the table
                \* on behalf of another
    mine,       \* history: the jobs the page submitted
    drops       \* connections cut so far

page    == <<visiting, client, ws, timers, lastJob, submits, polls, shown>>
tables  == <<table, row, ui, robbed>>
jobs    == <<status, targets, mine>>
vars    == <<page, serving, wire, push, tables, sending, jobs, drops>>

Init ==
    /\ visiting = FALSE
    /\ client = [s \in Sockets |-> "closed"]
    /\ ws = Null
    /\ timers = 0 /\ drops = 0 /\ mine = {}
    /\ lastJob = Null
    /\ submits = {} /\ polls = {} /\ shown = {}
    /\ serving = [s \in Sockets |-> "no"]
    /\ wire = [s \in Sockets |-> {}]
    /\ push = [s \in Sockets |-> <<>>]
    /\ table = Null /\ row = FALSE /\ ui = {} /\ robbed = FALSE
    /\ sending = {}
    /\ status = [j \in Jobs |-> "new"]
    /\ targets = [j \in Jobs |-> {}]

-----------------------------------------------------------------------------
(* The page: connect, onopen, onclose, scheduleReconnect.                   *)

Live == {s \in Sockets : client[s] # "closed"}
Served(s) == serving[s] \in {"accepted", "named"}

\* Both ends are through with a socket.
Unused(s) ==
    s \notin Live /\ serving[s] \in {"no", "over"} /\ s \notin sending
              /\ \A j \in Jobs : s \notin targets[j]

Connect(s) ==
    /\ Unused(s)
    /\ client' = [client EXCEPT ![s] = "connecting"]
    /\ serving' = [serving EXCEPT ![s] = "no"]
    /\ wire' = [wire EXCEPT ![s] = {}]
    /\ push' = [push EXCEPT ![s] = <<>>]
    /\ ws' = s

Load(s) ==
    /\ ~visiting /\ Connect(s)
    /\ visiting' = TRUE
    /\ UNCHANGED <<timers, lastJob, submits, polls, shown, tables, sending, jobs, drops>>

Reconnect(s) ==
    /\ timers > 0 /\ Connect(s)
    /\ timers' = timers - 1
    /\ UNCHANGED <<visiting, lastJob, submits, polls, shown, tables, sending, jobs, drops>>

\* The tab is closed: no onclose, no timers, answers are dropped.
Leave ==
    /\ visiting
    /\ visiting' = FALSE
    /\ client' = [s \in Sockets |-> "closed"]
    /\ timers' = 0 /\ submits' = {} /\ polls' = {} /\ shown' = {}
    /\ UNCHANGED <<ws, lastJob, serving, wire, push, tables, sending, jobs, drops>>

\* Mutants: the page asks for its last job when it has none, and never.
OpenedAsksAnyway(s) ==
    /\ client[s] = "connecting" /\ Served(s)
    /\ client' = [client EXCEPT ![s] = "open"]
    /\ wire' = [wire EXCEPT ![s] = {"register"}]
    /\ polls' = polls \cup {lastJob}
    /\ UNCHANGED <<visiting, ws, timers, lastJob, submits, shown, serving, push, tables, sending,
                   jobs, drops>>

OpenedSilent(s) ==
    /\ client[s] = "connecting" /\ Served(s)
    /\ client' = [client EXCEPT ![s] = "open"]
    /\ wire' = [wire EXCEPT ![s] = {"register"}]
    /\ UNCHANGED <<visiting, ws, timers, lastJob, submits, polls, shown, serving, push, tables, sending,
                   jobs, drops>>

\* onopen: register, and ask for the last job.
Opened(s) ==
    /\ client[s] = "connecting" /\ Served(s)
    /\ client' = [client EXCEPT ![s] = "open"]
    /\ wire' = [wire EXCEPT ![s] = {"register"}]
    /\ polls' = IF lastJob = Null THEN polls ELSE polls \cup {lastJob}
    /\ UNCHANGED <<visiting, ws, timers, lastJob, submits, shown, serving, push, tables, sending,
                   jobs, drops>>

\* Mutants: onerror, which precedes onclose, schedules a reconnect too; only a
\* socket that has opened is reconnected.
OnCloseTwice(s) ==
    /\ client' = [client EXCEPT ![s] = "closed"]
    /\ timers' = timers + 2
    /\ polls' \in {polls, {}}

OnCloseOpened(s) ==
    /\ client' = [client EXCEPT ![s] = "closed"]
    /\ timers' = IF client[s] = "open" THEN timers + 1 ELSE timers
    /\ polls' \in {polls, {}}

\* onclose.  Requests under way may be lost with the connection.
OnClose(s) ==
    /\ client' = [client EXCEPT ![s] = "closed"]
    /\ timers' = timers + 1
    /\ polls' \in {polls, {}}

\* The connection is refused, or cut at the page; or the node has closed it.
Cut(s) ==
    /\ s \in Live /\ serving[s] \in {"no", "accepted", "named"}
    /\ drops < MaxDrops
    /\ drops' = drops + 1
    /\ OnClose(s)
    /\ UNCHANGED <<visiting, ws, lastJob, submits, shown, serving, wire, push, tables, sending, jobs>>

Closed(s) ==
    /\ s \in Live /\ serving[s] \in {"ending", "over"}
    /\ OnClose(s)
    /\ UNCHANGED <<visiting, ws, lastJob, submits, shown, serving, wire, push, tables, sending, jobs,
                   drops>>

\* The heartbeat interval.
Beat ==
    /\ visiting /\ client[ws] = "open"
    /\ wire' = [wire EXCEPT ![ws] = @ \cup {"heartbeat"}]
    /\ UNCHANGED <<page, serving, push, tables, sending, jobs, drops>>

-----------------------------------------------------------------------------
(* The page's jobs and results.                                             *)

Submit(j) ==
    /\ visiting /\ status[j] = "new"
    /\ status' = [status EXCEPT ![j] = "running"]
    /\ submits' = submits \cup {j}
    /\ mine' = mine \cup {j}
    /\ UNCHANGED <<visiting, client, ws, timers, lastJob, polls, shown, serving, wire, push, tables,
                   sending, targets, drops>>

Submitted(j) ==
    /\ j \in submits
    /\ submits' = submits \ {j}
    /\ lastJob' = j
    /\ UNCHANGED <<visiting, client, ws, timers, polls, shown, serving, wire, push, tables, sending,
                   jobs, drops>>

\* job_complete: it is shown, whoever submitted it, and becomes the last job.
Receive(s) ==
    /\ client[s] = "open" /\ push[s] # <<>>
    /\ push' = [push EXCEPT ![s] = Tail(@)]
    /\ shown' = shown \cup {Head(push[s])}
    /\ lastJob' = Head(push[s])
    /\ UNCHANGED <<visiting, client, ws, timers, submits, polls, serving, wire, tables, sending, jobs,
                   drops>>

\* pollResult: a job that is not complete is left to job_complete.
PollAnswered(j) ==
    /\ j \in polls
    /\ polls' = polls \ {j}
    /\ shown' = IF status[j] \in {"complete", "announced"} THEN shown \cup {j} ELSE shown
    /\ UNCHANGED <<visiting, client, ws, timers, lastJob, submits, serving, wire, push, tables, sending,
                   jobs, drops>>

-----------------------------------------------------------------------------
(* The node: websocket_endpoint.                                            *)

Accept(s) ==
    /\ client[s] = "connecting" /\ serving[s] = "no"
    /\ serving' = [serving EXCEPT ![s] = "accepted"]
    /\ ui' = ui \cup {s}
    /\ UNCHANGED <<page, wire, push, table, row, robbed, sending, jobs, drops>>

\* A change to the table on behalf of s takes the page's current socket out.
Robs(s) == table = ws /\ ws \notin {s, Null}

\* browser_register.
Register(s) ==
    /\ Served(s) /\ "register" \in wire[s]
    /\ serving' = [serving EXCEPT ![s] = "named"]
    /\ wire' = [wire EXCEPT ![s] = @ \ {"register"}]
    /\ table' = s /\ robbed' = (s # ws /\ (robbed \/ Robs(s)))
    /\ row' = TRUE
    /\ UNCHANGED <<page, push, ui, sending, jobs, drops>>

\* A heartbeat renews the row and not the table.
Heartbeat(s) ==
    /\ Served(s) /\ "heartbeat" \in wire[s] /\ "register" \notin wire[s]
    /\ wire' = [wire EXCEPT ![s] = @ \ {"heartbeat"}]
    /\ row' = (row \/ serving[s] = "named")
    /\ UNCHANGED <<page, serving, push, table, ui, robbed, sending, jobs, drops>>

\* Mutant: the socket is left in the table.
CleanUpKeeps(s) ==
    /\ serving' = [serving EXCEPT ![s] = IF @ = "named" THEN "ending" ELSE "over"]
    /\ wire' = [wire EXCEPT ![s] = {}]
    /\ ui' = ui \ {s}
    /\ UNCHANGED <<table, robbed>>

\* The handler's finally: whatever socket the browser is listed with goes.
CleanUp(s) ==
    /\ serving' = [serving EXCEPT ![s] = IF @ = "named" THEN "ending" ELSE "over"]
    /\ wire' = [wire EXCEPT ![s] = {}]
    /\ ui' = ui \ {s}
    /\ table' = IF serving[s] = "named" THEN Null ELSE table
    /\ robbed' = (robbed \/ (serving[s] = "named" /\ Robs(s)))

\* The handler ends because the page is gone (its pings are unanswered at the
\* latest: ws_ping_timeout), or because the connection is cut at the node.
End(s) ==
    /\ Served(s) /\ s \notin Live
    /\ CleanUp(s)
    /\ UNCHANGED <<page, push, row, sending, jobs, drops>>

EndCut(s) ==
    /\ Served(s) /\ s \in Live
    /\ drops < MaxDrops
    /\ drops' = drops + 1
    /\ CleanUp(s)
    /\ UNCHANGED <<page, push, row, sending, jobs>>

\* Mutant: nothing but the heartbeats' absence would remove the row.
RowStays(s) ==
    /\ serving[s] = "ending"
    /\ serving' = [serving EXCEPT ![s] = "over"]
    /\ UNCHANGED <<page, wire, push, tables, sending, jobs, drops>>

\* remove_node, which may have waited for the storage's lock.
RowRemoved(s) ==
    /\ serving[s] = "ending"
    /\ serving' = [serving EXCEPT ![s] = "over"]
    /\ row' = FALSE
    /\ UNCHANGED <<page, wire, push, table, ui, robbed, sending, jobs, drops>>

-----------------------------------------------------------------------------
(* Writing to the page: _send_to_browser, broadcast_to_job_browsers.        *)

Broken(s) == s \notin Live \/ ~Served(s)

StartAssign ==
    /\ table # Null
    /\ sending' = sending \cup {table}
    /\ UNCHANGED <<page, serving, wire, push, tables, jobs, drops>>

AssignSent(s) ==
    /\ s \in sending
    /\ sending' = sending \ {s}
    /\ UNCHANGED <<page, serving, wire, push, tables, jobs, drops>>

\* The write fails, and the browser's entry is removed, which may by now be
\* another socket.
AssignFails(s) ==
    /\ s \in sending /\ Broken(s)
    /\ sending' = sending \ {s}
    /\ table' = Null
    /\ robbed' = (robbed \/ Robs(s))
    /\ UNCHANGED <<page, serving, wire, push, row, ui, jobs, drops>>

\* A job of somebody else is started, and any job completes: its status first,
\* then the message.
StartOther(j) ==
    /\ status[j] = "new"
    /\ status' = [status EXCEPT ![j] = "running"]
    /\ UNCHANGED <<page, serving, wire, push, tables, sending, targets, mine, drops>>

Complete(j) ==
    /\ status[j] = "running"
    /\ status' = [status EXCEPT ![j] = "complete"]
    /\ UNCHANGED <<page, serving, wire, push, tables, sending, targets, mine, drops>>

Broadcast(j) ==
    /\ status[j] = "complete"
    /\ status' = [status EXCEPT ![j] = "announced"]
    /\ targets' = [targets EXCEPT ![j] = ui]
    /\ UNCHANGED <<page, serving, wire, push, tables, sending, mine, drops>>

\* A broken socket swallows the message or raises, and is then discarded.
Write(j, s) ==
    /\ s \in targets[j]
    /\ targets' = [targets EXCEPT ![j] = @ \ {s}]
    /\ \/ ~Broken(s) /\ push' = [push EXCEPT ![s] = Append(@, j)] /\ ui' = ui
       \/ Broken(s) /\ push' = push /\ ui' \in {ui, ui \ {s}}
    /\ UNCHANGED <<page, serving, wire, table, row, robbed, sending, status, mine, drops>>

-----------------------------------------------------------------------------
PageStep ==
    \/ Leave \/ Beat
    \/ \E s \in Sockets : Load(s) \/ Reconnect(s) \/ Opened(s) \/ Cut(s) \/ Closed(s) \/ Receive(s)
    \/ \E j \in Jobs : Submit(j) \/ Submitted(j) \/ PollAnswered(j)

NodeStep ==
    \/ StartAssign
    \/ \E s \in Sockets :
          \/ Accept(s) \/ Register(s) \/ Heartbeat(s) \/ End(s) \/ EndCut(s) \/ RowRemoved(s)
          \/ AssignSent(s) \/ AssignFails(s)
    \/ \E j \in Jobs :
          \/ StartOther(j) \/ Complete(j) \/ Broadcast(j)
          \/ \E s \in Sockets : Write(j, s)

Next == PageStep \/ NodeStep

Spec == Init /\ [][Next]_vars

\* Timers expire, messages on a connection that stays up arrive, requests are
\* answered, writes return, ends of connections are noticed (pings), and running
\* jobs complete.
FairSpec ==
    /\ Spec
    /\ WF_vars(Beat) /\ WF_vars(\E s \in Sockets : Reconnect(s))
    /\ \A s \in Sockets :
          /\ WF_vars(Opened(s)) /\ WF_vars(Closed(s)) /\ WF_vars(Receive(s))
          /\ WF_vars(Accept(s)) /\ WF_vars(Register(s)) /\ WF_vars(Heartbeat(s))
          /\ WF_vars(End(s)) /\ WF_vars(RowRemoved(s))
          /\ WF_vars(AssignSent(s) \/ AssignFails(s))
    /\ \A j \in Jobs :
          /\ WF_vars(Submitted(j)) /\ WF_vars(PollAnswered(j))
          /\ WF_vars(Complete(j)) /\ WF_vars(Broadcast(j))
          /\ \A s \in Sockets : WF_vars(Write(j, s))

-----------------------------------------------------------------------------
(* Properties.                                                              *)

\* Types.
TypeOK ==
    /\ visiting \in BOOLEAN /\ row \in BOOLEAN /\ robbed \in BOOLEAN
    /\ client \in [Sockets -> {"connecting", "open", "closed"}]
    /\ ws \in Sockets \cup {Null} /\ table \in Sockets \cup {Null}
    /\ timers \in Nat /\ drops \in 0..MaxDrops
    /\ lastJob \in Jobs \cup {Null}
    /\ submits \subseteq mine /\ mine \subseteq Jobs /\ polls \subseteq Jobs /\ shown \subseteq Jobs
    /\ serving \in [Sockets -> {"no", "accepted", "named", "ending", "over"}]
    /\ wire \in [Sockets -> SUBSET {"register", "heartbeat"}]
    /\ push \in [Sockets -> Seq(Jobs)]
    /\ ui \subseteq Sockets /\ sending \subseteq Sockets
    /\ status \in [Jobs -> {"new", "running", "complete", "announced"}]
    /\ targets \in [Jobs -> SUBSET Sockets]

\* What the node's tables say of the browser is backed by a handler that will
\* take it back: however sockets of one browser overlap, no entry outlives them.
NoGhosts ==
    /\ table # Null => serving[table] = "named"
    /\ row => \E s \in Sockets : serving[s] \in {"named", "ending"}
    /\ \A s \in ui : Served(s)

\* A page in view has one connection or one reconnect on the way to one, never
\* two chains and never none; a page that is gone has neither.
OneChain == Cardinality(Live) + timers = IF visiting THEN 1 ELSE 0

\* A page that stays gets listed for work and remains so, unless a late
\* message or the end of an older socket of its own took the entry away.  Its row in the nodes table
\* remains in either case: heartbeats restore it.
StaysListed == <>[]visiting => <>[]((robbed \/ (table = ws /\ ws # Null)) /\ row)

\* Once a page stays away the node forgets the browser.
GoneIsUnlisted == <>[]~visiting => <>[](table = Null /\ ~row /\ ui = {})

Offline == ws = Null \/ client[ws] # "open"

\* A page without a connection, or not in view, whose last job is j has j's
\* result before it when it comes back, whether the job completes before, while
\* or after it does.
ReturnGetsResult ==
    <>[]visiting => \A j \in Jobs : (lastJob = j /\ Offline) ~> (j \in shown \/ lastJob # j)
=============================================================================
