----------------------------- MODULE Membership -----------------------------
(***************************************************************************)
(* Which nodes a node knows, and which it takes to be alive: mDNS          *)
(* discovery (discovery.py), registration, heartbeats, the cleanup of the  *)
(* registry and the test the coordinator health check makes (node.py,      *)
(* server.py /nodes/register and /heartbeat).                              *)
(*                                                                         *)
(* Time is abstracted: an entry's age is fresh (under 9 s: the node is     *)
(* given blocks), quiet (9 to 15 s) or silent (the node is dead to the     *)
(* health check), and it ages only while no heartbeat that would be        *)
(* accepted is on its way, one being sent every second.                    *)
(*                                                                         *)
(* Left out: ports, addresses and renamed services (the fallback of        *)
(* remove_service finds the same id), the nodes table, browsers            *)
(* (BrowserSession), and clocks that differ: /nodes/register stores the    *)
(* sender's time.                                                          *)
(***************************************************************************)
EXTENDS Naturals, FiniteSets

CONSTANTS
    Nodes,
    MaxStarts,  \* bound on starts of all nodes together
    MaxCuts,    \* bound on nodes' losses of the network
    MaxLost     \* bound on requests lost between nodes that are connected

ASSUME MembershipAssumption ==
    MaxStarts \in Nat /\ MaxCuts \in Nat /\ MaxLost \in Nat

VARIABLES
    up,         \* joining: discovery runs, the HTTP server does not yet
    grace,      \* nodes within STARTUP_GRACE
    announcing, \* nodes whose _announce_to_peers sleeps
    reg,        \* _registry of each node: the age of each other node
    heard,      \* external: peers whose present mDNS record a node has cached
    resolving,  \* peers in _async_resolve at each node
    posts,      \* <<from, to>>: POSTs to /nodes/register under way
    away,       \* nodes off the network
    starts, cuts, lost,
    gaps        \* history: <<n, m>>: n dropped m for its silence, or failed to
                \* learn of it

vars == <<up, grace, announcing, reg, heard, resolving, posts, away, starts, cuts, lost, gaps>>

Pairs == {p \in Nodes \X Nodes : p[1] # p[2]}
Others(n) == Nodes \ {n}

Init ==
    /\ up = [n \in Nodes |-> "down"]
    /\ grace = {} /\ announcing = {} /\ posts = {} /\ away = {} /\ gaps = {}
    /\ reg = [p \in Pairs |-> "absent"]
    /\ heard = [n \in Nodes |-> {}]
    /\ resolving = [n \in Nodes |-> {}]
    /\ starts = 0 /\ cuts = 0 /\ lost = 0

Linked(n, m) == n \notin away /\ m \notin away

\* Mutant: a node that is not in the registry is not missed.
AliveOrUnknown(n, m) == reg[<<n, m>>] # "silent"

\* The health check's test: in the registry, and heard of for 15 s.
Alive(n, m) == reg[<<n, m>>] \in {"fresh", "quiet"}

\* The node would start an election for a job m coordinates.
Suspects(n, m) == up[n] = "up" /\ n \notin grace /\ ~Alive(n, m)

\* m's heartbeats arrive at n and are accepted: both know each other.
Beating(m, n) ==
    up[m] = "up" /\ up[n] = "up" /\ Linked(n, m) /\ reg[<<m, n>>] # "absent" /\ reg[<<n, m>>] # "absent"

\* The library hands over a record it did not have in this form.
CanHear(n, m) == up[n] # "down" /\ up[m] # "down" /\ Linked(n, m) /\ m \notin heard[n]

\* A node is starting, or something about one is on its way to the other.
Busy(n, m) ==
    \/ up[n] = "joining" \/ up[m] = "joining"
    \/ CanHear(n, m) \/ CanHear(m, n)
    \/ n \in resolving[m] \/ m \in resolving[n]
    \/ <<n, m>> \in posts \/ <<m, n>> \in posts

-----------------------------------------------------------------------------
(* Start and end of a process, and of its connection.                       *)

Begin(n) ==
    /\ up[n] = "down" /\ starts < MaxStarts
    /\ up' = [up EXCEPT ![n] = "joining"]
    /\ starts' = starts + 1
    /\ reg' = [p \in Pairs |-> IF p[1] = n THEN "absent" ELSE reg[p]]
    /\ heard' = [m \in Nodes |-> IF m = n THEN {} ELSE heard[m] \ {n}]
    /\ announcing' = announcing \cup {n}
    /\ gaps' = {p \in gaps : n \notin {p[1], p[2]}}
    /\ UNCHANGED <<resolving, posts, away, cuts, lost>>

\* Mutant: health is checked from the start.
StartBold(n) == Begin(n) /\ grace' = grace

\* A registry is not persisted; the record is announced anew.
Start(n) == Begin(n) /\ grace' = grace \cup {n}

\* The HTTP server and the loops run.
Serve(n) ==
    /\ up[n] = "joining"
    /\ up' = [up EXCEPT ![n] = "up"]
    /\ UNCHANGED <<grace, announcing, reg, heard, resolving, posts, away, starts, cuts, lost, gaps>>

\* A crash, or a shutdown.
Stop(n) ==
    /\ up[n] # "down"
    /\ up' = [up EXCEPT ![n] = "down"]
    /\ grace' = grace \ {n} /\ announcing' = announcing \ {n}
    /\ resolving' = [resolving EXCEPT ![n] = {}]
    /\ UNCHANGED <<reg, heard, posts, away, starts, cuts, lost, gaps>>

Cut(n) ==
    /\ n \notin away /\ cuts < MaxCuts
    /\ away' = away \cup {n}
    /\ cuts' = cuts + 1
    /\ UNCHANGED <<up, grace, announcing, reg, heard, resolving, posts, starts, lost, gaps>>

Return(n) ==
    /\ n \in away
    /\ away' = away \ {n}
    /\ UNCHANGED <<up, grace, announcing, reg, heard, resolving, posts, starts, cuts, lost, gaps>>

-----------------------------------------------------------------------------
(* mDNS: add_service, update_service, remove_service, _async_resolve.       *)

Hear(n, m) ==
    /\ CanHear(n, m)
    /\ heard' = [heard EXCEPT ![n] = @ \cup {m}]
    /\ resolving' = [resolving EXCEPT ![n] = @ \cup {m}]
    /\ UNCHANGED <<up, grace, announcing, reg, posts, away, starts, cuts, lost, gaps>>

\* A goodbye, or the record expires: remove_service, _on_node_lost.
Unhear(n, m) ==
    /\ up[n] # "down" /\ m \in heard[n] /\ (up[m] = "down" \/ ~Linked(n, m))
    /\ heard' = [heard EXCEPT ![n] = @ \ {m}]
    /\ reg' = [reg EXCEPT ![<<n, m>>] = "absent"]
    /\ UNCHANGED <<up, grace, announcing, resolving, posts, away, starts, cuts, lost, gaps>>

Learn(n, m) ==
    /\ reg' = [reg EXCEPT ![<<n, m>>] = "fresh"]
    /\ gaps' = gaps \ {<<n, m>>}

Unlearnt(n, m) ==
    /\ reg' = reg
    /\ gaps' = IF reg[<<n, m>>] = "absent" THEN gaps \cup {<<n, m>>} ELSE gaps

\* _on_node_found registers the peer and greets it.  The record may be the
\* cached one of a peer that has gone.
Resolved(n, m) ==
    /\ m \in resolving[n]
    /\ resolving' = [resolving EXCEPT ![n] = @ \ {m}]
    /\ Learn(n, m)
    /\ posts' = posts \cup {<<n, m>>}
    /\ UNCHANGED <<up, grace, announcing, heard, away, starts, cuts, lost>>

\* A request fails: nobody listens, or it is lost.
Fails(n, m, listens) ==
    /\ \/ ~listens /\ lost' = lost
       \/ listens /\ lost < MaxLost /\ lost' = lost + 1

Unresolved(n, m) ==
    /\ m \in resolving[n]
    /\ resolving' = [resolving EXCEPT ![n] = @ \ {m}]
    /\ Fails(n, m, up[m] # "down" /\ Linked(n, m))
    /\ Unlearnt(n, m)
    /\ UNCHANGED <<up, grace, announcing, heard, posts, away, starts, cuts>>

-----------------------------------------------------------------------------
(* Registration, heartbeats, cleanup.                                       *)

\* Mutant: the registry has the node itself.
AnnounceToSelf(n) ==
    /\ n \in announcing /\ up[n] = "up"
    /\ announcing' = announcing \ {n}
    /\ posts' = posts \cup {<<n, m>> : m \in {o \in Others(n) : reg[<<n, o>>] # "absent"} \cup {n}}
    /\ UNCHANGED <<up, grace, reg, heard, resolving, away, starts, cuts, lost, gaps>>

\* _announce_to_peers, two seconds after the start.
Announce(n) ==
    /\ n \in announcing /\ up[n] = "up"
    /\ announcing' = announcing \ {n}
    /\ posts' = posts \cup {<<n, m>> : m \in {o \in Others(n) : reg[<<n, o>>] # "absent"}}
    /\ UNCHANGED <<up, grace, reg, heard, resolving, away, starts, cuts, lost, gaps>>

\* /nodes/register at m; the sender may have ended meanwhile.
Registered(n, m) ==
    /\ <<n, m>> \in posts /\ up[m] = "up" /\ Linked(n, m)
    /\ posts' = posts \ {<<n, m>>}
    /\ Learn(m, n)
    /\ UNCHANGED <<up, grace, announcing, heard, resolving, away, starts, cuts, lost>>

Unregistered(n, m) ==
    /\ <<n, m>> \in posts
    /\ posts' = posts \ {<<n, m>>}
    /\ Fails(n, m, up[m] = "up" /\ up[n] # "down" /\ Linked(n, m))
    /\ IF up[m] = "down" THEN UNCHANGED <<reg, gaps>> ELSE Unlearnt(m, n)
    /\ UNCHANGED <<up, grace, announcing, heard, resolving, away, starts, cuts>>

\* A heartbeat of m at n.
Heartbeat(m, n) ==
    /\ Beating(m, n)
    /\ reg' = [reg EXCEPT ![<<n, m>>] = "fresh"]
    /\ UNCHANGED <<up, grace, announcing, heard, resolving, posts, away, starts, cuts, lost, gaps>>

\* A request takes less than the 15 s it takes to be silent, a node joins in less.
Age(n, m) ==
    /\ up[n] = "up" /\ ~Beating(m, n) /\ ~Busy(n, m)
    /\ reg[<<n, m>>] \in {"fresh", "quiet"}
    /\ reg' = [reg EXCEPT ![<<n, m>>] = IF @ = "fresh" THEN "quiet" ELSE "silent"]
    /\ UNCHANGED <<up, grace, announcing, heard, resolving, posts, away, starts, cuts, lost, gaps>>

Silent(n) == {m \in Others(n) : reg[<<n, m>>] = "silent"}

\* Mutant: the cleanup goes by the age at which a node is no longer given blocks.
PruneEarly(n) ==
    LET old == {m \in Others(n) : reg[<<n, m>>] \in {"quiet", "silent"}} IN
    /\ up[n] = "up" /\ old # {}
    /\ reg' = [p \in Pairs |-> IF p[1] = n /\ p[2] \in old THEN "absent" ELSE reg[p]]
    /\ gaps' = gaps \cup ({n} \X Silent(n))
    /\ UNCHANGED <<up, grace, announcing, heard, resolving, posts, away, starts, cuts, lost>>

\* _cleanup_tick.
Prune(n) ==
    /\ up[n] = "up" /\ Silent(n) # {}
    /\ reg' = [p \in Pairs |-> IF p[1] = n /\ p[2] \in Silent(n) THEN "absent" ELSE reg[p]]
    /\ gaps' = gaps \cup ({n} \X Silent(n))
    /\ UNCHANGED <<up, grace, announcing, heard, resolving, posts, away, starts, cuts, lost>>

\* Half a minute is enough for what a start sets off, and for a heartbeat.
Settled(n) ==
    /\ n \notin announcing
    /\ \A m \in Others(n) :
          /\ ~Busy(n, m)
          /\ Beating(m, n) => reg[<<n, m>>] = "fresh" /\ reg[<<m, n>>] = "fresh"

GraceEnds(n) ==
    /\ up[n] = "up" /\ n \in grace /\ Settled(n)
    /\ grace' = grace \ {n}
    /\ UNCHANGED <<up, announcing, reg, heard, resolving, posts, away, starts, cuts, lost, gaps>>

-----------------------------------------------------------------------------
Next ==
    \/ \E n \in Nodes :
          \/ Start(n) \/ Serve(n) \/ Stop(n) \/ Cut(n) \/ Return(n)
          \/ Announce(n) \/ Prune(n) \/ GraceEnds(n)
    \/ \E p \in Pairs : LET n == p[1]  m == p[2] IN
          \/ Hear(n, m) \/ Unhear(n, m) \/ Resolved(n, m) \/ Unresolved(n, m)
          \/ Registered(n, m) \/ Unregistered(n, m) \/ Heartbeat(n, m) \/ Age(n, m)

Spec == Init /\ [][Next]_vars

\* Loops tick, requests end one way or the other, multicast is repeated.
FairSpec ==
    /\ Spec
    /\ \A n \in Nodes :
          WF_vars(Serve(n)) /\ WF_vars(Announce(n)) /\ WF_vars(Prune(n)) /\ WF_vars(GraceEnds(n))
    /\ \A p \in Pairs : LET n == p[1]  m == p[2] IN
          /\ WF_vars(Hear(n, m)) /\ WF_vars(Resolved(n, m) \/ Unresolved(n, m))
          /\ WF_vars(Registered(n, m) \/ Unregistered(n, m))
          /\ WF_vars(Heartbeat(n, m)) /\ WF_vars(Age(n, m))

-----------------------------------------------------------------------------
(* Properties.                                                              *)

\* Types.
TypeOK ==
    /\ up \in [Nodes -> {"down", "joining", "up"}]
    /\ grace \subseteq Nodes /\ announcing \subseteq Nodes /\ away \subseteq Nodes
    /\ reg \in [Pairs -> {"absent", "fresh", "quiet", "silent"}]
    /\ heard \in [Nodes -> SUBSET Nodes] /\ resolving \in [Nodes -> SUBSET Nodes]
    /\ posts \subseteq Pairs /\ gaps \subseteq Pairs
    /\ starts \in 0..MaxStarts /\ cuts \in 0..MaxCuts /\ lost \in 0..MaxLost

Together(n, m) == up[n] = "up" /\ up[m] = "up" /\ Linked(n, m)

\* As long as no request is lost and no node loses the network, no node that
\* has been up for a while declares another such node dead, whatever starts and
\* ends of processes preceded.
NoFalseSuspicion ==
    \A p \in Pairs : LET n == p[1]  m == p[2] IN
       cuts = 0 /\ lost = 0 /\ Together(n, m) /\ m \notin grace => ~Suspects(n, m)

\* A node that is gone for good, or cannot be reached any more, is in the end
\* taken to be dead for good: no late answer brings it back.
DeadIsSuspected ==
    \A p \in Pairs : LET n == p[1]  m == p[2] IN
       <>[](up[n] = "up" /\ (up[m] = "down" \/ ~Linked(n, m))) => <>[]Suspects(n, m)

\* Two nodes that are in the end both up and connected know each other and give
\* each other blocks, unless one has dropped the other for 15 s of silence, or
\* failed to learn of it.
MeetAndStay ==
    \A p \in Pairs : LET n == p[1]  m == p[2] IN
       <>[]Together(n, m) =>
          <>[](reg[<<n, m>>] = "fresh") \/ <>[](<<n, m>> \in gaps \/ <<m, n>> \in gaps)
=============================================================================
