--------------------------- MODULE SessionProofs ---------------------------
(***************************************************************************)
(* A browser's connections for any number of sockets, jobs and cuts: the   *)
(* page keeps one chain of connections, and the node's tables keep no      *)
(* socket without a handler that will take it out.                         *)
(***************************************************************************)
EXTENDS BrowserSession, FiniteSetTheorems, TLAPS

-----------------------------------------------------------------------------
(* Type correctness, one half of the state at a time.                       *)

PageTypes ==
    /\ visiting \in BOOLEAN
    /\ client \in [Sockets -> {"connecting", "open", "closed"}]
    /\ ws \in Sockets \cup {Null}
    /\ timers \in Nat /\ drops \in 0..MaxDrops
    /\ lastJob \in Jobs \cup {Null}
    /\ submits \subseteq mine /\ mine \subseteq Jobs /\ polls \subseteq Jobs /\ shown \subseteq Jobs

NodeTypes ==
    /\ row \in BOOLEAN /\ table \in Sockets \cup {Null}
    /\ serving \in [Sockets -> {"no", "accepted", "named", "ending", "over"}]
    /\ wire \in [Sockets -> SUBSET {"register", "heartbeat"}]
    /\ push \in [Sockets -> Seq(Jobs)]
    /\ ui \subseteq Sockets /\ sending \subseteq Sockets
    /\ status \in [Jobs -> {"new", "running", "complete", "announced"}]
    /\ targets \in [Jobs -> SUBSET Sockets]

LEMMA TypeParts == TypeOK <=> PageTypes /\ NodeTypes /\ robbed \in BOOLEAN
BY DEF TypeOK, PageTypes, NodeTypes

LEMMA ConnectTypes ==
    ASSUME NEW s \in Sockets, Connect(s), PageTypes, NodeTypes
    PROVE  /\ client' \in [Sockets -> {"connecting", "open", "closed"}]
           /\ ws' \in Sockets
           /\ serving' \in [Sockets -> {"no", "accepted", "named", "ending", "over"}]
           /\ wire' \in [Sockets -> SUBSET {"register", "heartbeat"}]
           /\ push' \in [Sockets -> Seq(Jobs)]
<1>1. <<>> \in Seq(Jobs)
    OBVIOUS
<1> QED BY <1>1 DEF Connect, PageTypes, NodeTypes

LEMMA PageType == TypeOK /\ PageStep => TypeOK'
<1> SUFFICES ASSUME PageTypes, NodeTypes, robbed \in BOOLEAN, PageStep
             PROVE  PageTypes' /\ NodeTypes' /\ (robbed \in BOOLEAN)'
    BY DEF TypeOK, PageTypes, NodeTypes
<1> USE SessionAssumption DEF tables, jobs
<1>1. ASSUME NEW s \in Sockets, Load(s) \/ Reconnect(s)
      PROVE  PageTypes' /\ NodeTypes' /\ (robbed \in BOOLEAN)'
  <2>1. Connect(s) /\ UNCHANGED <<lastJob, submits, polls, shown, tables, sending, jobs, drops>>
    BY <1>1 DEF Load, Reconnect
  <2>2. visiting' \in BOOLEAN /\ timers' \in Nat
    <3>1. CASE Load(s)
      BY <3>1 DEF Load, PageTypes
    <3>2. CASE Reconnect(s)
      BY <3>2 DEF Reconnect, PageTypes
    <3> QED BY <1>1, <3>1, <3>2
  <2> QED BY <2>1, <2>2, ConnectTypes DEF PageTypes, NodeTypes
<1>2. ASSUME NEW s \in Sockets, Opened(s)
      PROVE  PageTypes' /\ NodeTypes' /\ (robbed \in BOOLEAN)'
    BY <1>2 DEF Opened, PageTypes, NodeTypes
<1>3. ASSUME NEW s \in Sockets, Cut(s) \/ Closed(s)
      PROVE  PageTypes' /\ NodeTypes' /\ (robbed \in BOOLEAN)'
  <2>1. /\ OnClose(s) /\ drops' \in 0..MaxDrops
        /\ UNCHANGED <<visiting, ws, lastJob, submits, shown, serving, wire, push, tables, sending,
                       jobs>>
    <3>1. CASE Cut(s)
      BY <3>1 DEF Cut, PageTypes
    <3>2. CASE Closed(s)
      BY <3>2 DEF Closed, PageTypes
    <3> QED BY <1>3, <3>1, <3>2
  <2>2. PageTypes'
    BY <2>1 DEF OnClose, PageTypes
  <2> QED BY <2>1, <2>2 DEF NodeTypes
<1>4. ASSUME NEW s \in Sockets, Receive(s)
      PROVE  PageTypes' /\ NodeTypes' /\ (robbed \in BOOLEAN)'
  <2>1. push[s] \in Seq(Jobs) /\ push[s] # <<>>
    BY <1>4 DEF Receive, NodeTypes
  <2>2. Head(push[s]) \in Jobs /\ Tail(push[s]) \in Seq(Jobs)
    BY <2>1
  <2> QED BY <1>4, <2>2 DEF Receive, PageTypes, NodeTypes
<1>5. ASSUME NEW j \in Jobs, Submit(j)
      PROVE  PageTypes' /\ NodeTypes' /\ (robbed \in BOOLEAN)'
    BY <1>5 DEF Submit, PageTypes, NodeTypes
<1>6. ASSUME NEW j \in Jobs, Submitted(j) \/ PollAnswered(j)
      PROVE  PageTypes' /\ NodeTypes' /\ (robbed \in BOOLEAN)'
    BY <1>6 DEF Submitted, PollAnswered, PageTypes, NodeTypes
<1>7. CASE Leave
    BY <1>7 DEF Leave, PageTypes, NodeTypes
<1>8. CASE Beat
    BY <1>8 DEF Beat, page, PageTypes, NodeTypes
<1> QED BY <1>1, <1>2, <1>3, <1>4, <1>5, <1>6, <1>7, <1>8 DEF PageStep

LEMMA NodeType == TypeOK /\ NodeStep => TypeOK'
<1> SUFFICES ASSUME PageTypes, NodeTypes, robbed \in BOOLEAN, NodeStep
             PROVE  PageTypes' /\ NodeTypes' /\ (robbed \in BOOLEAN)'
    BY DEF TypeOK, PageTypes, NodeTypes
<1> USE SessionAssumption DEF tables, jobs, page
<1>1. ASSUME NEW s \in Sockets, Accept(s)
      PROVE  PageTypes' /\ NodeTypes' /\ (robbed \in BOOLEAN)'
    BY <1>1 DEF Accept, PageTypes, NodeTypes
<1>2. ASSUME NEW s \in Sockets, Register(s)
      PROVE  PageTypes' /\ NodeTypes' /\ (robbed \in BOOLEAN)'
  <2>1. PageTypes' /\ NodeTypes'
    BY <1>2 DEF Register, PageTypes, NodeTypes
  <2>2. robbed' \in BOOLEAN
    BY <1>2, Zenon DEF Register
  <2> QED BY <2>1, <2>2
<1>3. ASSUME NEW s \in Sockets, Heartbeat(s)
      PROVE  PageTypes' /\ NodeTypes' /\ (robbed \in BOOLEAN)'
  <2>1. row' \in BOOLEAN
    BY <1>3, Zenon DEF Heartbeat
  <2> QED BY <1>3, <2>1 DEF Heartbeat, PageTypes, NodeTypes
<1>4. ASSUME NEW s \in Sockets, End(s) \/ EndCut(s)
      PROVE  PageTypes' /\ NodeTypes' /\ (robbed \in BOOLEAN)'
  <2>1. CleanUp(s) /\ drops' \in 0..MaxDrops
        /\ UNCHANGED <<page, push, row, sending, jobs>>
    BY <1>4 DEF End, EndCut, PageTypes
  <2>2. PageTypes'
    BY <2>1 DEF PageTypes
  <2>3. NodeTypes'
    BY <2>1 DEF CleanUp, NodeTypes
  <2>4. robbed' \in BOOLEAN
    BY <2>1, Zenon DEF CleanUp
  <2> QED BY <2>2, <2>3, <2>4
<1>5. ASSUME NEW s \in Sockets, RowRemoved(s) \/ AssignSent(s)
      PROVE  PageTypes' /\ NodeTypes' /\ (robbed \in BOOLEAN)'
    BY <1>5 DEF RowRemoved, AssignSent, PageTypes, NodeTypes
<1>6. ASSUME NEW s \in Sockets, AssignFails(s)
      PROVE  PageTypes' /\ NodeTypes' /\ (robbed \in BOOLEAN)'
  <2>1. PageTypes' /\ NodeTypes'
    BY <1>6 DEF AssignFails, PageTypes, NodeTypes
  <2>2. robbed' \in BOOLEAN
    BY <1>6, Zenon DEF AssignFails
  <2> QED BY <2>1, <2>2
<1>7. CASE StartAssign
    BY <1>7 DEF StartAssign, PageTypes, NodeTypes
<1>8. ASSUME NEW j \in Jobs, StartOther(j) \/ Complete(j) \/ Broadcast(j)
      PROVE  PageTypes' /\ NodeTypes' /\ (robbed \in BOOLEAN)'
    BY <1>8 DEF StartOther, Complete, Broadcast, PageTypes, NodeTypes
<1>9. ASSUME NEW j \in Jobs, NEW s \in Sockets, Write(j, s)
      PROVE  PageTypes' /\ NodeTypes' /\ (robbed \in BOOLEAN)'
  <2>1. UNCHANGED <<page, serving, wire, table, row, robbed, sending, status, mine, drops>>
    BY <1>9 DEF Write
  <2>2. push' \in [Sockets -> Seq(Jobs)]
    <3>1. push[s] \in Seq(Jobs) /\ Append(push[s], j) \in Seq(Jobs)
      BY DEF NodeTypes
    <3> QED BY <1>9, <3>1 DEF Write, NodeTypes
  <2>3. ui' \subseteq Sockets /\ targets' \in [Jobs -> SUBSET Sockets]
    BY <1>9 DEF Write, NodeTypes
  <2> QED BY <2>1, <2>2, <2>3 DEF PageTypes, NodeTypes
<1> QED BY <1>1, <1>2, <1>3, <1>4, <1>5, <1>6, <1>7, <1>8, <1>9 DEF NodeStep

LEMMA TypeStep == TypeOK /\ [Next]_vars => TypeOK'
<1>1. TypeOK /\ UNCHANGED vars => TypeOK'
    BY DEF TypeOK, vars, page, tables, jobs
<1> QED BY <1>1, PageType, NodeType DEF Next

LEMMA TypeInit == Init => TypeOK
<1> SUFFICES ASSUME Init PROVE TypeOK
    OBVIOUS
<1>1. <<>> \in Seq(Jobs) /\ 0 \in 0..MaxDrops
    BY SessionAssumption
<1>2. PageTypes /\ robbed \in BOOLEAN
    BY <1>1 DEF Init, PageTypes
<1>3. NodeTypes
    BY <1>1 DEF Init, NodeTypes
<1> QED BY <1>2, <1>3, TypeParts

\* The two ends of every socket, the tables and the jobs keep their types.
THEOREM SessionTyped == Spec => []TypeOK
BY TypeInit, TypeStep, PTL DEF Spec

-----------------------------------------------------------------------------
(* One chain: stated without counting, so that a step can be followed.      *)

Chain ==
    /\ visiting => \/ timers = 1 /\ Live = {}
                   \/ timers = 0 /\ \E s \in Sockets : Live = {s}
    /\ ~visiting => timers = 0 /\ Live = {}

LEMMA ConnectLive ==
    ASSUME NEW s \in Sockets, Connect(s), TypeOK, Live = {}
    PROVE  Live' = {s}
BY DEF Connect, TypeOK, Live

LEMMA CloseLive ==
    ASSUME NEW s \in Live, OnClose(s), TypeOK
    PROVE  Live' = Live \ {s}
BY DEF OnClose, TypeOK, Live

LEMMA SameChain ==
    ASSUME Chain, UNCHANGED <<visiting, timers, Live>>
    PROVE  Chain'
BY DEF Chain

LEMMA ChainPage == TypeOK /\ Chain /\ PageStep => Chain'
<1> SUFFICES ASSUME TypeOK, Chain, PageStep PROVE Chain'
    OBVIOUS
<1>1. ASSUME NEW s \in Sockets, Load(s) PROVE Chain'
  <2>1. Live' = {s}
    BY <1>1, ConnectLive DEF Load, Chain
  <2> QED BY <1>1, <2>1 DEF Load, Chain
<1>2. ASSUME NEW s \in Sockets, Reconnect(s) PROVE Chain'
  <2>1. visiting /\ timers = 1 /\ Live = {} /\ Connect(s) /\ timers' = 0 /\ visiting' = visiting
    BY <1>2 DEF Reconnect, Chain, TypeOK
  <2>2. Live' = {s}
    BY <2>1, ConnectLive
  <2> QED BY <2>1, <2>2 DEF Chain
<1>3. ASSUME NEW s \in Sockets, Cut(s) \/ Closed(s) PROVE Chain'
  <2>1. s \in Live /\ OnClose(s) /\ visiting' = visiting
    BY <1>3 DEF Cut, Closed
  <2>2. visiting /\ timers = 0 /\ Live = {s}
    BY <2>1 DEF Chain
  <2>3. Live' = {} /\ timers' = 1
    BY <2>1, <2>2, CloseLive DEF OnClose
  <2> QED BY <2>1, <2>2, <2>3 DEF Chain
<1>4. ASSUME NEW s \in Sockets, Opened(s) PROVE Chain'
  <2>1. Live' = Live /\ UNCHANGED <<visiting, timers>>
    BY <1>4 DEF Opened, TypeOK, Live
  <2> QED BY <2>1, SameChain
<1>5. CASE Leave
    BY <1>5 DEF Leave, Chain, Live
<1>6. ASSUME UNCHANGED <<visiting, client, timers>> PROVE Chain'
  <2>1. Live' = Live
    BY <1>6 DEF Live
  <2> QED BY <1>6, <2>1, SameChain
<1>7. ASSUME NEW s \in Sockets, Receive(s) PROVE UNCHANGED <<visiting, client, timers>>
    BY <1>7 DEF Receive
<1>8. ASSUME NEW j \in Jobs, Submit(j) \/ Submitted(j) \/ PollAnswered(j)
      PROVE  UNCHANGED <<visiting, client, timers>>
    BY <1>8 DEF Submit, Submitted, PollAnswered
<1>9. Beat => UNCHANGED <<visiting, client, timers>>
    BY DEF Beat, page
<1> QED BY <1>1, <1>2, <1>3, <1>4, <1>5, <1>6, <1>7, <1>8, <1>9 DEF PageStep

\* No step of the node touches the page.
LEMMA NodeLeavesPage == NodeStep => UNCHANGED page
BY DEF NodeStep, StartAssign, Accept, Register, Heartbeat, End, EndCut, RowRemoved, AssignSent,
       AssignFails, StartOther, Complete, Broadcast, Write

LEMMA ChainStep == TypeOK /\ Chain /\ [Next]_vars => Chain'
<1> SUFFICES ASSUME TypeOK, Chain, UNCHANGED page PROVE Chain'
    BY ChainPage, NodeLeavesPage DEF Next, vars
<1>1. Live' = Live /\ UNCHANGED <<visiting, timers>>
    BY DEF page, Live
<1> QED BY <1>1, SameChain

\* Reconnects after cuts, refusals and the node's own closing of a socket leave a
\* page in view with one connection or one timer, however they follow each other.
THEOREM OneChainHolds == Spec => []OneChain
<1>1. Init => Chain
    BY DEF Init, Chain, Live
<1>2. TypeOK /\ Chain => OneChain
  <2> SUFFICES ASSUME TypeOK, Chain PROVE OneChain
      OBVIOUS
  <2>1. CASE Live = {}
    <3>1. Cardinality(Live) = 0
      BY <2>1, FS_EmptySet
    <3> QED BY <2>1, <3>1 DEF OneChain, Chain, TypeOK
  <2>2. ASSUME NEW s \in Sockets, Live = {s} PROVE OneChain
    <3>1. Cardinality(Live) = 1
      BY <2>2, FS_Singleton
    <3>2. visiting /\ timers = 0
      BY <2>2 DEF Chain
    <3> QED BY <3>1, <3>2 DEF OneChain
  <2> QED BY <2>1, <2>2 DEF Chain
<1> QED BY <1>1, <1>2, SessionTyped, ChainStep, PTL DEF Spec

-----------------------------------------------------------------------------
(* Ghosts.                                                                  *)

LEMMA GhostPage == TypeOK /\ NoGhosts /\ PageStep => NoGhosts'
<1> SUFFICES ASSUME TypeOK, NoGhosts, PageStep PROVE NoGhosts'
    OBVIOUS
<1>1. ASSUME NEW s \in Sockets, Connect(s), UNCHANGED tables PROVE NoGhosts'
  <2>1. serving[s] \in {"no", "over"} /\ serving' = [serving EXCEPT ![s] = "no"]
    BY <1>1 DEF Connect, Unused
  <2>2. \A t \in Sockets : t # s => serving'[t] = serving[t]
    BY <2>1 DEF TypeOK
  <2>3. table # Null => serving'[table] = "named"
    BY <2>1, <2>2 DEF NoGhosts, TypeOK
  <2>4. row => \E t \in Sockets : serving'[t] \in {"named", "ending"}
    <3>1. SUFFICES ASSUME row PROVE \E t \in Sockets : serving'[t] \in {"named", "ending"}
        OBVIOUS
    <3>2. PICK t \in Sockets : serving[t] \in {"named", "ending"}
      BY <3>1 DEF NoGhosts
    <3> QED BY <2>1, <2>2, <3>2
  <2>5. \A t \in ui : Served(t)'
    BY <2>1, <2>2 DEF NoGhosts, Served, TypeOK
  <2> QED BY <1>1, <2>3, <2>4, <2>5 DEF NoGhosts, tables
<1>2. ASSUME UNCHANGED <<serving, tables>> PROVE NoGhosts'
    BY <1>2 DEF NoGhosts, Served, tables
<1>3. ASSUME NEW s \in Sockets, Load(s) \/ Reconnect(s) PROVE Connect(s) /\ UNCHANGED tables
    BY <1>3 DEF Load, Reconnect
<1>4. ASSUME NEW s \in Sockets, Opened(s) \/ Cut(s) \/ Closed(s) \/ Receive(s)
      PROVE  UNCHANGED <<serving, tables>>
    BY <1>4 DEF Opened, Cut, Closed, Receive
<1>5. ASSUME NEW j \in Jobs, Submit(j) \/ Submitted(j) \/ PollAnswered(j)
      PROVE  UNCHANGED <<serving, tables>>
    BY <1>5 DEF Submit, Submitted, PollAnswered
<1>6. Leave \/ Beat => UNCHANGED <<serving, tables>>
    BY DEF Leave, Beat
<1> QED BY <1>1, <1>2, <1>3, <1>4, <1>5, <1>6 DEF PageStep

LEMMA GhostNode == TypeOK /\ NoGhosts /\ NodeStep => NoGhosts'
<1> SUFFICES ASSUME TypeOK, NoGhosts, NodeStep PROVE NoGhosts'
    OBVIOUS
<1>1. ASSUME NEW s \in Sockets, Accept(s) PROVE NoGhosts'
    BY <1>1 DEF Accept, NoGhosts, Served, TypeOK
<1>2. ASSUME NEW s \in Sockets, Register(s) PROVE NoGhosts'
    BY <1>2 DEF Register, NoGhosts, Served, TypeOK
<1>3. ASSUME NEW s \in Sockets, Heartbeat(s) PROVE NoGhosts'
    BY <1>3 DEF Heartbeat, NoGhosts, Served, TypeOK
<1>4. ASSUME NEW s \in Sockets, Served(s), CleanUp(s), row' = row PROVE NoGhosts'
  <2>1. CASE serving[s] = "named"
    BY <1>4, <2>1 DEF CleanUp, NoGhosts, Served, TypeOK
  <2>2. CASE serving[s] = "accepted"
    BY <1>4, <2>2 DEF CleanUp, NoGhosts, Served, TypeOK
  <2> QED BY <1>4, <2>1, <2>2 DEF Served
<1>5. ASSUME NEW s \in Sockets, End(s) \/ EndCut(s) PROVE Served(s) /\ CleanUp(s) /\ row' = row
    BY <1>5 DEF End, EndCut
<1>6. ASSUME NEW s \in Sockets, RowRemoved(s) PROVE NoGhosts'
    BY <1>6 DEF RowRemoved, NoGhosts, Served, TypeOK
<1>7. ASSUME NEW s \in Sockets, AssignFails(s) PROVE NoGhosts'
    BY <1>7 DEF AssignFails, NoGhosts, Served, TypeOK
<1>8. ASSUME NEW j \in Jobs, NEW s \in Sockets, Write(j, s) PROVE NoGhosts'
    BY <1>8 DEF Write, NoGhosts, Served, TypeOK
<1>9. ASSUME UNCHANGED <<serving, tables>> PROVE NoGhosts'
    BY <1>9 DEF NoGhosts, Served, tables
<1>10. ASSUME NEW s \in Sockets, AssignSent(s) PROVE UNCHANGED <<serving, tables>>
    BY <1>10 DEF AssignSent
<1>11. ASSUME NEW j \in Jobs, StartOther(j) \/ Complete(j) \/ Broadcast(j)
       PROVE  UNCHANGED <<serving, tables>>
    BY <1>11 DEF StartOther, Complete, Broadcast
<1>12. StartAssign => UNCHANGED <<serving, tables>>
    BY DEF StartAssign
<1> QED BY <1>1, <1>2, <1>3, <1>4, <1>5, <1>6, <1>7, <1>8, <1>9, <1>10, <1>11, <1>12
        DEF NodeStep

\* However the sockets of one browser overlap, every entry of the node's tables
\* has a handler whose end removes it.
THEOREM NoGhostsHold == Spec => []NoGhosts
<1>1. Init => NoGhosts
    BY DEF Init, NoGhosts
<1>2. TypeOK /\ NoGhosts /\ [Next]_vars => NoGhosts'
  <2>1. NoGhosts /\ UNCHANGED vars => NoGhosts'
    BY DEF NoGhosts, Served, vars, tables
  <2> QED BY <2>1, GhostPage, GhostNode DEF Next
<1> QED BY <1>1, <1>2, SessionTyped, PTL DEF Spec
=============================================================================
