-------------------------- MODULE MembershipProofs --------------------------
(***************************************************************************)
(* Types, and NoFalseSuspicion: for any number of nodes and of starts, no  *)
(* node declares another dead as long as no request is lost and no node    *)
(* loses the network.                                                      *)
(***************************************************************************)
EXTENDS Membership, TLAPS

(* The steps of one node, and those of one node about another.              *)
NodeStep(n) ==
    \/ Start(n) \/ Serve(n) \/ Stop(n) \/ Cut(n) \/ Return(n)
    \/ Announce(n) \/ Prune(n) \/ GraceEnds(n)

PairStep(n, m) ==
    \/ Hear(n, m) \/ Unhear(n, m) \/ Resolved(n, m) \/ Unresolved(n, m)
    \/ Registered(n, m) \/ Unregistered(n, m) \/ Heartbeat(n, m) \/ Age(n, m)

Apart(n, m) == n \in Nodes /\ m \in Nodes /\ n # m

LEMMA PairsOfNodes == \A n, m : Apart(n, m) <=> <<n, m>> \in Pairs
BY DEF Pairs, Apart

LEMMA NextSteps ==
    Next => \/ \E n \in Nodes : NodeStep(n)
            \/ \E n, m : Apart(n, m) /\ PairStep(n, m)
<1> SUFFICES ASSUME Next, ~\E n \in Nodes : NodeStep(n)
             PROVE  \E n, m : Apart(n, m) /\ PairStep(n, m)
    OBVIOUS
<1>1. PICK p \in Pairs : PairStep(p[1], p[2])
    BY DEF Next, NodeStep, PairStep
<1>2. Apart(p[1], p[2])
    BY DEF Pairs, Apart
<1> QED BY <1>1, <1>2

-----------------------------------------------------------------------------
(* Type correctness.                                                        *)

LEMMA TypeStep == TypeOK /\ [Next]_vars => TypeOK'
<1> SUFFICES ASSUME TypeOK, [Next]_vars PROVE TypeOK'
    OBVIOUS
<1> USE MembershipAssumption DEF TypeOK
<1>1. ASSUME NEW n \in Nodes, Start(n) PROVE TypeOK'
  <2>1. starts' \in 0..MaxStarts
    BY <1>1 DEF Start, Begin
  <2>2. reg' \in [Pairs -> {"absent", "fresh", "quiet", "silent"}]
    BY <1>1 DEF Start, Begin
  <2>3. /\ up' \in [Nodes -> {"down", "joining", "up"}]
        /\ heard' \in [Nodes -> SUBSET Nodes]
        /\ grace' \subseteq Nodes /\ announcing' \subseteq Nodes /\ gaps' \subseteq Pairs
    BY <1>1 DEF Start, Begin
  <2>4. UNCHANGED <<resolving, posts, away, cuts, lost>>
    BY <1>1 DEF Start, Begin
  <2> QED BY <2>1, <2>2, <2>3, <2>4
<1>2. ASSUME NEW n \in Nodes, Serve(n) \/ Stop(n) \/ Cut(n) \/ Return(n) PROVE TypeOK'
    BY <1>2 DEF Serve, Stop, Cut, Return
<1>3. ASSUME NEW n \in Nodes, Announce(n) PROVE TypeOK'
  <2>1. {<<n, m>> : m \in {o \in Others(n) : reg[<<n, o>>] # "absent"}} \subseteq Pairs
    BY DEF Pairs, Others
  <2> QED BY <1>3, <2>1 DEF Announce
<1>4. ASSUME NEW n \in Nodes, Prune(n) PROVE TypeOK'
  <2>1. {n} \X Silent(n) \subseteq Pairs
    BY DEF Silent, Others, Pairs
  <2>2. reg' \in [Pairs -> {"absent", "fresh", "quiet", "silent"}]
    BY <1>4 DEF Prune
  <2> QED BY <1>4, <2>1, <2>2 DEF Prune
<1>5. ASSUME NEW n \in Nodes, GraceEnds(n) PROVE TypeOK'
    BY <1>5 DEF GraceEnds
<1>6. ASSUME NEW n, NEW m, Apart(n, m), PairStep(n, m) PROVE TypeOK'
  <2>1. n \in Nodes /\ m \in Nodes /\ <<n, m>> \in Pairs /\ <<m, n>> \in Pairs
    BY <1>6, PairsOfNodes DEF Apart
  <2>2. CASE Hear(n, m) \/ Unhear(n, m)
    BY <2>1, <2>2 DEF Hear, Unhear
  <2>3. CASE Resolved(n, m)
    BY <2>1, <2>3 DEF Resolved, Learn
  <2>4. CASE Unresolved(n, m)
    BY <2>1, <2>4 DEF Unresolved, Unlearnt, Fails
  <2>5. CASE Registered(n, m)
    BY <2>1, <2>5 DEF Registered, Learn
  <2>6. CASE Unregistered(n, m)
    BY <2>1, <2>6 DEF Unregistered, Unlearnt, Fails
  <2>7. CASE Heartbeat(n, m) \/ Age(n, m)
    BY <2>1, <2>7 DEF Heartbeat, Age
  <2> QED BY <1>6, <2>2, <2>3, <2>4, <2>5, <2>6, <2>7 DEF PairStep
<1>7. CASE UNCHANGED vars
    BY <1>7 DEF vars
<1> QED
    BY <1>1, <1>2, <1>3, <1>4, <1>5, <1>6, <1>7, NextSteps DEF NodeStep

\* The nodes' registries, caches and requests keep their types.
THEOREM MembershipTyped == Spec => []TypeOK
<1>1. Init => TypeOK
    BY MembershipAssumption DEF Init, TypeOK
<1> QED BY <1>1, TypeStep, PTL DEF Spec

-----------------------------------------------------------------------------
(* No false suspicion.                                                      *)

Running(n) == up[n] # "down"
Sound      == cuts = 0 /\ lost = 0

(* Nobody is off the network before the first cut; a node joins within its  *)
(* grace; a running node whose record another has heard and resolved is     *)
(* alive to it; and two nodes past their grace have heard and resolved each *)
(* other.                                                                   *)
Connected == cuts = 0 => away = {}

JoinsInGrace == \A n \in Nodes : up[n] = "joining" => n \in grace

HeardIsAlive ==
    \A n, m : Apart(n, m) /\ Sound /\ Running(n) /\ Running(m) /\ m \in heard[n] \ resolving[n]
                 => Alive(n, m)

SettledHasHeard ==
    \A n, m : Apart(n, m) /\ Sound /\ Running(n) /\ Running(m) /\ n \notin grace /\ m \notin grace
                 => m \in heard[n] \ resolving[n]

SuspicionInv == Connected /\ JoinsInGrace /\ HeardIsAlive /\ SettledHasHeard

\* No step makes up for a lost request or a cut.
LEMMA SoundBefore == TypeOK /\ [Next]_vars /\ Sound' => Sound
<1> SUFFICES ASSUME TypeOK, [Next]_vars, Sound' PROVE Sound
    OBVIOUS
<1>1. cuts \in Nat /\ lost \in Nat
    BY MembershipAssumption DEF TypeOK
<1>2. ASSUME NEW n \in Nodes, NodeStep(n) PROVE Sound
    BY <1>1, <1>2
       DEF Sound, NodeStep, Start, Begin, Serve, Stop, Cut, Return, Announce, Prune, GraceEnds
<1>3. ASSUME NEW n, NEW m, PairStep(n, m) PROVE Sound
    BY <1>1, <1>3
       DEF Sound, PairStep, Hear, Unhear, Resolved, Unresolved, Registered, Unregistered,
           Heartbeat, Age, Fails
<1> QED BY <1>2, <1>3, NextSteps DEF vars, Sound

\* Of two running nodes, one of which has its server up, between which nothing
\* is on its way, each has heard of the other, and each is alive to the other.
LEMMA IdleIsAlive ==
    ASSUME SuspicionInv, Sound, NEW n, NEW m, Apart(n, m), Running(n), Running(m), ~Busy(n, m)
    PROVE  /\ m \in heard[n] \ resolving[n] /\ n \in heard[m] \ resolving[m]
           /\ Alive(n, m) /\ Alive(m, n)
           /\ TypeOK => Beating(m, n)
<1>1. away = {} /\ Linked(n, m) /\ Linked(m, n) /\ Apart(m, n)
    BY DEF SuspicionInv, Connected, Sound, Linked, Apart
<1>2. m \in heard[n] \ resolving[n] /\ n \in heard[m] \ resolving[m]
    BY <1>1 DEF Busy, CanHear, Running
<1>3. Alive(n, m) /\ Alive(m, n)
    BY <1>1, <1>2 DEF SuspicionInv, HeardIsAlive
<1>4. TypeOK => Beating(m, n)
    BY <1>1, <1>3 DEF TypeOK, Beating, Alive, Busy, Running, Apart
<1> QED BY <1>2, <1>3, <1>4

LEMMA ConnectedStep == TypeOK /\ Connected /\ [Next]_vars => Connected'
<1> SUFFICES ASSUME TypeOK, Connected, [Next]_vars, cuts' = 0 PROVE away' = {}
    BY DEF Connected
<1>1. cuts \in Nat
    BY MembershipAssumption DEF TypeOK
<1>2. ASSUME NEW n \in Nodes, NodeStep(n) PROVE away' = {}
    BY <1>1, <1>2
       DEF Connected, NodeStep, Start, Begin, Serve, Stop, Cut, Return, Announce, Prune, GraceEnds
<1>3. ASSUME NEW n, NEW m, PairStep(n, m) PROVE away' = {}
    BY <1>3
       DEF Connected, PairStep, Hear, Unhear, Resolved, Unresolved, Registered, Unregistered,
           Heartbeat, Age
<1> QED BY <1>2, <1>3, NextSteps DEF vars, Connected

LEMMA JoinStep == TypeOK /\ JoinsInGrace /\ [Next]_vars => JoinsInGrace'
<1> SUFFICES ASSUME TypeOK, JoinsInGrace, [Next]_vars PROVE JoinsInGrace'
    OBVIOUS
<1>1. ASSUME NEW n \in Nodes, NodeStep(n) PROVE JoinsInGrace'
    BY <1>1
       DEF TypeOK, JoinsInGrace, NodeStep, Start, Begin, Serve, Stop, Cut, Return, Announce,
           Prune, GraceEnds
<1>2. ASSUME NEW n, NEW m, PairStep(n, m) PROVE JoinsInGrace'
    BY <1>2
       DEF JoinsInGrace, PairStep, Hear, Unhear, Resolved, Unresolved, Registered, Unregistered,
           Heartbeat, Age
<1> QED BY <1>1, <1>2, NextSteps DEF vars, JoinsInGrace

\* What is heard of a running node is lost when one of the two starts anew, not
\* otherwise; and a resolved record of it has been learnt.
LEMMA HeardStep ==
    ASSUME TypeOK, SuspicionInv, [Next]_vars, Sound', NEW n, NEW m, Apart(n, m),
           Running(n)', Running(m)', m \in heard'[n] \ resolving'[n]
    PROVE  Alive(n, m)'
<1> USE DEF Apart
<1>1. Sound /\ <<n, m>> \in Pairs /\ <<m, n>> \in Pairs
    BY SoundBefore, PairsOfNodes
<1>2. Running(n) /\ Running(m) /\ m \in heard[n] \ resolving[n] => Alive(n, m)
    BY <1>1 DEF SuspicionInv, HeardIsAlive
<1>3. ASSUME NEW a \in Nodes, NodeStep(a) PROVE Alive(n, m)'
  <2>1. CASE Start(a)
    <3>1. a # n /\ a # m
      BY <2>1 DEF Start, Begin, TypeOK
    <3> QED BY <1>1, <1>2, <2>1, <3>1 DEF Start, Begin, TypeOK, Running, Alive
  <2>2. CASE Prune(a)
    BY <1>1, <1>2, <2>2 DEF Prune, Silent, TypeOK, Running, Alive
  <2>3. CASE Stop(a)
    BY <1>1, <1>2, <2>3 DEF Stop, TypeOK, Running, Alive
  <2>4. CASE Serve(a) \/ Cut(a) \/ Return(a) \/ Announce(a) \/ GraceEnds(a)
    BY <1>1, <1>2, <2>4 DEF Serve, Cut, Return, Announce, GraceEnds, TypeOK, Running, Alive
  <2> QED BY <1>3, <2>1, <2>2, <2>3, <2>4 DEF NodeStep
<1>4. ASSUME NEW a, NEW b, Apart(a, b), PairStep(a, b) PROVE Alive(n, m)'
  <2> USE <1>1, <1>2 DEF TypeOK, Running, Alive
  <2>1. <<a, b>> \in Pairs /\ <<b, a>> \in Pairs
    BY <1>4, PairsOfNodes
  <2>2. CASE Hear(a, b)
    BY <1>4, <2>2 DEF Hear
  <2>3. CASE Unhear(a, b)
    <3>1. <<a, b>> # <<n, m>>
      BY <1>4, <2>3, Zenon DEF Unhear, SuspicionInv, Connected, Sound, Linked
    <3> QED BY <1>4, <2>1, <2>3, <3>1 DEF Unhear
  <2>4. CASE Resolved(a, b)
    BY <1>4, <2>1, <2>4 DEF Resolved, Learn
  <2>5. CASE Unresolved(a, b)
    <3>1. <<a, b>> # <<n, m>>
      <4>1. lost \in Nat /\ lost' # lost + 1
        BY MembershipAssumption DEF Sound
      <4>2. ~Fails(n, m, up[m] # "down" /\ Linked(n, m)) \/ ~Running(m)
        BY <4>1 DEF Fails, SuspicionInv, Connected, Sound, Linked
      <4>3. UNCHANGED up
        BY <2>5 DEF Unresolved
      <4> QED BY <2>5, <4>2, <4>3 DEF Unresolved
    <3> QED BY <1>4, <2>1, <2>5, <3>1 DEF Unresolved, Unlearnt
  <2>6. CASE Registered(a, b)
    BY <1>4, <2>1, <2>6 DEF Registered, Learn
  <2>7. CASE Unregistered(a, b)
    BY <1>4, <2>7 DEF Unregistered, Unlearnt
  <2>8. CASE Heartbeat(a, b)
    BY <1>4, <2>1, <2>8 DEF Heartbeat
  <2>9. CASE Age(a, b)
    BY <1>4, <2>1, <2>9, IdleIsAlive DEF Age
  <2> QED BY <1>4, <2>2, <2>3, <2>4, <2>5, <2>6, <2>7, <2>8, <2>9 DEF PairStep
<1>5. CASE UNCHANGED vars
    BY <1>2, <1>5 DEF vars, Running, Alive
<1> QED BY ONLY <1>3, <1>4, <1>5, NextSteps, [Next]_vars

\* A node's grace ends only when it has heard, and been heard, by all that run.
LEMMA SettledStep ==
    ASSUME TypeOK, SuspicionInv, [Next]_vars, Sound', NEW n, NEW m, Apart(n, m),
           Running(n)', Running(m)', n \notin grace', m \notin grace'
    PROVE  m \in heard'[n] \ resolving'[n]
<1>1. Sound /\ <<n, m>> \in Pairs /\ Apart(m, n) /\ n \in Nodes /\ m \in Nodes
    BY SoundBefore, PairsOfNodes DEF Apart
<1>2. Running(n) /\ Running(m) /\ n \notin grace /\ m \notin grace
          => m \in heard[n] \ resolving[n]
    BY <1>1 DEF SuspicionInv, SettledHasHeard
<1>3. ASSUME NEW a \in Nodes, NodeStep(a) PROVE m \in heard'[n] \ resolving'[n]
  <2>1. CASE Start(a)
    BY <1>1, <1>2, <2>1 DEF Start, Begin, TypeOK, Running
  <2>2. CASE GraceEnds(a)
    <3>1. UNCHANGED <<up, heard, resolving>> /\ Running(n) /\ Running(m)
      BY <2>2 DEF GraceEnds, Running
    <3>2. CASE a = n
      <4>1. ~Busy(n, m)
        BY <1>1, <2>2, <3>2 DEF GraceEnds, Settled, Others, Apart
      <4> QED BY <1>1, <3>1, <4>1, IdleIsAlive
    <3>3. CASE a = m
      <4>1. ~Busy(m, n)
        BY <1>1, <2>2, <3>3 DEF GraceEnds, Settled, Others, Apart
      <4> QED BY <1>1, <3>1, <4>1, IdleIsAlive
    <3>4. CASE a # n /\ a # m
      BY <1>2, <2>2, <3>1, <3>4 DEF GraceEnds
    <3> QED BY <3>2, <3>3, <3>4
  <2>3. CASE Stop(a)
    BY <1>1, <1>2, <2>3 DEF Stop, TypeOK, Running
  <2>4. CASE Serve(a) \/ Cut(a) \/ Return(a) \/ Announce(a) \/ Prune(a)
    BY <1>1, <1>2, <2>4 DEF Serve, Cut, Return, Announce, Prune, TypeOK, Running
  <2> QED BY <1>3, <2>1, <2>2, <2>3, <2>4 DEF NodeStep
<1>4. ASSUME NEW a, NEW b, Apart(a, b), PairStep(a, b) PROVE m \in heard'[n] \ resolving'[n]
  <2>1. UNCHANGED <<up, grace>>
    BY <1>4
       DEF PairStep, Hear, Unhear, Resolved, Unresolved, Registered, Unregistered, Heartbeat, Age
  <2>2. m \in heard[n] \ resolving[n]
    BY <1>2, <2>1 DEF Running
  <2>3. CASE Hear(a, b)
    BY <1>1, <2>2, <2>3 DEF Hear, CanHear, TypeOK
  <2>4. CASE Unhear(a, b)
    BY <1>1, <2>1, <2>2, <2>4
       DEF Unhear, TypeOK, SuspicionInv, Connected, Sound, Linked, Running
  <2>5. CASE Resolved(a, b) \/ Unresolved(a, b)
    BY <1>1, <2>2, <2>5 DEF Resolved, Unresolved, TypeOK
  <2>6. CASE Registered(a, b) \/ Unregistered(a, b) \/ Heartbeat(a, b) \/ Age(a, b)
    BY <2>2, <2>6 DEF Registered, Unregistered, Heartbeat, Age
  <2> QED BY <1>4, <2>3, <2>4, <2>5, <2>6 DEF PairStep
<1>5. CASE UNCHANGED vars
    BY <1>2, <1>5 DEF vars, Running
<1> QED BY ONLY <1>3, <1>4, <1>5, NextSteps, [Next]_vars

LEMMA SuspicionStep == TypeOK /\ SuspicionInv /\ [Next]_vars => SuspicionInv'
<1> SUFFICES ASSUME TypeOK, SuspicionInv, [Next]_vars PROVE SuspicionInv'
    OBVIOUS
<1>1. Connected' /\ JoinsInGrace'
    BY ConnectedStep, JoinStep DEF SuspicionInv
<1>2. HeardIsAlive'
    BY HeardStep DEF HeardIsAlive, Apart
<1>3. SettledHasHeard'
    BY SettledStep DEF SettledHasHeard, Apart
<1> QED BY <1>1, <1>2, <1>3 DEF SuspicionInv

\* While no request is lost and nobody loses the network, no two nodes past
\* their grace take each other for dead (node.py _coord_health_tick), whatever
\* the order in which nodes start, stop, hear, greet and beat.
THEOREM NobodyIsWronglySuspected == Spec => []NoFalseSuspicion
<1>1. Init => SuspicionInv
    BY DEF Init, SuspicionInv, Connected, JoinsInGrace, HeardIsAlive, SettledHasHeard, Running,
           Apart
<1>2. SuspicionInv => NoFalseSuspicion
  <2> SUFFICES ASSUME SuspicionInv, NEW p \in Pairs, cuts = 0, lost = 0,
                      Together(p[1], p[2]), p[2] \notin grace, Suspects(p[1], p[2])
               PROVE  FALSE
      BY DEF NoFalseSuspicion
  <2>1. Apart(p[1], p[2]) /\ Running(p[1]) /\ Running(p[2]) /\ p[1] \notin grace
    BY DEF Pairs, Apart, Together, Running, Suspects
  <2>2. Alive(p[1], p[2])
    BY <2>1 DEF SuspicionInv, SettledHasHeard, HeardIsAlive, Sound
  <2> QED BY <2>2 DEF Suspects
<1>3. Spec => []SuspicionInv
    BY <1>1, SuspicionStep, MembershipTyped, PTL DEF Spec
<1> QED BY <1>2, <1>3, PTL
=============================================================================
