--------------------------- MODULE MCCoordinator ---------------------------
(* Small instances of Coordinator for TLC.                                  *)
EXTENDS Coordinator, TLC

CONSTANTS n1, n2  \* the submitting node and a peer

\* Every run executes in the submitting node.
OneHost == [r \in Runs |-> n1]

\* The first run executes in the submitting node, takeovers in its peer.
TwoHosts == [r \in Runs |-> IF r = FirstRun THEN n1 ELSE n2]

\* A run knows every other member, or (a takeover) nobody.
Everyone == [r \in Runs |-> Members \ {HostOf[r]}]
FirstOnly == [r \in Runs |-> IF r = FirstRun THEN Members \ {HostOf[r]} ELSE {}]

Symmetry == Permutations(Blocks) \cup Permutations(Runs \ {FirstRun})
=============================================================================
