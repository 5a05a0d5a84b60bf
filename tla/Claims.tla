------------------------------- MODULE Claims -------------------------------
(***************************************************************************)
(* What the repository says of a block and the program does not do: a run  *)
(* of Coordinator refutes it, and the README says along which steps.       *)
(***************************************************************************)
EXTENDS MCCoordinator

\* config.py:77, "DONE: set(), # terminal": a done block is never opened again.
\* assign_block does not look at the status, and the monitor works from a list
\* it read before it awaited a computation.
DoneIsTerminal ==
    [][\A b \in Blocks : blk[b].status = "done" => blk'[b].status = "done"]_vars
=============================================================================
