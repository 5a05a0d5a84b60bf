----------------------------- MODULE MCElection -----------------------------
(* A small instance of Election for TLC.                                    *)
EXTENDS Election

\* Node 2 has lost sight of node 1, which is up.
OneDeaf == {<<2, 1>>}
=============================================================================
