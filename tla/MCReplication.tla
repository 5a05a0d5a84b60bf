--------------------------- MODULE MCReplication ---------------------------
(***************************************************************************)
(* A small instance of Replication for TLC, and what the repository says   *)
(* of the replicas and the program does not do.                            *)
(***************************************************************************)
EXTENDS Replication, MCCoordinator

\* README.md:24, "If the coordinating node disconnects mid-job, the remaining nodes
\* elect a new coordinator automatically": a backup that was told of the job and
\* all its blocks comes to have it RUNNING, the only status _coord_health_tick
\* looks after.
FailoverBegins ==
    /\ pc[FirstRun] = "down" /\ job.status = "running"
    /\ \E n \in Backups : /\ replica[n].job.status # "absent"
                           /\ \A b \in Blocks : replica[n].blk[b].status # "absent"
    ~> \E n \in Backups : replica[n].job.status = "running"
=============================================================================
