----------------------------- MODULE MCCluster ------------------------------
(* Two workers, and pids for two that die and a restart. *)
EXTENDS Cluster
MCPids == 1 .. 5
=============================================================================
