---------------------------- MODULE MCClusterView ----------------------------
(* Instances of Gossip: ClusterView under both state backends.             *)
EXTENDS Gossip, TLC

=============================================================================
