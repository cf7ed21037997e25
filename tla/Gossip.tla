------------------------------- MODULE Gossip -------------------------------
(***************************************************************************)
(* The router's view of the cluster under either state backend:            *)
(* ClusterView in etcd mode, and in gossip mode the watcher of             *)
(* cluster/gossip.rs over a chitchat member (cgn-gossip/src/lib.rs), fed   *)
(* by the agents' loop_emit_gossip (health.rs).                            *)
(*                                                                         *)
(* An agent process is one gossip member: its node id and a generation     *)
(* that grows with every restart.  chitchat is external: it carries the    *)
(* record of a member to the router some time after it was published, and  *)
(* its failure detector says which members are live.  It may suspect a     *)
(* member that runs, and keeps a dead generation live for a while, beside  *)
(* its successor.  Cordons are etcd's alone.  A record always parses: all  *)
(* members run the same release.                                           *)
(*                                                                         *)
(* Whatever the backend, cluster_metrics.rs mirrors the registry into      *)
(* gauges with one series per node.                                        *)
(***************************************************************************)
EXTENDS ClusterView, FiniteSets

CONSTANT MaxSuspects    \* bound on wrong verdicts of the failure detector

Generations == 0 .. MaxChanges

VARIABLES
    backend,     \* [cluster].state_backend
    generation,  \* the generation of each agent's member
    heard,       \* the router's copy of each member's record
    live,        \* the members the router's failure detector calls live
    suspects,    \* wrong verdicts so far
    sync,        \* how far the watcher is: "joining", "tick" or "upsert"
    records,     \* live_node_records still to be applied in this round
    found,       \* the node ids of this round's records
    series,      \* the nodes /metrics shows
    refreshing   \* the gauges are reset and not yet filled

mesh == <<generation, heard, live, suspects>>
round == <<sync, records, found>>
gossip == <<backend, mesh, round>>
gauges == <<series, refreshing>>
allVars == <<viewVars, gossip, gauges>>

GossipInit ==
    /\ ViewInit
    /\ backend \in {"etcd", "gossip"}
    /\ generation = [n \in Nodes |-> 0]
    /\ heard = [n \in Nodes |-> [g \in Generations |-> Absent]]
    /\ live = {} /\ suspects = 0
    /\ sync = "joining" /\ records = <<>> /\ found = {}
    /\ series = {} /\ refreshing = FALSE

-----------------------------------------------------------------------------
(* The agents and the mesh.                                                *)

\* loop_emit_gossip publishes a new record, or the process has restarted as a
\* member of the next generation.  Only a restart resets the epoch.
Publish(n) ==
    /\ Change(n)
    /\ \/ /\ record[n].state # "gone" /\ record'[n].epoch >= record[n].epoch
          /\ generation' = generation
       \/ /\ record'[n].state # "gone" /\ record'[n].epoch = 0
          /\ generation' = [generation EXCEPT ![n] = @ + 1]
       \/ /\ record'[n].state = "gone"
          /\ generation' = generation
    /\ UNCHANGED <<backend, heard, live, suspects, round>>

\* A gossip round brings the record of a running member.
Spread(n) ==
    /\ record[n].state # "gone"
    /\ heard' = [heard EXCEPT ![n][generation[n]] = record[n]]
    /\ live' = live \cup {<<n, generation[n]>>}
    /\ UNCHANGED <<viewVars, backend, generation, suspects, round>>

Running(m) == record[m[1]].state # "gone" /\ generation[m[1]] = m[2]

\* The failure detector gives up a member whose process has ended ...
Detect(m) ==
    /\ m \in live /\ ~Running(m)
    /\ live' = live \ {m}
    /\ UNCHANGED <<viewVars, backend, generation, heard, suspects, round>>

\* ... or, after a stretch of lost packets, one that runs.
Suspect(m) ==
    /\ m \in live /\ Running(m) /\ suspects < MaxSuspects
    /\ live' = live \ {m} /\ suspects' = suspects + 1
    /\ UNCHANGED <<viewVars, backend, generation, heard, round>>

-----------------------------------------------------------------------------
(* run_gossip_watcher.                                                     *)

\* GossipMember::spawn; a failed one is tried again after a pause.
Join ==
    /\ sync = "joining"
    /\ sync' = "tick"
    /\ UNCHANGED <<viewVars, backend, mesh, records, found>>

\* live_node_records, in the detector's order.
Tick ==
    /\ sync = "tick"
    /\ \E order \in [1 .. Cardinality(live) -> live] :
          /\ {order[i] : i \in DOMAIN order} = live
          /\ records' = [i \in DOMAIN order |->
                            [node |-> order[i][1], value |-> heard[order[i][1]][order[i][2]]]]
    /\ found' = {}
    /\ sync' = "upsert"
    /\ UNCHANGED <<viewVars, backend, mesh>>

\* Each record is reconciled with the prefix claims and upserted.
Upsert ==
    LET n == Head(records).node
        value == Head(records).value
    IN
    /\ sync = "upsert" /\ records # <<>>
    /\ found' = found \cup {n}
    /\ Reconcile(n, value)
    /\ registry' = [registry EXCEPT ![n] = value]
    /\ records' = Tail(records)
    /\ UNCHANGED <<etcd, cordoned, dispatched, run, at, nodeEvents, tasks,
                   backend, mesh, sync>>

\* Mutant: the removal pass is left to the tracker.
ForgetSnapshots ==
    LET gone == {n \in Nodes : Registered(n)} \ found IN
    /\ sync = "upsert" /\ records = <<>>
    /\ sync' = "tick" /\ found' = {}
    /\ tracker' = [n \in Nodes |-> IF n \in gone THEN NoSnapshot ELSE tracker[n]]
    /\ claims' = claims \ gone
    /\ UNCHANGED <<etcd, registry, cordoned, dispatched, run, at, nodeEvents, tasks,
                   backend, mesh, records>>

\* The removal pass: entries without a live record are forgotten, with their
\* snapshots and claims.
Forget ==
    LET gone == {n \in Nodes : Registered(n)} \ found IN
    /\ sync = "upsert" /\ records = <<>>
    /\ sync' = "tick" /\ found' = {}
    /\ registry' = [n \in Nodes |-> IF n \in gone THEN Absent ELSE registry[n]]
    /\ tracker' = [n \in Nodes |-> IF n \in gone THEN NoSnapshot ELSE tracker[n]]
    /\ claims' = claims \ gone
    /\ UNCHANGED <<etcd, cordoned, dispatched, run, at, nodeEvents, tasks,
                   backend, mesh, records>>

-----------------------------------------------------------------------------
(* cluster_metrics::refresh.                                               *)

\* Every vector is reset ...
Reset ==
    /\ ~refreshing /\ refreshing' = TRUE
    /\ series' = {}
    /\ UNCHANGED <<viewVars, gossip>>

\* ... and filled again from a snapshot of the registry.
Fill ==
    /\ refreshing /\ refreshing' = FALSE
    /\ series' = series \cup {n \in Nodes : Registered(n)}
    /\ UNCHANGED <<viewVars, gossip>>

Refresh == Reset \/ Fill

-----------------------------------------------------------------------------
Sync == Join \/ Tick \/ Upsert \/ Forget

InEtcd == backend = "etcd" /\ UNCHANGED <<gossip, gauges>>
InGossip == backend = "gossip" /\ UNCHANGED gauges

GossipNext ==
    \/ Refresh
    \/ InEtcd /\ ViewNext
    \/ /\ InGossip
       /\ \/ Sync
          \/ \E n \in Nodes : Publish(n) \/ Spread(n)
          \/ \E m \in live : Detect(m) \/ Suspect(m)
          \/ (Answered \/ \E n \in Nodes : Dispatch(n) \/ Gc(n)) /\ UNCHANGED gossip

GossipSpec == GossipInit /\ [][GossipNext]_allVars

\* In etcd mode the watcher and its cordon tasks are polled, and a node goes on
\* with its heartbeats.  In gossip mode the watcher's task is polled, packets get
\* through now and then, and the detector finds out about a process that has
\* ended.  The gauges are refreshed on a timer.
GossipLiveSpec ==
    /\ GossipSpec
    /\ WF_allVars(InEtcd /\ WatcherStep)
    /\ \A k \in Runs : /\ WF_allVars(InEtcd /\ OpenCordonWatch(k))
                       /\ WF_allVars(InEtcd /\ ApplyCordon(k))
    /\ \A n \in Nodes : SF_allVars(InEtcd /\ Heartbeat(n)) /\ WF_allVars(InGossip /\ Spread(n))
    /\ WF_allVars(InGossip /\ Sync)
    /\ \A m \in Nodes \X Generations : WF_allVars(InGossip /\ Detect(m))
    /\ WF_allVars(Refresh)

-----------------------------------------------------------------------------
\* In etcd mode, while a node stays registered, the entry the router holds for
\* it is never replaced by an older record: not by an event that was in flight
\* when a watch ended, not by the snapshot of the next run.  (In gossip mode
\* the record of a dead generation may follow that of its successor.)
NeverOlder ==
    [][\A n \in Nodes :
          backend = "etcd" /\ Registered(n) /\ Registered(n)'
             => registry[n].rev <= registry'[n].rev]_allVars

\* "Drop registry entries whose member died", and "series for departed nodes
\* disappear instead of lingering": in gossip mode a node that is gone for good
\* leaves the registry, the tracker and /metrics for good, whatever the failure
\* detector said in between.
DeadMemberForgotten ==
    \A n \in Nodes :
       <>[](backend = "gossip" /\ record[n].state = "gone")
          => <>[](~Registered(n) /\ tracker[n] = NoSnapshot /\ n \notin series)

=============================================================================
