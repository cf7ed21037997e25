----------------------------- MODULE ClusterView -----------------------------
(***************************************************************************)
(* The router's view of the cluster in etcd mode: the node registry        *)
(* (cluster/registry.rs), the etcd watcher that feeds it                   *)
(* (cluster/watcher.rs, restarted by state.rs) and the reconciliation of   *)
(* prefix claims with the heartbeats (cluster/cache_state.rs over          *)
(* cgn-core/src/prefix.rs).                                                *)
(*                                                                         *)
(* A run of the watcher reads the node records, then the cordon keys, then *)
(* opens a watch on the nodes, and spawns a task that opens a watch on the *)
(* cordon keys by itself.  A watch delivers what is written after it was   *)
(* opened.  Each watch can end; only the end of the node watch starts a    *)
(* new run, and the cordon task of an older run lives on.  The routing     *)
(* policy and the confirmed-KV keys, fed by tasks of the same shape, are   *)
(* left out.                                                               *)
(***************************************************************************)
EXTENDS Integers, Sequences

CONSTANTS
    Nodes,
    MaxChanges,    \* bound on the changes of each node's record
    MaxCordons,    \* bound on writes of cordon keys
    MaxRuns,       \* bound on runs of the watcher
    MaxPending,    \* bound on events in flight on the node watch
    NoNode

ASSUME ClusterConstants ==
    /\ MaxChanges \in Nat /\ MaxCordons \in Nat
    /\ MaxRuns \in Nat \ {0} /\ MaxPending \in Nat \ {0}
    /\ NoNode \notin Nodes

Runs == 1 .. MaxRuns

\* A node record: "gone" = no key; "paused" = not ready, or draining; epoch is
\* kv_epoch; rev counts the record's changes.
State == {"gone", "paused", "ready"}
Record == [state : State, epoch : Nat, rev : Nat]
Absent == [state |-> "gone", epoch |-> 0, rev |-> 0]
NoSnapshot == -1

VARIABLES
    record,        \* etcd: each node's record
    cordonKey,     \* etcd: the nodes with a cordon key
    cordonWrites,  \* number of cordon writes so far
    registry,      \* NodeRegistry: the entries, "gone" = not registered
    cordoned,      \* the registered nodes whose NodeEntry.cordoned is set
    tracker,       \* CacheStateTracker: the epoch last seen, or NoSnapshot
    claims,        \* PrefixIndex: the nodes that hold a claim
    dispatched,    \* the node a request is being dispatched to, or NoNode
    run,           \* the current run of the watcher
    at,            \* how far the current run is
    nodeEvents,    \* events in flight on the node watch
    cordonTask,    \* per run: how far its cordon task is
    cordonEvents   \* per run: events in flight on its cordon watch

etcd == <<record, cordonKey, cordonWrites>>
router == <<registry, cordoned, tracker, claims, dispatched>>
tasks == <<cordonTask, cordonEvents>>
viewVars == <<etcd, router, run, at, nodeEvents, tasks>>

ViewInit ==
    /\ record = [n \in Nodes |-> Absent] /\ registry = record
    /\ cordonKey = {} /\ cordonWrites = 0
    /\ cordoned = {} /\ claims = {} /\ dispatched = NoNode
    /\ tracker = [n \in Nodes |-> NoSnapshot]
    /\ run = 1 /\ at = "snapshot"
    /\ nodeEvents = <<>>
    /\ cordonTask = [k \in Runs |-> "none"]
    /\ cordonEvents = [k \in Runs |-> <<>>]

Registered(n) == registry[n].state # "gone"

-----------------------------------------------------------------------------
(* etcd and its writers.                                                   *)

\* etcd stores a record and hands the event to an open watch.
Write(n, value) ==
    /\ Len(nodeEvents) < MaxPending
    /\ record' = [record EXCEPT ![n] = value]
    /\ nodeEvents' = IF at = "watching" THEN Append(nodeEvents, [node |-> n, value |-> value])
                                        ELSE nodeEvents
    /\ UNCHANGED <<cordonKey, cordonWrites, router, run, at, tasks>>

\* The agent's heartbeat rewrites its record under the lease.
Heartbeat(n) == record[n].state # "gone" /\ Write(n, record[n])

\* KvCacheState::observe bumps the epoch when an engine seen ready stops being
\* so, or is ready again, when its block pool is resized and when many blocks
\* come free at once.  A draining node's engine may be ready all along.
Observe(epoch) == {epoch, epoch + 1}

\* A heartbeat that says something new (readiness, draining, a bumped epoch),
\* the first one of a session (epoch 0), or the expiry of the lease.
Change(n) ==
    /\ record[n].rev < MaxChanges
    /\ \E state \in State, epoch \in {0} \cup Observe(record[n].epoch) :
          /\ "gone" \in {state, record[n].state} => epoch = 0
          /\ <<state, epoch>> # <<record[n].state, record[n].epoch>>
          /\ Write(n, [state |-> state, epoch |-> epoch, rev |-> record[n].rev + 1])

\* cgn-ctl cluster cordon / uncordon writes or deletes the cordon key.
SetCordonKey(n, set) ==
    /\ cordonWrites < MaxCordons
    /\ set # (n \in cordonKey)
    /\ cordonWrites' = cordonWrites + 1
    /\ cordonKey' = IF set THEN cordonKey \cup {n} ELSE cordonKey \ {n}
    /\ cordonEvents' = [k \in Runs |->
          IF cordonTask[k] = "open" THEN Append(cordonEvents[k], [node |-> n, set |-> set])
                                    ELSE cordonEvents[k]]
    /\ UNCHANGED <<record, router, run, at, nodeEvents, cordonTask>>

-----------------------------------------------------------------------------
\* CacheStateTracker::reconcile of a record of n: an epoch other than the last
\* one seen wipes n's claims; otherwise pressure or an eviction burst may prune
\* them.
Reconcile(n, value) ==
    /\ claims' \in IF tracker[n] \notin {NoSnapshot, value.epoch}
                     THEN {claims \ {n}} ELSE {claims, claims \ {n}}
    /\ tracker' = [tracker EXCEPT ![n] = value.epoch]

\* A run begins with a fresh tracker and applies the records it reads.  A
\* record carries no cordon flag, so upsert clears it.
SnapshotNodes ==
    LET found == {n \in Nodes : record[n].state # "gone"} IN
    /\ at = "snapshot"
    /\ at' = "cordons"
    /\ tracker' = [n \in Nodes |-> IF n \in found THEN record[n].epoch ELSE NoSnapshot]
    /\ \E pruned \in SUBSET (claims \cap found) : claims' = claims \ pruned
    /\ registry' = [n \in Nodes |-> IF n \in found THEN record[n] ELSE registry[n]]
    /\ cordoned' = cordoned \ found
    /\ UNCHANGED <<etcd, dispatched, run, nodeEvents, tasks>>

\* The cordon keys are applied to the registered nodes.
SnapshotCordons ==
    /\ at = "cordons"
    /\ at' = "watch"
    /\ cordoned' = cordoned \cup {n \in cordonKey : Registered(n)}
    /\ UNCHANGED <<etcd, registry, tracker, claims, dispatched, run, nodeEvents, tasks>>

\* The node watch opens, and the cordon task is spawned.
OpenWatch ==
    /\ at = "watch"
    /\ at' = "watching"
    /\ cordonTask' = [cordonTask EXCEPT ![run] = "starting"]
    /\ UNCHANGED <<etcd, router, run, nodeEvents, cordonEvents>>

\* Mutant: the entry's cordon flag is carried over.
ApplyPutKeepsCordon ==
    LET n == Head(nodeEvents).node
        value == Head(nodeEvents).value
    IN
    /\ at = "watching" /\ nodeEvents # <<>> /\ value.state # "gone"
    /\ Reconcile(n, value)
    /\ registry' = [registry EXCEPT ![n] = value]
    /\ nodeEvents' = Tail(nodeEvents)
    /\ UNCHANGED <<etcd, cordoned, dispatched, run, at, tasks>>

\* Put: reconcile and upsert.
ApplyPut ==
    LET n == Head(nodeEvents).node
        value == Head(nodeEvents).value
    IN
    /\ at = "watching" /\ nodeEvents # <<>> /\ value.state # "gone"
    /\ Reconcile(n, value)
    /\ registry' = [registry EXCEPT ![n] = value]
    /\ cordoned' = cordoned \ {n}
    /\ nodeEvents' = Tail(nodeEvents)
    /\ UNCHANGED <<etcd, dispatched, run, at, tasks>>

\* Mutant: the tracker keeps its snapshot of a deleted node.
ApplyDeleteKeepsSnapshot ==
    LET n == Head(nodeEvents).node IN
    /\ at = "watching" /\ nodeEvents # <<>> /\ Head(nodeEvents).value.state = "gone"
    /\ registry' = [registry EXCEPT ![n] = Absent]
    /\ cordoned' = cordoned \ {n} /\ claims' = claims \ {n}
    /\ nodeEvents' = Tail(nodeEvents)
    /\ UNCHANGED <<etcd, tracker, dispatched, run, at, tasks>>

\* Delete: forget the node, its tracker snapshot and its claims.
ApplyDelete ==
    LET n == Head(nodeEvents).node IN
    /\ at = "watching" /\ nodeEvents # <<>> /\ Head(nodeEvents).value.state = "gone"
    /\ registry' = [registry EXCEPT ![n] = Absent]
    /\ cordoned' = cordoned \ {n}
    /\ tracker' = [tracker EXCEPT ![n] = NoSnapshot]
    /\ claims' = claims \ {n}
    /\ nodeEvents' = Tail(nodeEvents)
    /\ UNCHANGED <<etcd, dispatched, run, at, tasks>>

\* Mutant: events of the old watch are still delivered.
EndWatchKeepsEvents ==
    /\ at = "watching" /\ run < MaxRuns
    /\ at' = "ended"
    /\ UNCHANGED <<etcd, router, run, nodeEvents, tasks>>

\* The node watch ends (etcd restart, compaction, partition) ...
EndWatch ==
    /\ at = "watching" /\ run < MaxRuns
    /\ at' = "ended"
    /\ nodeEvents' = <<>>
    /\ UNCHANGED <<etcd, router, run, tasks>>

\* ... and bootstrap_cluster_watch starts the next run after a pause.
Restart ==
    /\ at = "ended"
    /\ at' = "snapshot"
    /\ run' = run + 1
    /\ UNCHANGED <<etcd, router, nodeEvents, tasks>>

-----------------------------------------------------------------------------
(* The cordon task of run k.                                               *)
OpenCordonWatch(k) ==
    /\ cordonTask[k] = "starting"
    /\ cordonTask' = [cordonTask EXCEPT ![k] = "open"]
    /\ UNCHANGED <<etcd, router, run, at, nodeEvents, cordonEvents>>

\* NodeRegistry::set_cordon has no effect on a node that is not registered.
ApplyCordon(k) ==
    LET event == Head(cordonEvents[k]) IN
    /\ cordonTask[k] = "open" /\ cordonEvents[k] # <<>>
    /\ cordoned' = IF event.set /\ Registered(event.node) THEN cordoned \cup {event.node}
                                                          ELSE cordoned \ {event.node}
    /\ cordonEvents' = [cordonEvents EXCEPT ![k] = Tail(@)]
    /\ UNCHANGED <<etcd, registry, tracker, claims, dispatched, run, at, nodeEvents, cordonTask>>

\* The task returns when it cannot connect and when its watch ends; nothing
\* restarts it.
EndCordonWatch(k) ==
    /\ cordonTask[k] \in {"starting", "open"}
    /\ cordonTask' = [cordonTask EXCEPT ![k] = "ended"]
    /\ cordonEvents' = [cordonEvents EXCEPT ![k] = <<>>]
    /\ UNCHANGED <<etcd, router, run, at, nodeEvents>>

-----------------------------------------------------------------------------
\* NodeRegistry::nodes_for: what the selector chooses from.
Routable(n) == registry[n].state = "ready" /\ n \notin cordoned

\* A request is sent to a routable node; if the node answers, the router
\* records optimistic claims for it.
Dispatch(n) ==
    /\ dispatched = NoNode /\ Routable(n)
    /\ dispatched' = n
    /\ UNCHANGED <<etcd, registry, cordoned, tracker, claims, run, at, nodeEvents, tasks>>

Answered ==
    /\ dispatched # NoNode
    /\ \/ record[dispatched].state # "gone" /\ claims' = claims \cup {dispatched}
       \/ claims' = claims
    /\ dispatched' = NoNode
    /\ UNCHANGED <<etcd, registry, cordoned, tracker, run, at, nodeEvents, tasks>>

\* PrefixIndex::gc, and the TTL of a claim.
Gc(n) ==
    /\ n \in claims
    /\ claims' = claims \ {n}
    /\ UNCHANGED <<etcd, registry, cordoned, tracker, dispatched, run, at, nodeEvents, tasks>>

WatcherStep ==
    SnapshotNodes \/ SnapshotCordons \/ OpenWatch \/ ApplyPut \/ ApplyDelete \/ Restart

ViewNext ==
    \/ WatcherStep \/ EndWatch \/ Answered
    \/ \E k \in Runs : OpenCordonWatch(k) \/ ApplyCordon(k) \/ EndCordonWatch(k)
    \/ \E n \in Nodes : Heartbeat(n) \/ Change(n) \/ Dispatch(n) \/ Gc(n)
    \/ \E n \in Nodes, set \in BOOLEAN : SetCordonKey(n, set)

ViewSpec == ViewInit /\ [][ViewNext]_viewVars

-----------------------------------------------------------------------------
\* The tracker's snapshot of a node is of the record the registry holds: what
\* the next heartbeat is compared with is what the router routes by.
TrackerAgrees ==
    \A n \in Nodes : tracker[n] # NoSnapshot => Registered(n) /\ tracker[n] = registry[n].epoch

\* A node that is ready for good and has no cordon key for good becomes and
\* stays routable, across lost watches, gaps between a snapshot and its watch,
\* and cordon tasks of earlier runs that lag behind.
ReadyNodeRoutable ==
    \A n \in Nodes :
       <>[](record[n].state = "ready" /\ n \notin cordonKey) => <>[]Routable(n)

=============================================================================
