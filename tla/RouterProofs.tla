---------------------------- MODULE RouterProofs ----------------------------
(***************************************************************************)
(* Proofs about two parts of the router that share no state: its view of   *)
(* the cluster (ClusterView, Gossip), for any set of nodes and any bounds  *)
(* on changes, cordons, runs of the watcher, events in flight and wrong    *)
(* suspicions; and the admission queue (Admission), which keeps its safety *)
(* invariants, implements SlotPool and is fair to its tenants, for every   *)
(* set of requests and tenants and every bound.                            *)
(***************************************************************************)
EXTENDS AdmissionRefinement, AdmissionFairness, Gossip, FiniteSetTheorems, TLAPS

\* The larger steps need more time than the backends have by default.
USE SMTT(30), ZenonT(30)

Event == [node : Nodes, value : Record]

-----------------------------------------------------------------------------
(* In gossip mode a value that is upserted came from a member that was     *)
(* heard of, and so is no record of a node that is gone; that needs the    *)
(* generation of a running member to be within its range.                  *)

MeshInv ==
    /\ record \in [Nodes -> Record] /\ \A n \in Nodes : record[n].rev <= MaxChanges
    /\ generation \in [Nodes -> Nat] /\ \A n \in Nodes : generation[n] <= record[n].rev
    /\ heard \in [Nodes -> [Generations -> Record]]
    /\ live \subseteq Nodes \X Generations /\ IsFiniteSet(live)
    /\ \A m \in live : heard[m[1]][m[2]].state # "gone"
    /\ records \in Seq(Event)
    /\ \A i \in 1 .. Len(records) : records[i].value.state # "gone"

ViewInv ==
    /\ registry \in [Nodes -> Record]
    /\ tracker \in [Nodes -> Nat \cup {NoSnapshot}]
    /\ nodeEvents \in Seq(Event)
    /\ TrackerAgrees

-----------------------------------------------------------------------------
LEMMA NextEvent ==
    ASSUME NEW q \in Seq(Event), q # <<>>
    PROVE  /\ Head(q).node \in Nodes /\ Head(q).value \in Record /\ Tail(q) \in Seq(Event)
           /\ Head(q) = q[1] /\ Len(q) \in Nat \ {0} /\ Len(Tail(q)) = Len(q) - 1
           /\ \A i \in 1 .. Len(q) - 1 : Tail(q)[i] = q[i + 1]
<1>1. Head(q) \in Event
  OBVIOUS
<1>2. Head(q).node \in Nodes /\ Head(q).value \in Record
  BY <1>1, Zenon DEF Event
<1>. QED
  BY <1>2

\* A step that leaves the router's view alone.
LEMMA ViewKept ==
    ASSUME ViewInv, UNCHANGED <<registry, tracker>>, nodeEvents' \in Seq(Event) PROVE ViewInv'
BY Zenon DEF ViewInv, TrackerAgrees, Registered

\* A record that is there is reconciled and upserted.
LEMMA UpsertKeeps ==
    ASSUME ViewInv, NEW n \in Nodes, NEW value \in Record, value.state # "gone", Reconcile(n, value),
           registry' = [registry EXCEPT ![n] = value], nodeEvents' \in Seq(Event)
    PROVE  ViewInv'
<1>1. tracker' = [tracker EXCEPT ![n] = value.epoch] /\ value.epoch \in Nat
  BY Zenon DEF Reconcile, Record
<1>. QED
  BY <1>1, Zenon DEF ViewInv, TrackerAgrees, Registered

\* Nodes are forgotten together with their snapshots.
LEMMA ForgetKeeps ==
    ASSUME ViewInv, NEW S, nodeEvents' \in Seq(Event),
           registry' = [n \in Nodes |-> IF n \in S THEN Absent ELSE registry[n]],
           tracker' = [n \in Nodes |-> IF n \in S THEN NoSnapshot ELSE tracker[n]]
    PROVE  ViewInv'
<1>1. Absent \in Record
  BY Zenon DEF Absent, Record, State
<1>. QED
  BY <1>1, Zenon DEF ViewInv, TrackerAgrees, Registered

\* etcd's record of a node changes, and an open watch has the event.
LEMMA WriteKeeps ==
    ASSUME MeshInv, ViewInv, NEW n \in Nodes, NEW value \in Record, Write(n, value)
    PROVE  ViewInv' /\ record' = [record EXCEPT ![n] = value]
<1>1. UNCHANGED <<registry, tracker>>
  BY Zenon DEF Write, router
<1>2. nodeEvents' \in Seq(Event)
  <2>1. [node |-> n, value |-> value] \in Event
    BY Zenon DEF Event
  <2>. QED
    BY <2>1 DEF Write, ViewInv
<1>. QED
  BY <1>1, <1>2, ViewKept, Zenon DEF Write

LEMMA ChangeKeeps ==
    ASSUME MeshInv, ViewInv, NEW n \in Nodes, Change(n)
    PROVE  /\ ViewInv' /\ record' \in [Nodes -> Record]
           /\ record[n].rev < MaxChanges /\ record'[n].rev = record[n].rev + 1
           /\ \A k \in Nodes \ {n} : record'[k] = record[k]
<1>1. PICK state \in State, epoch \in {0} \cup Observe(record[n].epoch) :
         Write(n, [state |-> state, epoch |-> epoch, rev |-> record[n].rev + 1])
  BY Zenon DEF Change
<1>. DEFINE value == [state |-> state, epoch |-> epoch, rev |-> record[n].rev + 1]
<1>2. record[n] \in Record /\ record[n].rev < MaxChanges
  BY Zenon DEF Change, MeshInv
<1>3. value \in Record
  BY <1>2 DEF Observe, Record
<1>4. ViewInv' /\ record' = [record EXCEPT ![n] = value]
  BY <1>1, <1>3, WriteKeeps, Zenon
<1>. QED
  BY <1>2, <1>3, <1>4, Zenon DEF MeshInv

\* The mesh's part, when no member is heard of and no generation begins.
LEMMA MeshKept ==
    ASSUME MeshInv, UNCHANGED mesh, records' = records,
           \/ record' = record
           \/ /\ record' \in [Nodes -> Record]
              /\ \A n \in Nodes : record[n].rev <= record'[n].rev /\ record'[n].rev <= MaxChanges
    PROVE  MeshInv'
<1>. UNCHANGED <<generation, heard, live>>
  BY Zenon DEF mesh
<1>1. \A n \in Nodes : generation[n] <= record'[n].rev /\ record'[n].rev <= MaxChanges
  BY ClusterConstants DEF MeshInv, Record
<1>. QED
  BY <1>1, Zenon DEF MeshInv

-----------------------------------------------------------------------------
(* The steps of etcd mode.                                                 *)

LEMMA EtcdStep ==
    ASSUME MeshInv, ViewInv, ViewNext, UNCHANGED gossip PROVE MeshInv' /\ ViewInv'
<1>. UNCHANGED mesh /\ records' = records
  BY Zenon DEF gossip, round
<1>1. CASE SnapshotNodes
  <2>. DEFINE here == {n \in Nodes : record[n].state # "gone"}
  <2>1. /\ registry' = [n \in Nodes |-> IF n \in here THEN record[n] ELSE registry[n]]
        /\ tracker' = [n \in Nodes |-> IF n \in here THEN record[n].epoch ELSE NoSnapshot]
        /\ UNCHANGED <<record, nodeEvents>>
    BY <1>1, Zenon DEF SnapshotNodes, etcd
  <2>2. \A n \in Nodes : record[n].epoch \in Nat
    BY Zenon DEF MeshInv, Record
  <2>. QED
    BY <2>1, <2>2, MeshKept, Zenon DEF ViewInv, TrackerAgrees, Registered, MeshInv
<1>2. CASE ApplyPut
  <2>. DEFINE n == Head(nodeEvents).node
              value == Head(nodeEvents).value
  <2>1. n \in Nodes /\ value \in Record /\ Tail(nodeEvents) \in Seq(Event)
    BY <1>2, NextEvent, Zenon DEF ApplyPut, ViewInv
  <2>2. value.state # "gone" /\ Reconcile(n, value) /\ registry' = [registry EXCEPT ![n] = value]
        /\ nodeEvents' = Tail(nodeEvents) /\ record' = record
    BY <1>2, Zenon DEF ApplyPut, etcd
  <2>. HIDE DEF n, value
  <2>. QED
    BY <2>1, <2>2, UpsertKeeps, MeshKept, Zenon
<1>3. CASE ApplyDelete
  <2>. DEFINE n == Head(nodeEvents).node
  <2>1. n \in Nodes /\ Tail(nodeEvents) \in Seq(Event)
    BY <1>3, NextEvent, Zenon DEF ApplyDelete, ViewInv
  <2>2. registry' = [registry EXCEPT ![n] = Absent] /\ tracker' = [tracker EXCEPT ![n] = NoSnapshot]
        /\ nodeEvents' = Tail(nodeEvents) /\ record' = record
    BY <1>3, Zenon DEF ApplyDelete, etcd
  <2>. HIDE DEF n
  <2>3. registry' = [k \in Nodes |-> IF k \in {n} THEN Absent ELSE registry[k]]
        /\ tracker' = [k \in Nodes |-> IF k \in {n} THEN NoSnapshot ELSE tracker[k]]
    BY <2>1, <2>2, Zenon DEF ViewInv
  <2>. QED
    BY <2>1, <2>2, <2>3, ForgetKeeps, MeshKept, Zenon
<1>4. CASE EndWatch
  BY <1>4, ViewKept, MeshKept DEF EndWatch, etcd, router
<1>5. CASE SnapshotCordons \/ OpenWatch \/ Restart \/ Answered
  BY <1>5, ViewKept, MeshKept, Zenon DEF SnapshotCordons, OpenWatch, Restart, Answered, etcd, router,
                                  ViewInv
<1>6. ASSUME NEW k \in Runs, OpenCordonWatch(k) \/ ApplyCordon(k) \/ EndCordonWatch(k)
      PROVE  MeshInv' /\ ViewInv'
  BY <1>6, ViewKept, MeshKept, Zenon DEF OpenCordonWatch, ApplyCordon, EndCordonWatch, etcd, router,
                                  ViewInv
<1>7. ASSUME NEW n \in Nodes, Dispatch(n) \/ Gc(n) PROVE MeshInv' /\ ViewInv'
  BY <1>7, ViewKept, MeshKept, Zenon DEF Dispatch, Gc, etcd, router, ViewInv
<1>8. ASSUME NEW n \in Nodes, NEW set \in BOOLEAN, SetCordonKey(n, set) PROVE MeshInv' /\ ViewInv'
  BY <1>8, ViewKept, MeshKept, Zenon DEF SetCordonKey, router, ViewInv
<1>9. ASSUME NEW n \in Nodes, Heartbeat(n) PROVE MeshInv' /\ ViewInv'
  <2>1. record[n] \in Record /\ Write(n, record[n])
    BY <1>9, Zenon DEF Heartbeat, MeshInv
  <2>2. ViewInv' /\ record' = record
    BY <2>1, WriteKeeps DEF MeshInv
  <2>. QED
    BY <2>2, MeshKept, Zenon
<1>10. ASSUME NEW n \in Nodes, Change(n) PROVE MeshInv' /\ ViewInv'
  <2>1. \A k \in Nodes : record[k].rev \in Nat /\ record[k].rev <= MaxChanges
    BY Zenon DEF MeshInv, Record
  <2>2. \A k \in Nodes : record[k].rev <= record'[k].rev /\ record'[k].rev <= MaxChanges
    BY <1>10, <2>1, ChangeKeeps, ClusterConstants
  <2>. QED
    BY <1>10, <2>2, ChangeKeeps, MeshKept, Zenon
<1>. QED
  BY <1>1, <1>2, <1>3, <1>4, <1>5, <1>6, <1>7, <1>8, <1>9, <1>10, Zenon DEF ViewNext, WatcherStep

-----------------------------------------------------------------------------
(* The steps of gossip mode.                                               *)

LEMMA PublishKeeps ==
    ASSUME MeshInv, ViewInv, NEW n \in Nodes, Publish(n) PROVE MeshInv' /\ ViewInv'
<1>. Change(n) /\ UNCHANGED <<heard, live, records>>
  BY Zenon DEF Publish, round
<1>. generation' = generation \/ generation' = [generation EXCEPT ![n] = @ + 1]
  BY Zenon DEF Publish
<1>1. \A k \in Nodes : generation[k] \in Nat /\ record[k].rev \in Nat /\ generation[k] <= record[k].rev
  BY Zenon DEF MeshInv, Record
<1>2. /\ generation' \in [Nodes -> Nat]
      /\ \A k \in Nodes : generation'[k] <= record'[k].rev /\ record'[k].rev <= MaxChanges
  <2>1. /\ record'[n].rev = record[n].rev + 1 /\ record[n].rev < MaxChanges
        /\ \A k \in Nodes \ {n} : record'[k] = record[k]
    BY ChangeKeeps, Zenon
  <2>2. generation \in [Nodes -> Nat] /\ \A k \in Nodes : record[k].rev <= MaxChanges
    BY Zenon DEF MeshInv
  <2>. QED
    BY <1>1, <2>1, <2>2, ClusterConstants
<1>. QED
  BY <1>2, ChangeKeeps, Zenon DEF MeshInv

LEMMA StaysFinite == ASSUME NEW S, IsFiniteSet(S), NEW x PROVE IsFiniteSet(S \cup {x})
BY FS_AddElement, Zenon

LEMMA SpreadKeeps ==
    ASSUME MeshInv, ViewInv, NEW n \in Nodes, Spread(n) PROVE MeshInv' /\ ViewInv'
<1>1. generation[n] \in Generations /\ record[n] \in Record
  BY ClusterConstants DEF MeshInv, Generations, Record
<1>2. /\ heard' = [heard EXCEPT ![n][generation[n]] = record[n]]
      /\ live' = live \cup {<<n, generation[n]>>}
      /\ record[n].state # "gone" /\ UNCHANGED <<viewVars, generation, records>>
  BY Zenon DEF Spread, round
<1>3. heard' \in [Nodes -> [Generations -> Record]]
  BY <1>1, <1>2, Zenon DEF MeshInv
<1>4. live' \subseteq Nodes \X Generations /\ IsFiniteSet(live')
  <2>1. <<n, generation[n]>> \in Nodes \X Generations
    BY <1>1, Zenon
  <2>2. IsFiniteSet(live \cup {<<n, generation[n]>>})
    BY StaysFinite, Zenon DEF MeshInv
  <2>. QED
    BY <1>2, <2>1, <2>2, Zenon DEF MeshInv
<1>5. ASSUME NEW m \in live' PROVE heard'[m[1]][m[2]].state # "gone"
  <2>1. m[1] \in Nodes /\ m[2] \in Generations
    BY <1>4, Zenon
  <2>2. CASE m[1] = n /\ m[2] = generation[n]
    BY <1>1, <1>2, <2>1, <2>2, Zenon DEF MeshInv
  <2>3. CASE ~(m[1] = n /\ m[2] = generation[n])
    <3>1. m \in live
      BY <1>2, <2>3
    <3>2. heard'[m[1]][m[2]] = heard[m[1]][m[2]]
      BY <1>1, <1>2, <2>1, <2>3, Zenon DEF MeshInv
    <3>. QED
      BY <3>1, <3>2, Zenon DEF MeshInv
  <2>. QED
    BY <2>2, <2>3, Zenon
<1>6. ViewInv'
  BY <1>2, ViewKept, Zenon DEF viewVars, router, ViewInv
<1>. QED
  BY <1>2, <1>3, <1>4, <1>5, <1>6, Zenon DEF MeshInv, viewVars, etcd

LEMMA DetectorKeeps ==
    ASSUME MeshInv, ViewInv, NEW m \in live, Detect(m) \/ Suspect(m) PROVE MeshInv' /\ ViewInv'
<1>1. live' = live \ {m} /\ UNCHANGED <<viewVars, generation, heard, records>>
  BY Zenon DEF Detect, Suspect, round
<1>2. IsFiniteSet(live')
  BY <1>1, FS_RemoveElement, Zenon DEF MeshInv
<1>3. ViewInv'
  BY <1>1, ViewKept, Zenon DEF viewVars, router, ViewInv
<1>. QED
  BY <1>1, <1>2, <1>3, Zenon DEF MeshInv, viewVars, etcd

LEMMA TickKeeps == ASSUME MeshInv, ViewInv, Tick PROVE MeshInv' /\ ViewInv'
<1>1. PICK order \in [1 .. Cardinality(live) -> live] :
         records' = [i \in DOMAIN order |->
                        [node |-> order[i][1], value |-> heard[order[i][1]][order[i][2]]]]
  BY Zenon DEF Tick
<1>2. Cardinality(live) \in Nat
  BY FS_CardinalityType, Zenon DEF MeshInv
<1>3. \A i \in 1 .. Cardinality(live) :
         order[i] \in live /\ order[i][1] \in Nodes /\ order[i][2] \in Generations
  BY DEF MeshInv
<1>4. ASSUME NEW i \in 1 .. Cardinality(live)
      PROVE  records'[i] \in Event /\ records'[i].value.state # "gone"
  BY <1>1, <1>3, ZenonT(30) DEF MeshInv, Event
<1>5. records' \in Seq(Event) /\ Len(records') = Cardinality(live)
  <2>1. DOMAIN records' = 1 .. Cardinality(live)
    BY <1>1, Zenon
  <2>2. records' = [i \in 1 .. Cardinality(live) |-> records'[i]]
    BY <1>1, Zenon
  <2>. QED
    BY <1>2, <1>4, <2>1, <2>2
<1>6. UNCHANGED <<viewVars, generation, heard, live>>
  BY Zenon DEF Tick, mesh
<1>7. ViewInv'
  BY <1>6, ViewKept, Zenon DEF viewVars, router, ViewInv
<1>. QED
  BY <1>4, <1>5, <1>6, <1>7, Zenon DEF MeshInv, viewVars, etcd

LEMMA UpsertStep == ASSUME MeshInv, ViewInv, Upsert PROVE MeshInv' /\ ViewInv'
<1>. DEFINE n == Head(records).node
            value == Head(records).value
<1>1. records # <<>> /\ records' = Tail(records) /\ Reconcile(n, value)
      /\ registry' = [registry EXCEPT ![n] = value]
      /\ UNCHANGED <<record, nodeEvents, generation, heard, live>>
  BY Zenon DEF Upsert, etcd, mesh
<1>2. n \in Nodes /\ value \in Record /\ value.state # "gone"
  <2>1. records \in Seq(Event) /\ \A i \in 1 .. Len(records) : records[i].value.state # "gone"
    BY Zenon DEF MeshInv
  <2>2. n \in Nodes /\ value \in Record
    BY <1>1, <2>1, NextEvent, Zenon
  <2>3. Head(records) = records[1] /\ 1 \in 1 .. Len(records)
    BY <1>1, <2>1
  <2>. QED
    BY <2>1, <2>2, <2>3, Zenon
<1>3. records' \in Seq(Event) /\ \A i \in 1 .. Len(records') : records'[i].value.state # "gone"
  BY <1>1, NextEvent DEF MeshInv
<1>. HIDE DEF n, value
<1>4. ViewInv'
  BY <1>1, <1>2, UpsertKeeps, Zenon DEF ViewInv
<1>. QED
  BY <1>1, <1>3, <1>4, Zenon DEF MeshInv

LEMMA ForgetStep == ASSUME MeshInv, ViewInv, Forget PROVE MeshInv' /\ ViewInv'
<1>1. PICK S : /\ registry' = [n \in Nodes |-> IF n \in S THEN Absent ELSE registry[n]]
               /\ tracker' = [n \in Nodes |-> IF n \in S THEN NoSnapshot ELSE tracker[n]]
  BY Zenon DEF Forget
<1>2. UNCHANGED <<record, nodeEvents, mesh, records>>
  BY Zenon DEF Forget, etcd
<1>. QED
  BY <1>1, <1>2, ForgetKeeps, MeshKept, Zenon DEF ViewInv

LEMMA ClusterInit == GossipInit => MeshInv /\ ViewInv
<1>. SUFFICES ASSUME GossipInit PROVE MeshInv /\ ViewInv
  BY Zenon
<1>1. Absent \in Record /\ Absent.rev = 0
  BY Zenon DEF Absent, Record, State
<1>2. MeshInv
  BY <1>1, FS_EmptySet, ClusterConstants DEF GossipInit, ViewInit, MeshInv
<1>3. ViewInv
  BY <1>1 DEF GossipInit, ViewInit, ViewInv, TrackerAgrees
<1>. QED
  BY <1>2, <1>3, Zenon

LEMMA ClusterNext == MeshInv /\ ViewInv /\ [GossipNext]_allVars => MeshInv' /\ ViewInv'
<1>. SUFFICES ASSUME MeshInv, ViewInv, [GossipNext]_allVars PROVE MeshInv' /\ ViewInv'
  BY Zenon
<1>1. CASE UNCHANGED <<viewVars, gossip>>
  BY <1>1, ViewKept, MeshKept, Zenon DEF viewVars, etcd, router, gossip, round, ViewInv
<1>2. CASE InEtcd /\ ViewNext
  BY <1>2, EtcdStep, Zenon DEF InEtcd
<1>3. CASE Join
  BY <1>3, ViewKept, MeshKept, Zenon DEF Join, viewVars, etcd, router, ViewInv
<1>4. CASE Tick \/ Upsert \/ Forget
  BY <1>4, TickKeeps, UpsertStep, ForgetStep, Zenon
<1>5. CASE \E n \in Nodes : Publish(n) \/ Spread(n)
  BY <1>5, PublishKeeps, SpreadKeeps, Zenon
<1>6. CASE \E m \in live : Detect(m) \/ Suspect(m)
  BY <1>6, DetectorKeeps, Zenon
<1>7. CASE (Answered \/ \E n \in Nodes : Dispatch(n) \/ Gc(n)) /\ UNCHANGED gossip
  BY <1>7, EtcdStep, Zenon DEF ViewNext
<1>8. CASE Refresh
  BY <1>1, <1>8, Zenon DEF Refresh, Reset, Fill
<1>. QED
  BY <1>1, <1>2, <1>3, <1>4, <1>5, <1>6, <1>7, <1>8, Zenon DEF GossipNext, Sync, allVars

\* Over either backend the epoch the next heartbeat of a node is compared with is
\* the epoch of the record the router routes by: cache_state.rs and registry.rs
\* are updated together on every path of the watchers.
THEOREM TrackerFollowsRegistry == GossipSpec => []TrackerAgrees
<1>1. ViewInv => TrackerAgrees
  BY Zenon DEF ViewInv
<1>. QED
  BY <1>1, ClusterInit, ClusterNext, PTL DEF GossipSpec

-----------------------------------------------------------------------------
(* Why no entry is replaced by an older record: the events in flight on a  *)
(* watch are in the order of the writes, none is older than the entry it   *)
(* will replace, and a watch that has ended leaves none behind.            *)
Order ==
    /\ at # "watching" => nodeEvents = <<>>
    /\ \A n \in Nodes : registry[n].rev <= record[n].rev
    /\ \A i \in 1 .. Len(nodeEvents) : \A n \in Nodes :
          nodeEvents[i].node = n => /\ registry[n].rev <= nodeEvents[i].value.rev
                                    /\ nodeEvents[i].value.rev <= record[n].rev
    /\ \A j \in 1 .. Len(nodeEvents) : \A i \in 1 .. j :
          nodeEvents[i].node = nodeEvents[j].node
             => nodeEvents[i].value.rev <= nodeEvents[j].value.rev

OrderInv == backend = "etcd" => Order

Newer == \A n \in Nodes : Registered(n) /\ Registered(n)' => registry[n].rev <= registry'[n].rev

LEMMA Revs ==
    ASSUME MeshInv, ViewInv
    PROVE  /\ \A n \in Nodes : registry[n].rev \in Nat /\ record[n].rev \in Nat
           /\ Len(nodeEvents) \in Nat
           /\ \A i \in 1 .. Len(nodeEvents) :
                 nodeEvents[i].node \in Nodes /\ nodeEvents[i].value.rev \in Nat
<1>1. \A i \in 1 .. Len(nodeEvents) : nodeEvents[i] \in Event
  BY DEF ViewInv
<1>2. \A i \in 1 .. Len(nodeEvents) : nodeEvents[i].node \in Nodes /\ nodeEvents[i].value.rev \in Nat
  BY <1>1, Zenon DEF Event, Record
<1>3. \A n \in Nodes : registry[n].rev \in Nat /\ record[n].rev \in Nat
  BY Zenon DEF MeshInv, ViewInv, Record
<1>4. Len(nodeEvents) \in Nat
  BY DEF ViewInv
<1>. QED
  BY <1>2, <1>3, <1>4, Zenon

\* With no event in flight only the entries matter.
LEMMA NoEvents ==
    ASSUME nodeEvents' = <<>>, \A k \in Nodes : registry'[k].rev <= record'[k].rev
    PROVE  Order'
<1>1. Len(nodeEvents') = 0
  BY Zenon
<1>2. \A i \in 1 .. Len(nodeEvents') : FALSE
  BY <1>1
<1>. QED
  BY <1>2, Zenon DEF Order

\* A write joins the end of the queue.
LEMMA WriteOrder ==
    ASSUME MeshInv, ViewInv, Order, NEW n \in Nodes, NEW value \in Record, Write(n, value),
           record[n].rev <= value.rev
    PROVE  Order' /\ Newer
<1>1. /\ record' = [record EXCEPT ![n] = value] /\ registry' = registry /\ at' = at
      /\ record \in [Nodes -> Record] /\ value.rev \in Nat
  BY Zenon DEF Write, router, MeshInv, Record
<1>2. Newer
  BY <1>1, Revs DEF Newer
<1>3. \A k \in Nodes : record[k].rev <= record'[k].rev /\ registry'[k].rev <= record'[k].rev
  BY <1>1, Revs DEF Order
<1>4. CASE at # "watching"
  <2>1. nodeEvents' = nodeEvents /\ nodeEvents = <<>>
    BY <1>4, Zenon DEF Write, Order
  <2>. QED
    BY <1>2, <1>3, <2>1, NoEvents, Zenon
<1>5. CASE at = "watching"
  <2>. DEFINE event == [node |-> n, value |-> value]
              last == Len(nodeEvents) + 1
  <2>1. nodeEvents' = Append(nodeEvents, event) /\ event \in Event /\ nodeEvents \in Seq(Event)
    BY <1>5, Zenon DEF Write, Event, ViewInv
  <2>2. /\ Len(nodeEvents) \in Nat /\ Len(nodeEvents') = last
        /\ nodeEvents'[last].node = n /\ nodeEvents'[last].value.rev = value.rev
        /\ \A i \in 1 .. Len(nodeEvents) : nodeEvents'[i] = nodeEvents[i]
    <3>1. Len(nodeEvents) \in Nat /\ Len(nodeEvents') = last /\ nodeEvents'[last] = event
      BY <2>1
    <3>2. \A i \in 1 .. Len(nodeEvents) : nodeEvents'[i] = nodeEvents[i]
      BY <2>1
    <3>. QED
      BY <3>1, <3>2
  <2>3. ASSUME NEW i \in 1 .. last, NEW k \in Nodes, nodeEvents'[i].node = k
        PROVE  /\ registry'[k].rev <= nodeEvents'[i].value.rev
               /\ nodeEvents'[i].value.rev <= record'[k].rev
    <3>1. CASE i = last
      <4>1. k = n /\ nodeEvents'[i].value.rev = value.rev
        BY <2>2, <2>3, <3>1, Zenon
      <4>2. record'[k] = value /\ registry'[k].rev <= record'[k].rev
        BY <1>1, <1>3, <4>1, Zenon
      <4>3. value.rev \in Nat
        BY <1>1, Zenon
      <4>. QED
        BY <4>1, <4>2, <4>3
    <3>2. CASE i \in 1 .. Len(nodeEvents)
      <4>1. nodeEvents'[i] = nodeEvents[i]
        BY <2>2, <3>2, Zenon
      <4>2. /\ registry[k].rev <= nodeEvents[i].value.rev
            /\ nodeEvents[i].value.rev <= record[k].rev
        BY <2>3, <3>2, <4>1, Zenon DEF Order
      <4>3. /\ registry[k].rev \in Nat /\ record[k].rev \in Nat /\ record'[k].rev \in Nat
            /\ nodeEvents[i].value.rev \in Nat
        BY <1>1, <3>2, Revs, Zenon
      <4>4. record[k].rev <= record'[k].rev /\ registry'[k] = registry[k]
        BY <1>1, <1>3, Zenon
      <4>. QED
        BY <4>1, <4>2, <4>3, <4>4
    <3>3. i = last \/ i \in 1 .. Len(nodeEvents)
      BY <2>2
    <3>. QED
      BY <3>1, <3>2, <3>3, Zenon
  <2>4. ASSUME NEW j \in 1 .. last, NEW i \in 1 .. j, nodeEvents'[i].node = nodeEvents'[j].node
        PROVE  nodeEvents'[i].value.rev <= nodeEvents'[j].value.rev
    <3>1. CASE j = last /\ i = last
      BY <1>1, <2>2, <3>1
    <3>2. CASE j = last /\ i \in 1 .. Len(nodeEvents)
      <4>1. /\ nodeEvents'[i] = nodeEvents[i] /\ nodeEvents[i].node = n
            /\ nodeEvents'[j].value.rev = value.rev
        BY <2>2, <2>4, <3>2, Zenon
      <4>2. nodeEvents[i].value.rev <= record[n].rev
        BY <3>2, <4>1, Zenon DEF Order
      <4>3. nodeEvents[i].value.rev \in Nat /\ record[n].rev \in Nat
        BY <3>2, Revs, Zenon
      <4>. QED
        BY <1>1, <4>1, <4>2, <4>3
    <3>3. CASE j \in 1 .. Len(nodeEvents)
      BY <2>2, <2>4, <3>3 DEF Order
    <3>. QED
      BY <2>2, <3>1, <3>2, <3>3
  <2>. QED
    BY <1>1, <1>2, <1>3, <1>5, <2>2, <2>3, <2>4, ZenonT(30) DEF Order
<1>. QED
  BY <1>4, <1>5, Zenon

\* The watcher takes the event at the head; the entry becomes its record, or none.
LEMMA ApplyOrder ==
    ASSUME MeshInv, ViewInv, Order, ApplyPut \/ ApplyDelete PROVE Order' /\ Newer
<1>. DEFINE n == Head(nodeEvents).node
            value == Head(nodeEvents).value
<1>1. /\ at = "watching" /\ at' = at /\ nodeEvents # <<>> /\ nodeEvents' = Tail(nodeEvents)
      /\ record' = record
      /\ \/ registry' = [registry EXCEPT ![n] = value]
         \/ registry' = [registry EXCEPT ![n] = Absent]
  BY Zenon DEF ApplyPut, ApplyDelete, etcd
<1>2. /\ n \in Nodes /\ value \in Record /\ Len(nodeEvents) \in Nat \ {0}
      /\ n = nodeEvents[1].node /\ value = nodeEvents[1].value
      /\ Len(nodeEvents') = Len(nodeEvents) - 1
      /\ \A i \in 1 .. Len(nodeEvents) - 1 : nodeEvents'[i] = nodeEvents[i + 1]
  BY <1>1, NextEvent, Zenon DEF ViewInv
<1>. HIDE DEF n, value
<1>3. /\ value.rev \in Nat /\ Absent.rev = 0 /\ Absent.state = "gone"
      /\ registry[n].rev <= value.rev /\ value.rev <= record[n].rev
  BY <1>2, Revs DEF Order, Absent
<1>4. /\ \A k \in Nodes \ {n} : registry'[k] = registry[k]
      /\ registry'[n] = value \/ registry'[n] = Absent
  BY <1>1, <1>2, Zenon DEF ViewInv
<1>5. Newer
  BY <1>3, <1>4, Revs DEF Newer, Registered
<1>6. \A k \in Nodes : registry'[k].rev <= record'[k].rev
  BY <1>1, <1>3, <1>4, Revs DEF Order
<1>7. ASSUME NEW i \in 1 .. Len(nodeEvents'), NEW k \in Nodes, nodeEvents'[i].node = k
      PROVE  /\ registry'[k].rev <= nodeEvents'[i].value.rev
             /\ nodeEvents'[i].value.rev <= record'[k].rev
  <2>1. /\ i + 1 \in 1 .. Len(nodeEvents) /\ 1 \in 1 .. i + 1
        /\ nodeEvents'[i] = nodeEvents[i + 1]
    BY <1>2
  <2>2. /\ registry[k].rev <= nodeEvents[i + 1].value.rev
        /\ nodeEvents[i + 1].value.rev <= record[k].rev
    BY <1>7, <2>1, Zenon DEF Order
  <2>3. n = k => value.rev <= nodeEvents[i + 1].value.rev
    BY <1>2, <1>7, <2>1, Zenon DEF Order
  <2>. QED
    BY <1>1, <1>3, <1>4, <2>1, <2>2, <2>3, Revs
<1>8. ASSUME NEW j \in 1 .. Len(nodeEvents'), NEW i \in 1 .. j,
             nodeEvents'[i].node = nodeEvents'[j].node
      PROVE  nodeEvents'[i].value.rev <= nodeEvents'[j].value.rev
  <2>1. /\ j + 1 \in 1 .. Len(nodeEvents) /\ i + 1 \in 1 .. j + 1
        /\ nodeEvents'[j] = nodeEvents[j + 1] /\ nodeEvents'[i] = nodeEvents[i + 1]
    BY <1>2
  <2>. QED
    BY <1>8, <2>1, Zenon DEF Order
<1>. QED
  BY <1>1, <1>5, <1>6, <1>7, <1>8, Zenon DEF Order

\* The steps that leave the queue empty.
LEMMA EmptyOrder ==
    ASSUME MeshInv, ViewInv, Order, nodeEvents' = <<>>, record' = record,
           \A n \in Nodes : registry'[n] \in {registry[n], record[n]}
    PROVE  Order' /\ Newer
<1>1. \A n \in Nodes : /\ registry[n].rev <= registry'[n].rev
                        /\ registry'[n].rev <= record'[n].rev
  BY Revs DEF Order
<1>. QED
  BY <1>1, NoEvents, Zenon DEF Newer

LEMMA SnapshotOrder == ASSUME MeshInv, ViewInv, Order, SnapshotNodes PROVE Order' /\ Newer
<1>1. /\ at = "snapshot" /\ UNCHANGED <<record, nodeEvents>>
      /\ \A n \in Nodes : registry'[n] \in {registry[n], record[n]}
  BY Zenon DEF SnapshotNodes, etcd, ViewInv
<1>2. nodeEvents' = <<>>
  BY <1>1 DEF Order
<1>. QED
  BY <1>1, <1>2, EmptyOrder, Zenon

LEMMA EtcdOrder == ASSUME MeshInv, ViewInv, Order, ViewNext PROVE Order' /\ Newer
<1>1. CASE SnapshotNodes
  BY <1>1, SnapshotOrder, Zenon
<1>2. CASE ApplyPut \/ ApplyDelete
  BY <1>2, ApplyOrder, Zenon
<1>3. CASE SnapshotCordons \/ OpenWatch \/ Restart
  <2>1. at # "watching" /\ UNCHANGED <<record, registry, nodeEvents>>
    BY <1>3, Zenon DEF SnapshotCordons, OpenWatch, Restart, etcd, router
  <2>2. nodeEvents' = <<>>
    BY <2>1, Zenon DEF Order
  <2>. QED
    BY <2>1, <2>2, EmptyOrder, Zenon
<1>4. CASE EndWatch
  <2>1. nodeEvents' = <<>> /\ UNCHANGED <<record, registry>>
    BY <1>4 DEF EndWatch, etcd, router
  <2>. QED
    BY <2>1, EmptyOrder, Zenon
<1>5. CASE \E n \in Nodes : Heartbeat(n)
  <2>1. PICK n \in Nodes : Write(n, record[n])
    BY <1>5, Zenon DEF Heartbeat
  <2>2. record[n] \in Record
    BY Zenon DEF MeshInv
  <2>3. record[n].rev <= record[n].rev
    BY <2>2 DEF Record
  <2>. QED
    BY <2>1, <2>2, <2>3, WriteOrder, Zenon
<1>6. CASE \E n \in Nodes : Change(n)
  <2>1. PICK n \in Nodes : \E state \in State, epoch \in {0} \cup Observe(record[n].epoch) :
           Write(n, [state |-> state, epoch |-> epoch, rev |-> record[n].rev + 1])
    BY <1>6, Zenon DEF Change
  <2>2. PICK state \in State, epoch \in {0} \cup Observe(record[n].epoch) :
           Write(n, [state |-> state, epoch |-> epoch, rev |-> record[n].rev + 1])
    BY <2>1, Zenon
  <2>3. record[n] \in Record
    BY Zenon DEF MeshInv
  <2>4. /\ [state |-> state, epoch |-> epoch, rev |-> record[n].rev + 1] \in Record
        /\ record[n].rev <= record[n].rev + 1
    BY <2>3 DEF Observe, Record
  <2>. QED
    BY <2>2, <2>4, WriteOrder, Zenon
<1>7. CASE UNCHANGED <<record, registry, nodeEvents, at>>
  <2>1. Newer
    BY <1>7, Revs DEF Newer
  <2>2. Order'
    BY <1>7, Zenon DEF Order
  <2>. QED
    BY <2>1, <2>2, Zenon
<1>8. CASE \/ Answered
           \/ \E k \in Runs : OpenCordonWatch(k) \/ ApplyCordon(k) \/ EndCordonWatch(k)
           \/ \E n \in Nodes : Dispatch(n) \/ Gc(n)
           \/ \E n \in Nodes, set \in BOOLEAN : SetCordonKey(n, set)
  BY <1>7, <1>8, Zenon DEF Answered, OpenCordonWatch, ApplyCordon, EndCordonWatch, Dispatch, Gc,
                    SetCordonKey, etcd, router
<1>. QED
  BY <1>1, <1>2, <1>3, <1>4, <1>5, <1>6, <1>8, Zenon DEF ViewNext, WatcherStep

LEMMA OrderNext ==
    ASSUME MeshInv, ViewInv, OrderInv, [GossipNext]_allVars
    PROVE  OrderInv' /\ (backend = "etcd" => Newer)
<1>1. CASE UNCHANGED <<viewVars, gossip>>
  <2>1. UNCHANGED <<at, nodeEvents, registry, record, backend>>
    BY <1>1, Zenon DEF viewVars, etcd, router, gossip
  <2>2. Newer
    BY <2>1, Revs DEF Newer
  <2>3. Order => Order'
    BY <2>1, Zenon DEF Order
  <2>. QED
    BY <2>1, <2>2, <2>3, Zenon DEF OrderInv
<1>2. CASE InEtcd /\ ViewNext
  BY <1>2, EtcdOrder, Zenon DEF InEtcd, gossip, OrderInv
<1>3. CASE backend # "etcd" /\ backend' = backend
  BY <1>3, Zenon DEF OrderInv
<1>4. CASE Refresh
  BY <1>1, <1>4, Zenon DEF Refresh, Reset, Fill
<1>5. CASE /\ InGossip
           /\ \/ Sync
              \/ \E n \in Nodes : Publish(n) \/ Spread(n)
              \/ \E m \in live : Detect(m) \/ Suspect(m)
              \/ (Answered \/ \E n \in Nodes : Dispatch(n) \/ Gc(n)) /\ UNCHANGED gossip
  BY <1>3, <1>5, ZenonT(30) DEF InGossip, Sync, Join, Tick, Upsert, Forget, Publish, Spread, Detect,
                    Suspect, gossip
<1>. QED
  BY <1>1, <1>2, <1>4, <1>5 DEF GossipNext, allVars

\* In etcd mode a registered node's entry never goes back to an older record,
\* for any number of nodes, changes, lost watches and restarts of the watcher:
\* watcher.rs applies a watch's events in order, and drops them with the watch
\* before it takes the next snapshot.
THEOREM EntriesNeverGoBack == GossipSpec => NeverOlder
<1>. DEFINE Newest == \A n \in Nodes :
               backend = "etcd" /\ Registered(n) /\ Registered(n)'
                  => registry[n].rev <= registry'[n].rev
<1>1. ASSUME GossipInit PROVE OrderInv
  <2>1. nodeEvents = <<>> /\ \A n \in Nodes : registry[n] = Absent /\ record[n] = Absent
    BY <1>1, Zenon DEF GossipInit, ViewInit
  <2>2. ASSUME NEW n \in Nodes PROVE registry[n].rev <= record[n].rev
    <3>1. registry[n].rev = 0 /\ record[n].rev = 0
      BY <2>1 DEF Absent
    <3>. QED
      BY <3>1
  <2>3. \A i \in 1 .. Len(nodeEvents) : FALSE
    BY <2>1
  <2>. QED
    BY <2>1, <2>2, <2>3, Zenon DEF OrderInv, Order
<1>2. MeshInv /\ ViewInv /\ OrderInv /\ [GossipNext]_allVars => OrderInv' /\ [Newest]_allVars
  BY OrderNext, Zenon DEF Newer
<1>3. GossipSpec => [][Newest]_allVars
  BY <1>1, <1>2, ClusterInit, ClusterNext, PTL DEF GossipSpec
<1>. QED
  BY <1>3, Zenon DEF NeverOlder

-----------------------------------------------------------------------------
(* The admission queue.  First, what its operations do to a queue.         *)
LEMMA ItemTyped == ASSUME NEW S, NEW q \in Seq(S), NEW i \in 1..Len(q) PROVE q[i] \in S
OBVIOUS

LEMMA EmptyQueue ==
    ASSUME NEW S
    PROVE  <<>> \in Seq(S) /\ Len(<<>>) = 0 /\ \A q \in Seq(S) : q # <<>> => Len(q) \in Nat \ {0}
OBVIOUS

LEMMA QueueDomain ==
    ASSUME NEW S, NEW q \in Seq(S)
    PROVE  Len(q) \in Nat /\ q \in [1..Len(q) -> S] /\ DOMAIN q = 1..Len(q)
OBVIOUS

LEMMA QueuePopped ==
    ASSUME NEW S, NEW q \in Seq(S), q # <<>>
    PROVE  /\ Head(q) \in S /\ Tail(q) \in Seq(S) /\ Len(Tail(q)) = Len(q) - 1
           /\ \A i \in 1..Len(Tail(q)) : Tail(q)[i] = q[i + 1]
OBVIOUS

LEMMA QueuePushed ==
    ASSUME NEW S, NEW q \in Seq(S), NEW e \in S
    PROVE  /\ Append(q, e) \in Seq(S) /\ Append(q, e) # <<>> /\ Len(Append(q, e)) = Len(q) + 1
           /\ \A i \in 1..Len(q) : Append(q, e)[i] = q[i]
           /\ Append(q, e)[Len(q) + 1] = e
OBVIOUS

\* The mutex is held inside release() exactly by the request whose Permit is
\* being dropped.
HolderReleases ==
    \A r \in Requests : pc[r] = "releasing" <=> holder = r

\* A queue holds senders of its own tenant, each once, of requests that wait
\* or have given up: never of one that was already served.
QueueEntries ==
    \A t \in Tenants :
        /\ \A i \in DOMAIN waiting[t] :
              /\ TenantOf[waiting[t][i]] = t
              /\ pc[waiting[t][i]] \in {"parked", "timedout", "gone"}
        /\ \A i, j \in DOMAIN waiting[t] : waiting[t][i] = waiting[t][j] => i = j

QueueInv == QueueEntries /\ RotationMatchesQueues /\ NoOrphanedWaiter

SlotInv == HolderReleases /\ SlotsAccounted /\ FullWhileWaiting

IInv == TypeOK /\ SlotInv /\ QueueInv

-----------------------------------------------------------------------------
\* Every step of a request keeps the types of the pool's state.
LEMMA StepKeepsType ==
    ASSUME TypeOK, NEW r \in Requests, Step(r)
    PROVE  TypeOK'
<1> USE AdmissionConstants DEF TypeOK, Stage
<1>1. CASE TryAdmit(r)
  <2>1. CASE TakeSlot(r)
    BY <1>1, <2>1 DEF TryAdmit, TakeSlot
  <2>2. CASE ~TakeSlot(r)
    BY <1>1, <2>2, Zenon DEF TryAdmit
  <2>. QED
    BY <2>1, <2>2, Zenon
<1>2. CASE Enqueue(r)
  <2>1. TenantOf[r] \in Tenants
    BY Zenon
  <2>2. CASE TakeSlot(r)
    BY <1>2, <2>2 DEF Enqueue, TakeSlot
  <2>3. CASE RejectFull(r)
    BY <1>2, <2>3, Zenon DEF Enqueue, RejectFull
  <2>4. CASE Park(r)
    <3>1. /\ Append(waiting[TenantOf[r]], r) \in Seq(Requests)
          /\ Append(turn, TenantOf[r]) \in Seq(Tenants)
      BY <2>1, QueuePushed, Zenon
    <3>. QED
      BY <1>2, <2>1, <2>4, <3>1, Zenon DEF Enqueue, Park
  <2>. QED
    BY <1>2, <2>2, <2>3, <2>4, Zenon DEF Enqueue
<1>3. CASE Receive(r)
  BY <1>3, Zenon DEF Receive
<1>4. CASE WaitTimeout(r)
  BY <1>4, Zenon DEF WaitTimeout
<1>5. CASE HangUp(r)
  BY <1>5, Zenon DEF HangUp
<1>6. CASE BeginRelease(r)
  BY <1>6, Zenon DEF BeginRelease
<1>7. CASE ServeTurn(r)
  <2>1. turn # <<>> /\ Head(turn) \in Tenants /\ Tail(turn) \in Seq(Tenants)
    BY <1>7, QueuePopped, Zenon DEF ServeTurn
  <2>2. CASE waiting[Head(turn)] = <<>>
    BY <1>7, <2>1, <2>2, Zenon DEF ServeTurn
  <2>3. CASE waiting[Head(turn)] # <<>>
    <3>1. /\ Head(waiting[Head(turn)]) \in Requests
          /\ Tail(waiting[Head(turn)]) \in Seq(Requests)
      BY <2>1, <2>3, QueuePopped, Zenon
    <3>2. Append(Tail(turn), Head(turn)) \in Seq(Tenants)
      BY <2>1, QueuePushed, Zenon
    <3>. QED
      BY <1>7, <2>1, <2>3, <3>1, <3>2, Zenon DEF ServeTurn
  <2>. QED
    BY <2>2, <2>3, Zenon
<1>8. CASE FreeSlot(r)
  BY <1>8 DEF FreeSlot
<1>. QED
  BY <1>1, <1>2, <1>3, <1>4, <1>5, <1>6, <1>7, <1>8, Zenon DEF Step


\* What a step does to the set of slot owners; the count follows it.
LEMMA OwnersFinite ==
    ASSUME TypeOK
    PROVE  IsFiniteSet(Owners) /\ Cardinality(Owners) \in Nat
<1>1. Owners \in SUBSET Requests
  BY Zenon DEF Owners
<1>2. IsFiniteSet(Owners)
  BY <1>1, FS_Subset, AdmissionConstants, Zenon
<1>. QED
  BY <1>2, FS_CardinalityType, Zenon

LEMMA TakeSlotKeepsSlots ==
    ASSUME IInv, TypeOK', NEW r \in Requests, TakeSlot(r), UNCHANGED holder,
           pc[r] \in {"new", "retry"}
    PROVE  SlotInv'
<1> USE DEF IInv
<1>1. Owners' = Owners \cup {r} /\ r \notin Owners
  BY Zenon DEF TakeSlot, Owners, TypeOK
<1>2. Cardinality(Owners') = Cardinality(Owners) + 1
  BY <1>1, OwnersFinite, FS_AddElement, Zenon
<1>3. HolderReleases'
  BY Zenon DEF TakeSlot, HolderReleases, SlotInv, TypeOK
<1>4. SlotsAccounted'
  BY <1>2, AdmissionConstants DEF TakeSlot, SlotIsFree, SlotsAccounted, SlotInv, TypeOK
<1>5. FullWhileWaiting'
  BY Zenon DEF TakeSlot, SlotIsFree, FullWhileWaiting
<1>. QED
  BY <1>3, <1>4, <1>5, Zenon DEF SlotInv

\* Every step of a request keeps the slot count exact and within max_queue,
\* and the pool full while somebody is queued.
LEMMA StepKeepsSlots ==
    ASSUME IInv, TypeOK', NEW r \in Requests, Step(r)
    PROVE  SlotInv'
<1> USE AdmissionConstants DEF IInv
<1>a. ASSUME Owners' = Owners, inflight' = inflight
      PROVE  SlotsAccounted'
  BY <1>a, Zenon DEF SlotInv, SlotsAccounted
<1>1. CASE TryAdmit(r)
  <2>1. CASE TakeSlot(r)
    BY <1>1, <2>1, TakeSlotKeepsSlots, Zenon DEF TryAdmit
  <2>2. CASE ~TakeSlot(r)
    <3>1. Owners' = Owners
      BY <1>1, <2>2, Zenon DEF TryAdmit, Owners, TypeOK
    <3>2. HolderReleases' /\ FullWhileWaiting'
      BY <1>1, <2>2, Zenon DEF TryAdmit, SlotInv, HolderReleases, FullWhileWaiting, TypeOK
    <3>3. inflight' = inflight
      BY <1>1, <2>2, Zenon DEF TryAdmit
    <3>. QED
      BY <1>a, <3>1, <3>2, <3>3, Zenon DEF SlotInv
  <2>. QED
    BY <2>1, <2>2, Zenon
<1>2. CASE Enqueue(r)
  <2>1. CASE TakeSlot(r)
    BY <1>2, <2>1, TakeSlotKeepsSlots DEF Enqueue
  <2>2. CASE RejectFull(r)
    <3>1. Owners' = Owners
      BY <1>2, <2>2, Zenon DEF Enqueue, RejectFull, Owners, TypeOK
    <3>2. HolderReleases' /\ FullWhileWaiting'
      BY <1>2, <2>2 DEF Enqueue, RejectFull, SlotInv, HolderReleases, FullWhileWaiting, TypeOK
    <3>. QED
      BY <1>a, <2>2, <3>1, <3>2, Zenon DEF SlotInv, RejectFull
  <2>3. CASE Park(r)
    <3>1. Owners' = Owners
      BY <1>2, <2>3, Zenon DEF Enqueue, Park, Owners, TypeOK
    <3>2. HolderReleases'
      BY <1>2, <2>3 DEF Enqueue, Park, SlotInv, HolderReleases, TypeOK
    <3>3. FullWhileWaiting'
      BY <2>3 DEF Park, SlotIsFree, SlotInv, SlotsAccounted, FullWhileWaiting, TypeOK
    <3>. QED
      BY <1>a, <2>3, <3>1, <3>2, <3>3 DEF SlotInv, Park
  <2>. QED
    BY <1>2, <2>1, <2>2, <2>3, Zenon DEF Enqueue
<1>3. CASE Receive(r)
  <2>1. Owners' = Owners
    BY <1>3, Zenon DEF Receive, Owners, TypeOK
  <2>. QED
    BY <1>a, <1>3, <2>1, Zenon DEF Receive, SlotInv, HolderReleases, FullWhileWaiting, TypeOK
<1>4. CASE WaitTimeout(r)
  <2>1. Owners' = Owners
    BY <1>4, Zenon DEF WaitTimeout, Owners, TypeOK
  <2>. QED
    BY <1>a, <1>4, <2>1, Zenon DEF WaitTimeout, SlotInv, HolderReleases, FullWhileWaiting, TypeOK
<1>5. CASE HangUp(r)
  <2>1. Owners' = Owners
    BY <1>5, Zenon DEF HangUp, Owners, TypeOK
  <2>. QED
    BY <1>a, <1>5, <2>1, Zenon DEF HangUp, SlotInv, HolderReleases, FullWhileWaiting, TypeOK
<1>6. CASE BeginRelease(r)
  <2>1. Owners' = Owners
    BY <1>6, Zenon DEF BeginRelease, Owners, TypeOK
  <2>. QED
    BY <1>a, <1>6, <2>1, Zenon DEF BeginRelease, SlotInv, HolderReleases, FullWhileWaiting, TypeOK
<1>7. CASE ServeTurn(r)
  <2> DEFINE t == Head(turn)
             w == Head(waiting[t])
  <2>1. /\ turn # <<>> /\ t \in Tenants /\ Tail(turn) \in Seq(Tenants)
        /\ holder = r /\ pc[r] = "releasing" /\ r \in Owners
    BY <1>7, QueuePopped DEF ServeTurn, TypeOK, SlotInv, HolderReleases, Owners
  <2>2. FullWhileWaiting'
    BY <1>7, <2>1, Zenon DEF ServeTurn, SlotInv, FullWhileWaiting
  <2>3. CASE waiting[t] # <<>> /\ pc[w] = "parked"
    <3>1. w \in Requests /\ w # r
      BY <2>1, <2>3, QueuePopped DEF TypeOK
    <3>2. /\ pc' = [pc EXCEPT ![w] = "handed", ![r] = "done"]
          /\ holder' = NoRequest
      BY <1>7, <2>3, Zenon DEF ServeTurn
    <3>3. Owners' = (Owners \ {r}) \cup {w} /\ w \notin Owners
      <4>1. \A q \in Requests :
               pc'[q] = IF q = r THEN "done" ELSE IF q = w THEN "handed" ELSE pc[q]
        BY <3>1, <3>2 DEF TypeOK
      <4>. HIDE DEF w
      <4>. QED
        BY <2>1, <2>3, <3>1, <4>1, Zenon DEF Owners
    <3>4. Cardinality(Owners') = Cardinality(Owners)
      <4>1. Cardinality(Owners \ {r}) = Cardinality(Owners) - 1 /\ IsFiniteSet(Owners \ {r})
        BY <2>1, OwnersFinite, FS_RemoveElement, Zenon
      <4>2. Cardinality((Owners \ {r}) \cup {w}) = Cardinality(Owners \ {r}) + 1
        BY <3>3, <4>1, FS_AddElement, Zenon
      <4>. QED
        BY <3>3, <4>1, <4>2, OwnersFinite
    <3>5. SlotsAccounted'
      BY <1>7, <3>4, Zenon DEF ServeTurn, SlotInv, SlotsAccounted
    <3>6. HolderReleases'
      BY <2>1, <2>3, <3>1, <3>2, Zenon DEF SlotInv, HolderReleases, TypeOK
    <3>. QED
      BY <2>2, <3>5, <3>6, Zenon DEF SlotInv
  <2>4. CASE ~(waiting[t] # <<>> /\ pc[w] = "parked")
    <3>1. UNCHANGED <<pc, holder, inflight>>
      <4>1. CASE waiting[t] = <<>>
        BY <1>7, <4>1 DEF ServeTurn
      <4>2. CASE waiting[t] # <<>>
        BY <1>7, <2>4, <4>2, Zenon DEF ServeTurn
      <4>. QED
        BY <4>1, <4>2, Zenon
    <3>2. Owners' = Owners
      BY <3>1, Zenon DEF Owners
    <3>. QED
      BY <1>a, <2>2, <3>1, <3>2, Zenon DEF SlotInv, HolderReleases
  <2>. QED
    BY <2>3, <2>4, Zenon
<1>8. CASE FreeSlot(r)
  <2>1. r \in Owners /\ pc[r] = "releasing"
    BY <1>8, Zenon DEF FreeSlot, SlotInv, HolderReleases, Owners
  <2>2. Owners' = Owners \ {r}
    BY <1>8, <2>1, Zenon DEF FreeSlot, Owners, TypeOK
  <2>3. Cardinality(Owners') = Cardinality(Owners) - 1
    BY <2>1, <2>2, OwnersFinite, FS_RemoveElement, Zenon
  <2>4. inflight # 0
    BY <2>1, OwnersFinite, FS_EmptySet, Zenon DEF SlotInv, SlotsAccounted
  <2>5. SlotsAccounted'
    BY <1>8, <2>3, <2>4 DEF FreeSlot, SlotInv, SlotsAccounted, TypeOK
  <2>6. HolderReleases' /\ FullWhileWaiting'
    BY <1>8, <2>1 DEF FreeSlot, SlotInv, HolderReleases, FullWhileWaiting, TypeOK
  <2>. QED
    BY <2>5, <2>6, Zenon DEF SlotInv
<1>. QED
  BY <1>1, <1>2, <1>3, <1>4, <1>5, <1>6, <1>7, <1>8, ZenonT(60) DEF Step


\* Steps that touch neither queue nor rotation keep the queue invariant as
\* long as no entry is served and nobody starts to wait.
LEMMA ChannelStepKeepsQueues ==
    ASSUME IInv, TypeOK', NEW r \in Requests, UNCHANGED <<waiting, turn>>,
           NEW s \in Stage, pc' = [pc EXCEPT ![r] = s],
           s # "parked",
           pc[r] \in {"parked", "timedout", "gone"} => s \in {"timedout", "gone"}
    PROVE  QueueInv'
<1> USE AdmissionConstants DEF IInv
<1>1. RotationMatchesQueues'
  BY Zenon DEF QueueInv, RotationMatchesQueues
<1>2. NoOrphanedWaiter'
  BY Zenon DEF QueueInv, NoOrphanedWaiter, TypeOK
<1>3. QueueEntries'
  <2> SUFFICES ASSUME NEW t \in Tenants
               PROVE  /\ \A i \in DOMAIN waiting[t] :
                            /\ TenantOf[waiting[t][i]] = t
                            /\ pc'[waiting[t][i]] \in {"parked", "timedout", "gone"}
                      /\ \A i, j \in DOMAIN waiting[t] : waiting[t][i] = waiting[t][j] => i = j
    BY Zenon DEF QueueEntries
  <2>1. /\ \A i \in DOMAIN waiting[t] :
              /\ TenantOf[waiting[t][i]] = t
              /\ pc[waiting[t][i]] \in {"parked", "timedout", "gone"}
        /\ \A i, j \in DOMAIN waiting[t] : waiting[t][i] = waiting[t][j] => i = j
    BY Zenon DEF QueueInv, QueueEntries
  <2>2. \A i \in DOMAIN waiting[t] : waiting[t][i] \in Requests
    BY ItemTyped DEF TypeOK
  <2>. QED
    BY <2>1, <2>2, Zenon DEF TypeOK
<1>. QED
  BY <1>1, <1>2, <1>3, Zenon DEF QueueInv

\* Parking appends the request to its tenant's queue and the tenant to the
\* rotation with its first waiter.
LEMMA ParkKeepsQueues ==
    ASSUME IInv, TypeOK', NEW r \in Requests, pc[r] = "retry", Park(r)
    PROVE  QueueInv'
<1> USE AdmissionConstants DEF IInv
<1> DEFINE t == TenantOf[r]
           q == waiting[t]
<1>1. /\ t \in Tenants /\ q \in Seq(Requests) /\ turn \in Seq(Tenants)
      /\ pc' = [pc EXCEPT ![r] = "parked"]
      /\ waiting' = [waiting EXCEPT ![t] = Append(q, r)]
      /\ turn' = IF q = <<>> THEN Append(turn, t) ELSE turn
  BY Zenon DEF Park, TypeOK
<1>2. /\ Append(q, r) # <<>>
      /\ Len(Append(q, r)) = Len(q) + 1
      /\ \A i \in 1 .. Len(q) : Append(q, r)[i] = q[i]
      /\ Append(q, r)[Len(q) + 1] = r
      /\ DOMAIN Append(q, r) = 1 .. Len(q) + 1 /\ DOMAIN q = 1 .. Len(q)
      /\ Len(q) \in Nat
  <2>1. Append(q, r) \in Seq(Requests) /\ Append(q, r) # <<>>
    BY <1>1, QueuePushed
  <2>. QED
    BY <1>1, <2>1, QueuePushed, QueueDomain
<1>3. /\ Len(Append(turn, t)) = Len(turn) + 1
      /\ \A i \in 1 .. Len(turn) : Append(turn, t)[i] = turn[i]
      /\ Append(turn, t)[Len(turn) + 1] = t
      /\ DOMAIN Append(turn, t) = 1 .. Len(turn) + 1 /\ DOMAIN turn = 1 .. Len(turn)
      /\ Len(turn) \in Nat
  <2>1. Append(turn, t) \in Seq(Tenants)
    BY <1>1, QueuePushed, Zenon
  <2>. QED
    BY <1>1, <2>1, QueuePushed, QueueDomain
<1>4. \A u \in Tenants : \A i \in DOMAIN waiting[u] :
         waiting[u][i] \in Requests /\ waiting[u][i] # r
  <2>1. \A u \in Tenants : waiting[u] \in Seq(Requests)
    BY Zenon DEF TypeOK
  <2>2. \A u \in Tenants : \A i \in DOMAIN waiting[u] : waiting[u][i] \in Requests
    BY <2>1, QueueDomain
  <2>3. \A u \in Tenants : \A i \in DOMAIN waiting[u] : pc[waiting[u][i]] # "retry"
    BY Zenon DEF QueueInv, QueueEntries
  <2>. QED
    BY <2>2, <2>3, Zenon
<1>5. QueueEntries'
  <2> SUFFICES ASSUME NEW u \in Tenants
               PROVE  /\ \A i \in DOMAIN waiting'[u] :
                            /\ TenantOf[waiting'[u][i]] = u
                            /\ pc'[waiting'[u][i]] \in {"parked", "timedout", "gone"}
                      /\ \A i, j \in DOMAIN waiting'[u] :
                            waiting'[u][i] = waiting'[u][j] => i = j
    BY Zenon DEF QueueEntries
  <2>1. /\ \A i \in DOMAIN waiting[u] :
              /\ TenantOf[waiting[u][i]] = u
              /\ pc[waiting[u][i]] \in {"parked", "timedout", "gone"}
        /\ \A i, j \in DOMAIN waiting[u] : waiting[u][i] = waiting[u][j] => i = j
    BY Zenon DEF QueueInv, QueueEntries
  <2>2. CASE u # t
    BY <1>1, <1>4, <2>1, <2>2, ZenonT(60) DEF TypeOK
  <2>3. CASE u = t
    <3>1. waiting'[u] = Append(q, r)
      BY <1>1, <2>3, Zenon DEF TypeOK
    <3>2. \A i \in 1 .. Len(q) + 1 : i \in 1 .. Len(q) \/ i = Len(q) + 1
      BY <1>2
    <3>. QED
      BY <1>1, <1>2, <1>4, <2>1, <2>3, <3>1, <3>2 DEF TypeOK
  <2>. QED
    BY <2>2, <2>3, Zenon
<1>6. RotationMatchesQueues'
  <2>1. CASE q = <<>>
    <3>1. \A i \in DOMAIN turn : turn[i] # t /\ turn[i] \in Tenants
      BY <1>1, <2>1, ItemTyped DEF QueueInv, RotationMatchesQueues
    <3>2. turn' = Append(turn, t)
      BY <1>1, <2>1, Zenon
    <3>3. \A i \in 1 .. Len(turn) + 1 : i \in 1 .. Len(turn) \/ i = Len(turn) + 1
      BY <1>3
    <3>4. \A i, j \in DOMAIN turn' : turn'[i] = turn'[j] => i = j
      BY <1>3, <3>1, <3>2, <3>3 DEF QueueInv, RotationMatchesQueues
    <3>5. \A u \in Tenants : (\E i \in DOMAIN turn' : turn'[i] = u)
                               <=> (u = t \/ \E i \in DOMAIN turn : turn[i] = u)
      BY <1>3, <3>2, <3>3
    <3>6. \A u \in Tenants : waiting'[u] # <<>> <=> (u = t \/ waiting[u] # <<>>)
      BY <1>1, <1>2, Zenon DEF TypeOK
    <3>. QED
      BY <3>4, <3>5, <3>6, Zenon DEF QueueInv, RotationMatchesQueues
  <2>2. CASE q # <<>>
    <3>1. \A u \in Tenants : waiting'[u] # <<>> <=> waiting[u] # <<>>
      BY <1>1, <1>2, <2>2, Zenon DEF TypeOK
    <3>. QED
      BY <1>1, <2>2, <3>1, Zenon DEF QueueInv, RotationMatchesQueues
  <2>. QED
    BY <2>1, <2>2, Zenon
<1>7. NoOrphanedWaiter'
  <2> SUFFICES ASSUME NEW p \in Requests, pc'[p] = "parked"
               PROVE  \E i \in DOMAIN waiting'[TenantOf[p]] : waiting'[TenantOf[p]][i] = p
    BY Zenon DEF NoOrphanedWaiter
  <2>1. CASE p = r
    BY <1>1, <1>2, <2>1 DEF TypeOK
  <2>2. CASE p # r
    <3>1. PICK i \in DOMAIN waiting[TenantOf[p]] : waiting[TenantOf[p]][i] = p
      BY <1>1, <2>2, Zenon DEF QueueInv, NoOrphanedWaiter, TypeOK
    <3>2. TenantOf[p] \in Tenants
      BY Zenon
    <3>3. i \in DOMAIN waiting'[TenantOf[p]] /\ waiting'[TenantOf[p]][i] = p
      BY <1>1, <1>2, <3>1, <3>2 DEF TypeOK
    <3>. QED
      BY <3>3, Zenon
  <2>. QED
    BY <2>1, <2>2, Zenon
<1>. QED
  BY <1>5, <1>6, <1>7, Zenon DEF QueueInv


\* One iteration of release() takes the oldest entry off the queue of the
\* tenant at the front, and the tenant off the front of the rotation.
LEMMA ServeTurnKeepsQueues ==
    ASSUME IInv, TypeOK', NEW r \in Requests, ServeTurn(r)
    PROVE  QueueInv'
<1> USE AdmissionConstants DEF IInv
<1> DEFINE t == Head(turn)
           q == waiting[t]
           w == Head(q)
<1>1. /\ turn \in Seq(Tenants) /\ turn # <<>> /\ Len(turn) \in Nat \ {0}
      /\ t \in Tenants /\ t = turn[1] /\ q \in Seq(Requests)
      /\ Tail(turn) \in Seq(Tenants) /\ Len(Tail(turn)) = Len(turn) - 1
      /\ \A i \in 1 .. Len(turn) - 1 : Tail(turn)[i] = turn[i + 1]
      /\ DOMAIN turn = 1 .. Len(turn) /\ DOMAIN Tail(turn) = 1 .. Len(turn) - 1
  <2>1. turn \in Seq(Tenants) /\ turn # <<>>
    BY Zenon DEF ServeTurn, TypeOK
  <2>2. /\ t \in Tenants /\ Tail(turn) \in Seq(Tenants)
        /\ Len(Tail(turn)) = Len(turn) - 1
        /\ \A i \in 1 .. Len(Tail(turn)) : Tail(turn)[i] = turn[i + 1]
    BY <2>1, QueuePopped, Zenon
  <2>3. DOMAIN turn = 1 .. Len(turn) /\ DOMAIN Tail(turn) = 1 .. Len(Tail(turn))
    BY <2>1, <2>2, QueueDomain, Zenon
  <2>4. Len(turn) \in Nat \ {0} /\ t = turn[1]
    BY <2>1, EmptyQueue, QueueDomain
  <2>5. q \in Seq(Requests)
    BY <2>2, Zenon DEF TypeOK
  <2>. QED
    BY <2>1, <2>2, <2>3, <2>4, <2>5, Zenon
<1>2. q # <<>>
  <2>1. 1 \in DOMAIN turn /\ turn[1] = t
    BY <1>1
  <2>. QED
    BY <1>1, <2>1, Zenon DEF QueueInv, RotationMatchesQueues
<1>3. /\ waiting' = [waiting EXCEPT ![t] = Tail(q)]
      /\ turn' = IF Tail(q) = <<>> THEN Tail(turn) ELSE Append(Tail(turn), t)
      /\ IF pc[w] = "parked" THEN pc' = [pc EXCEPT ![w] = "handed", ![r] = "done"]
                             ELSE pc' = pc
      /\ holder = r
  BY <1>2, Zenon DEF ServeTurn
<1>4. /\ w \in Requests /\ w = q[1] /\ Len(q) \in Nat \ {0}
      /\ Tail(q) \in Seq(Requests) /\ Len(Tail(q)) = Len(q) - 1
      /\ \A i \in 1 .. Len(q) - 1 : Tail(q)[i] = q[i + 1]
      /\ DOMAIN q = 1 .. Len(q) /\ DOMAIN Tail(q) = 1 .. Len(q) - 1
  <2>1. /\ w \in Requests /\ Tail(q) \in Seq(Requests)
        /\ Len(Tail(q)) = Len(q) - 1
        /\ \A i \in 1 .. Len(Tail(q)) : Tail(q)[i] = q[i + 1]
    BY <1>1, <1>2, QueuePopped, Zenon
  <2>2. DOMAIN q = 1 .. Len(q) /\ DOMAIN Tail(q) = 1 .. Len(Tail(q))
    BY <1>1, <2>1, QueueDomain, Zenon
  <2>3. Len(q) \in Nat \ {0} /\ w = q[1]
    BY <1>1, <1>2, EmptyQueue, QueueDomain
  <2>. QED
    BY <2>1, <2>2, <2>3, Zenon
<1>5. pc[r] = "releasing"
  BY <1>3, Zenon DEF SlotInv, HolderReleases
<1>6. /\ \A p \in Requests : pc'[p] = "parked" => pc[p] = "parked" /\ p # w
      /\ \A p \in Requests : p # w /\ pc[p] \in {"parked", "timedout", "gone"}
                               => pc'[p] = pc[p]
  BY <1>3, <1>4, <1>5, Zenon DEF TypeOK
<1>7. \A u \in Tenants : u # t => waiting'[u] = waiting[u]
  BY <1>1, <1>3, Zenon DEF TypeOK
<1>8. waiting'[t] = Tail(q)
  BY <1>1, <1>3, Zenon DEF TypeOK
<1>9. \A u \in Tenants : \A i \in DOMAIN waiting[u] :
         /\ waiting[u][i] \in Requests
         /\ TenantOf[waiting[u][i]] = u
         /\ pc[waiting[u][i]] \in {"parked", "timedout", "gone"}
  <2>1. \A u \in Tenants : waiting[u] \in Seq(Requests)
    BY Zenon DEF TypeOK
  <2>2. \A u \in Tenants : \A i \in DOMAIN waiting[u] : waiting[u][i] \in Requests
    BY <2>1, QueueDomain
  <2>. QED
    BY <2>2, Zenon DEF QueueInv, QueueEntries
<1>10. \A u \in Tenants : \A i, j \in DOMAIN waiting[u] :
          waiting[u][i] = waiting[u][j] => i = j
  BY Zenon DEF QueueInv, QueueEntries
<1>11. \A i \in DOMAIN Tail(q) :
          i + 1 \in DOMAIN q /\ Tail(q)[i] = q[i + 1] /\ Tail(q)[i] # w
  <2> TAKE i \in DOMAIN Tail(q)
  <2>1. i + 1 \in DOMAIN q /\ 1 \in DOMAIN q /\ i + 1 # 1 /\ Tail(q)[i] = q[i + 1]
    BY <1>4
  <2>2. q[i + 1] # q[1]
    BY <1>1, <1>10, <2>1, Zenon
  <2>. QED
    BY <1>4, <2>1, <2>2, Zenon
<1>12. QueueEntries'
  <2> SUFFICES ASSUME NEW u \in Tenants
               PROVE  /\ \A i \in DOMAIN waiting'[u] :
                            /\ TenantOf[waiting'[u][i]] = u
                            /\ pc'[waiting'[u][i]] \in {"parked", "timedout", "gone"}
                      /\ \A i, j \in DOMAIN waiting'[u] :
                            waiting'[u][i] = waiting'[u][j] => i = j
    BY Zenon DEF QueueEntries
  <2>1. CASE u # t
    <3>1. \A i \in DOMAIN waiting[u] : waiting[u][i] # w
      <4>1. TenantOf[w] = t
        BY <1>1, <1>4, <1>9
      <4>. QED
        BY <1>9, <2>1, <4>1
    <3>. QED
      BY <1>6, <1>7, <1>9, <1>10, <2>1, <3>1
  <2>2. CASE u = t
    <3>1. \A i \in DOMAIN Tail(q) : /\ TenantOf[Tail(q)[i]] = t
                                    /\ pc'[Tail(q)[i]] \in {"parked", "timedout", "gone"}
      BY <1>1, <1>6, <1>9, <1>11
    <3>2. \A i, j \in DOMAIN Tail(q) : Tail(q)[i] = Tail(q)[j] => i = j
      <4> SUFFICES ASSUME NEW i \in DOMAIN Tail(q), NEW j \in DOMAIN Tail(q),
                          Tail(q)[i] = Tail(q)[j]
                   PROVE  i = j
        BY Zenon
      <4>1. i + 1 = j + 1
        BY <1>1, <1>10, <1>11
      <4>. QED
        BY <1>4, <4>1
    <3>. QED
      BY <1>8, <2>2, <3>1, <3>2, ZenonT(60)
  <2>. QED
    BY <2>1, <2>2, Zenon
<1>13. NoOrphanedWaiter'
  <2> SUFFICES ASSUME NEW p \in Requests, pc'[p] = "parked"
               PROVE  \E i \in DOMAIN waiting'[TenantOf[p]] : waiting'[TenantOf[p]][i] = p
    BY Zenon DEF NoOrphanedWaiter
  <2>1. p # w /\ TenantOf[p] \in Tenants
    BY <1>6, Zenon
  <2>2. PICK i \in DOMAIN waiting[TenantOf[p]] : waiting[TenantOf[p]][i] = p
    BY <1>6, Zenon DEF QueueInv, NoOrphanedWaiter
  <2>3. CASE TenantOf[p] # t
    BY <1>7, <2>1, <2>2, <2>3, Zenon
  <2>4. CASE TenantOf[p] = t
    <3>1. i \in 1 .. Len(q) /\ i # 1
      BY <1>4, <2>1, <2>2, <2>4
    <3>2. i - 1 \in DOMAIN Tail(q) /\ Tail(q)[i - 1] = p
      BY <1>4, <2>2, <2>4, <3>1
    <3>. QED
      BY <1>8, <2>4, <3>2, Zenon
  <2>. QED
    BY <2>3, <2>4, Zenon
<1>14. RotationMatchesQueues'
  <2>1. \A i, j \in DOMAIN turn : turn[i] = turn[j] => i = j
    BY Zenon DEF QueueInv, RotationMatchesQueues
  <2>2. \A u \in Tenants : waiting[u] # <<>> <=> \E i \in DOMAIN turn : turn[i] = u
    BY Zenon DEF QueueInv, RotationMatchesQueues
  <2>3. \A i \in DOMAIN Tail(turn) :
           /\ i + 1 \in DOMAIN turn /\ Tail(turn)[i] = turn[i + 1]
           /\ Tail(turn)[i] # t
    <3> TAKE i \in DOMAIN Tail(turn)
    <3>1. i + 1 \in DOMAIN turn /\ 1 \in DOMAIN turn /\ i + 1 # 1
          /\ Tail(turn)[i] = turn[i + 1]
      BY <1>1
    <3>. QED
      BY <1>1, <2>1, <3>1, Zenon
  <2>4. \A u \in Tenants : u # t =>
           (waiting[u] # <<>> <=> \E i \in DOMAIN Tail(turn) : Tail(turn)[i] = u)
    <3> SUFFICES ASSUME NEW u \in Tenants, u # t
                 PROVE  (\E i \in DOMAIN turn : turn[i] = u)
                           <=> \E i \in DOMAIN Tail(turn) : Tail(turn)[i] = u
      BY <2>2, Zenon
    <3>1. ASSUME NEW i \in DOMAIN turn, turn[i] = u
          PROVE  i - 1 \in DOMAIN Tail(turn) /\ Tail(turn)[i - 1] = u
      BY <1>1, <3>1
    <3>. QED
      BY <2>3, <3>1, Zenon
  <2>5. \A i, j \in DOMAIN Tail(turn) : Tail(turn)[i] = Tail(turn)[j] => i = j
    <3> SUFFICES ASSUME NEW i \in DOMAIN Tail(turn), NEW j \in DOMAIN Tail(turn),
                        Tail(turn)[i] = Tail(turn)[j]
                 PROVE  i = j
      BY Zenon
    <3>1. i + 1 = j + 1
      BY <2>1, <2>3, Zenon
    <3>. QED
      BY <1>1, <3>1
  <2>6. CASE Tail(q) = <<>>
    <3>1. turn' = Tail(turn) /\ waiting'[t] = <<>>
      BY <1>3, <1>8, <2>6, Zenon
    <3>. QED
      BY <1>7, <2>3, <2>4, <2>5, <3>1, Zenon DEF RotationMatchesQueues
  <2>7. CASE Tail(q) # <<>>
    <3> DEFINE m == Len(turn) - 1
    <3>1. turn' = Append(Tail(turn), t) /\ waiting'[t] # <<>>
      BY <1>3, <1>8, <2>7
    <3>2. /\ DOMAIN turn' = 1 .. m + 1 /\ m \in Nat
          /\ \A i \in 1 .. m : turn'[i] = Tail(turn)[i]
          /\ turn'[m + 1] = t
      <4>1. Append(Tail(turn), t) \in Seq(Tenants)
        BY <1>1, QueuePushed, Zenon
      <4>. QED
        BY <1>1, <3>1, <4>1, QueuePushed, QueueDomain
    <3>3. \A i \in 1 .. m + 1 : i \in 1 .. m \/ i = m + 1
      BY <3>2
    <3>4. DOMAIN Tail(turn) = 1 .. m
      BY <1>1, Zenon
    <3>5. \A i, j \in DOMAIN turn' : turn'[i] = turn'[j] => i = j
      BY <2>3, <2>5, <3>2, <3>3, <3>4, Zenon
    <3>6. \A u \in Tenants : (\E i \in DOMAIN turn' : turn'[i] = u)
                               <=> (u = t \/ \E i \in DOMAIN Tail(turn) : Tail(turn)[i] = u)
      BY <3>2, <3>3, <3>4
    <3>. QED
      BY <1>7, <2>4, <3>1, <3>5, <3>6 DEF RotationMatchesQueues
  <2>. QED
    BY <2>6, <2>7, Zenon
<1>. QED
  BY <1>12, <1>13, <1>14, Zenon DEF QueueInv


\* Every step of a request keeps queues and rotation in step.
LEMMA StepKeepsQueues ==
    ASSUME IInv, TypeOK', NEW r \in Requests, Step(r)
    PROVE  QueueInv'
<1>1. CASE TryAdmit(r)
  <2>1. CASE TakeSlot(r)
    BY <1>1, <2>1, ChannelStepKeepsQueues, Zenon DEF TryAdmit, TakeSlot, Stage
  <2>2. CASE ~TakeSlot(r)
    BY <1>1, <2>2, ChannelStepKeepsQueues, Zenon DEF TryAdmit, Stage
  <2>. QED
    BY <2>1, <2>2, Zenon
<1>2. CASE Enqueue(r)
  <2>1. CASE TakeSlot(r)
    BY <1>2, <2>1, ChannelStepKeepsQueues, Zenon DEF Enqueue, TakeSlot, Stage
  <2>2. CASE RejectFull(r)
    BY <1>2, <2>2, ChannelStepKeepsQueues, Zenon DEF Enqueue, RejectFull, Stage
  <2>3. CASE Park(r)
    BY <1>2, <2>3, ParkKeepsQueues, Zenon DEF Enqueue
  <2>. QED
    BY <1>2, <2>1, <2>2, <2>3, Zenon DEF Enqueue
<1>3. CASE Receive(r)
  BY <1>3, ChannelStepKeepsQueues, Zenon DEF Receive, Stage
<1>4. CASE WaitTimeout(r)
  BY <1>4, ChannelStepKeepsQueues, Zenon DEF WaitTimeout, Stage
<1>5. CASE HangUp(r)
  <2>1. CASE pc[r] = "parked"
    BY <1>5, <2>1, ChannelStepKeepsQueues DEF HangUp, Stage
  <2>2. CASE pc[r] = "handed"
    BY <1>5, <2>2, ChannelStepKeepsQueues, Zenon DEF HangUp, Stage
  <2>. QED
    BY <1>5, <2>1, <2>2, Zenon DEF HangUp
<1>6. CASE BeginRelease(r)
  BY <1>6, ChannelStepKeepsQueues, Zenon DEF BeginRelease, Stage
<1>7. CASE ServeTurn(r)
  BY <1>7, ServeTurnKeepsQueues
<1>8. CASE FreeSlot(r)
  <2>1. pc[r] = "releasing"
    BY <1>8, Zenon DEF FreeSlot, IInv, SlotInv, HolderReleases
  <2>. QED
    BY <1>8, <2>1, ChannelStepKeepsQueues, Zenon DEF FreeSlot, Stage
<1>. QED
  BY <1>1, <1>2, <1>3, <1>4, <1>5, <1>6, <1>7, <1>8, Zenon DEF Step

LEMMA InitEstablishesIInv ==
    Init => IInv
<1> SUFFICES ASSUME Init
             PROVE  IInv
  BY Zenon
<1> USE AdmissionConstants DEF Init
<1>1. TypeOK
  BY EmptyQueue, Zenon DEF TypeOK, Stage
<1>2. SlotInv
  <2>1. Owners = {}
    BY Zenon DEF Owners
  <2>. QED
    BY <2>1, FS_EmptySet DEF SlotInv, HolderReleases, SlotsAccounted, FullWhileWaiting
<1>3. QueueInv
  BY DEF QueueInv, QueueEntries, RotationMatchesQueues, NoOrphanedWaiter
<1>. QED
  BY <1>1, <1>2, <1>3 DEF IInv

LEMMA NextKeepsIInv ==
    IInv /\ [Next]_vars => IInv'
<1> SUFFICES ASSUME IInv, [Next]_vars
             PROVE  IInv'
  BY Zenon
<1>1. ASSUME NEW r \in Requests, Step(r)
      PROVE  IInv'
  <2>1. TypeOK'
    BY <1>1, StepKeepsType, Zenon DEF IInv
  <2>. QED
    BY <1>1, <2>1, StepKeepsSlots, StepKeepsQueues, Zenon DEF IInv
<1>2. CASE UNCHANGED vars
  BY <1>2 DEF vars, IInv, TypeOK, SlotInv, HolderReleases, SlotsAccounted, Owners,
              FullWhileWaiting, QueueInv, QueueEntries, RotationMatchesQueues, NoOrphanedWaiter
<1>. QED
  BY <1>1, <1>2, Zenon DEF Next, Terminated

\* The strengthened invariant holds in every reachable state.
THEOREM AdmissionInvariant == Spec => []IInv
  BY InitEstablishesIInv, NextKeepsIInv, PTL DEF Spec

\* Type correctness of the pool for every number of requests and tenants.
THEOREM AdmissionTypes == Spec => []TypeOK
<1>1. IInv => TypeOK
  BY Zenon DEF IInv
<1>. QED
  BY <1>1, AdmissionInvariant, PTL

\* release(), timeouts and hang-ups never miscount: inflight is the number of
\* requests a slot is counted for and at most max_queue.
THEOREM SlotCountExact == Spec => []SlotsAccounted
<1>1. IInv => SlotsAccounted
  BY Zenon DEF IInv, SlotInv
<1>. QED
  BY <1>1, AdmissionInvariant, PTL

\* Work conservation: a queued request never waits beside a free slot.
THEOREM NoIdleSlot == Spec => []FullWhileWaiting
<1>1. IInv => FullWhileWaiting
  BY Zenon DEF IInv, SlotInv
<1>. QED
  BY <1>1, AdmissionInvariant, PTL

\* The rotation is exactly the set of tenants with a queue, each once.
THEOREM RotationExact == Spec => []RotationMatchesQueues
<1>1. IInv => RotationMatchesQueues
  BY Zenon DEF IInv, QueueInv
<1>. QED
  BY <1>1, AdmissionInvariant, PTL

\* No live waiter is ever dropped from its tenant's queue unserved.
THEOREM WaitersReachable == Spec => []NoOrphanedWaiter
<1>1. IInv => NoOrphanedWaiter
  BY Zenon DEF IInv, QueueInv
<1>. QED
  BY <1>1, AdmissionInvariant, PTL

-----------------------------------------------------------------------------
\* The phases of a request, stage by stage.
LEMMA Phases ==
    /\ \A s \in {"new", "retry", "parked"} : PhaseOf(s) = "waiting"
    /\ \A s \in {"handed", "admitted", "releasing", "lost"} : PhaseOf(s) = "owner"
    /\ \A s \in {"full", "timedout", "gone"} : PhaseOf(s) = "refused"
    /\ PhaseOf("done") = "finished"
  BY DEF PhaseOf

\* Each step of a request is a step of the abstract pool or invisible to it.
LEMMA StepImplements ==
    ASSUME IInv, NEW r \in Requests, Step(r)
    PROVE  [Pool!PoolNext]_phaseBar
<1> USE DEF IInv, phaseBar
<1>a. pc \in [Requests -> Stage]
  BY Zenon DEF TypeOK
<1>b. Pool!Owned = Owners
  BY <1>a, Phases DEF Pool!Owned, Owners, Stage
<1>c. ASSUME TakeSlot(r), pc[r] \in {"new", "retry"}
      PROVE  Pool!Grant(r)
  <2>1. Cardinality(Pool!Owned) < MaxQueue
    BY <1>b, <1>c, Zenon DEF TakeSlot, SlotIsFree, SlotInv, SlotsAccounted
  <2>2. phaseBar' = [phaseBar EXCEPT ![r] = "owner"]
    BY <1>a, <1>c, Phases, Zenon DEF TakeSlot
  <2>3. phaseBar[r] = "waiting"
    BY <1>c, Phases, Zenon
  <2>. QED
    BY <2>1, <2>2, <2>3, Zenon DEF Pool!Grant, Pool!Cardinality, Cardinality
<1>d. ASSUME NEW s, pc' = [pc EXCEPT ![r] = s], PhaseOf(s) = PhaseOf(pc[r])
      PROVE  phaseBar' = phaseBar
  BY <1>a, <1>d, Zenon
<1>e. ASSUME NEW s \in {"full", "timedout", "gone"}, pc' = [pc EXCEPT ![r] = s],
             pc[r] \in {"retry", "parked"}
      PROVE  Pool!Refuse(r)
  <2>1. phaseBar' = [phaseBar EXCEPT ![r] = "refused"]
    BY <1>a, <1>e, Phases, Zenon
  <2>2. phaseBar[r] = "waiting"
    BY <1>e, Phases, Zenon
  <2>. QED
    BY <2>1, <2>2 DEF Pool!Refuse
<1>f. holder = r => pc[r] = "releasing" /\ phaseBar[r] = "owner"
  BY Phases DEF SlotInv, HolderReleases
<1>1. CASE TryAdmit(r)
  <2>1. CASE TakeSlot(r)
    BY <1>1, <1>c, <2>1, Zenon DEF TryAdmit, Pool!PoolNext
  <2>2. CASE ~TakeSlot(r)
    BY <1>1, <1>d, <2>2, Phases DEF TryAdmit
  <2>. QED
    BY <2>1, <2>2, Zenon
<1>2. CASE Enqueue(r)
  <2>1. CASE TakeSlot(r)
    BY <1>2, <1>c, <2>1, Zenon DEF Enqueue, Pool!PoolNext
  <2>2. CASE RejectFull(r)
    BY <1>2, <1>e, <2>2, Zenon DEF Enqueue, RejectFull, Pool!PoolNext
  <2>3. CASE Park(r)
    BY <1>2, <1>d, <2>3, Phases DEF Enqueue, Park
  <2>. QED
    BY <1>2, <2>1, <2>2, <2>3 DEF Enqueue
<1>3. CASE Receive(r)
  BY <1>3, <1>d, Phases, Zenon DEF Receive
<1>4. CASE WaitTimeout(r)
  BY <1>4, <1>e DEF WaitTimeout, Pool!PoolNext
<1>5. CASE HangUp(r)
  <2>1. CASE pc[r] = "parked"
    BY <1>5, <1>e, <2>1, Zenon DEF HangUp, Pool!PoolNext
  <2>2. CASE pc[r] = "handed"
    BY <1>5, <1>d, <2>2, Phases DEF HangUp
  <2>. QED
    BY <1>5, <2>1, <2>2 DEF HangUp
<1>6. CASE BeginRelease(r)
  BY <1>6, <1>d, Phases DEF BeginRelease
<1>7. CASE ServeTurn(r)
  <2> DEFINE q == waiting[Head(turn)]
             w == Head(q)
  <2>1. CASE q # <<>> /\ pc[w] = "parked"
    <3>1. w \in Requests
      BY <1>7, <2>1, QueuePopped, Zenon DEF ServeTurn, TypeOK
    <3>2. pc' = [pc EXCEPT ![w] = "handed", ![r] = "done"]
      BY <1>7, <2>1, Zenon DEF ServeTurn
    <3>3. w # r /\ phaseBar[w] = "waiting" /\ phaseBar[r] = "owner"
      BY <1>7, <1>f, <2>1, <3>1, Phases DEF ServeTurn
    <3>4. phaseBar' = [phaseBar EXCEPT ![r] = "finished", ![w] = "owner"]
      BY <1>a, <3>1, <3>2, <3>3, Phases
    <3>5. Pool!PassOn(r, w)
      BY <3>3, <3>4, Zenon DEF Pool!PassOn
    <3>. QED
      BY <3>1, <3>5 DEF Pool!PoolNext
  <2>2. CASE ~(q # <<>> /\ pc[w] = "parked")
    <3>1. CASE q = <<>>
      BY <1>7, <3>1 DEF ServeTurn
    <3>2. CASE q # <<>>
      BY <1>7, <2>2, <3>2, Zenon DEF ServeTurn
    <3>. QED
      BY <3>1, <3>2
  <2>. QED
    BY <2>1, <2>2, Zenon
<1>8. CASE FreeSlot(r)
  <2>1. phaseBar' = [phaseBar EXCEPT ![r] = "finished"]
    BY <1>8, <1>a, Phases, Zenon DEF FreeSlot
  <2>2. Pool!Return(r)
    BY <1>8, <1>f, <2>1, Zenon DEF FreeSlot, Pool!Return
  <2>. QED
    BY <2>2 DEF Pool!PoolNext
<1>. QED
  BY <1>1, <1>2, <1>3, <1>4, <1>5, <1>6, <1>7, <1>8 DEF Step

\* The router's pool implements the abstract slot pool.
THEOREM AdmissionImplementsSlotPool == Spec => ImplementsSlotPool
<1>1. Init => Pool!PoolInit
  BY Phases, Zenon DEF Init, Pool!PoolInit, phaseBar
<1>2. IInv /\ [Next]_vars => [Pool!PoolNext]_phaseBar
  <2> SUFFICES ASSUME IInv, [Next]_vars
               PROVE  [Pool!PoolNext]_phaseBar
    BY Zenon
  <2>1. CASE UNCHANGED vars
    BY <2>1, Zenon DEF vars, phaseBar
  <2>. QED
    BY <2>1, StepImplements, Zenon DEF Next, Terminated
<1>. QED
  BY <1>1, <1>2, AdmissionInvariant, PTL DEF Spec, ImplementsSlotPool, Pool!PoolSpec

-----------------------------------------------------------------------------
(* The fairness of the rotation in release().  Whoever has been served     *)
(* since a waiting tenant t last had its turn stands behind t in the       *)
(* rotation, or is not in it: it cannot be served again before t is.       *)
Behind(t, u) ==
    \E i \in DOMAIN turn : turn[i] = t /\ \A j \in DOMAIN turn : turn[j] = u => j > i

PassInv ==
    /\ passed \in [Tenants -> [Tenants -> {0, 1}]]
    /\ \A t, u \in Tenants : passed[t][u] = 1 => Behind(t, u)

\* What FairNext does to one count.
LEMMA PassedStep ==
    ASSUME PassInv, FairNext, NEW t \in Tenants, NEW u \in Tenants
    PROVE  /\ HadTurn(t) => passed'[t][u] = 0
           /\ ~HadTurn(t) /\ u \notin Served => passed'[t][u] = passed[t][u]
           /\ ~HadTurn(t) /\ u \in Served => passed'[t][u] = passed[t][u] + 1
<1>1. passed[t][u] \in {0, 1}
  BY Zenon DEF PassInv
<1>2. passed'[t][u] = IF HadTurn(t) THEN 0 ELSE passed[t][u] + (IF u \in Served THEN 1 ELSE 0)
  BY Zenon DEF FairNext
<1>. QED
  BY <1>1, <1>2

\* It is enough to look at a tenant that has not had its turn.
LEMMA PassShape ==
    ASSUME PassInv, FairNext,
           \A t, u \in Tenants : ~HadTurn(t) /\ u \in Served => passed[t][u] = 0,
           \A t, u \in Tenants : ~HadTurn(t) /\ (Behind(t, u) \/ u \in Served) => Behind(t, u)'
    PROVE  PassInv'
<1>1. \A t, u \in Tenants : passed'[t][u] \in {0, 1} /\ (passed'[t][u] = 1 => Behind(t, u)')
  <2>. SUFFICES ASSUME NEW t \in Tenants, NEW u \in Tenants
                PROVE  passed'[t][u] \in {0, 1} /\ (passed'[t][u] = 1 => Behind(t, u)')
    BY Zenon
  <2>1. passed[t][u] \in {0, 1} /\ (passed[t][u] = 1 => Behind(t, u))
    BY DEF PassInv
  <2>. QED
    BY <2>1, PassedStep
<1>2. passed' = [t \in Tenants |-> [u \in Tenants |-> passed'[t][u]]]
  BY Zenon DEF FairNext
<1>3. passed' \in [Tenants -> [Tenants -> {0, 1}]]
  BY <1>1, <1>2, Zenon
<1>. QED
  BY <1>1, <1>3, Zenon DEF PassInv

\* A step that hands no slot over and at most lets a tenant join the rotation.
LEMMA QuietPass ==
    ASSUME PassInv, FairNext, Served = {}, turn \in Seq(Tenants),
           turn' = turn \/ \E t \in Tenants : turn' = Append(turn, t)
    PROVE  PassInv'
<1>1. /\ Len(turn) \in Nat /\ DOMAIN turn = 1 .. Len(turn)
      /\ \A i \in DOMAIN turn : i \in DOMAIN turn' /\ turn'[i] = turn[i]
      /\ \A j \in DOMAIN turn' : j \in DOMAIN turn \/ j = Len(turn) + 1
  OBVIOUS
<1>2. \A t, u \in Tenants : Behind(t, u) => Behind(t, u)'
  BY <1>1 DEF Behind
<1>. QED
  BY <1>2, PassShape, Zenon

\* The walk of release(): the tenant at the front has its turn and goes to the
\* back, behind everyone who waits.
LEMMA ServePass ==
    ASSUME IInv, PassInv, FairNext, NEW r \in Requests, ServeTurn(r)
    PROVE  PassInv'
<1>. DEFINE h == Head(turn)
            n == Len(turn)
<1>1. /\ turn \in Seq(Tenants) /\ turn # <<>> /\ n \in Nat \ {0} /\ h = turn[1] /\ h \in Tenants
      /\ DOMAIN turn = 1 .. n
  BY DEF IInv, TypeOK, ServeTurn
<1>2. /\ \A i, j \in DOMAIN turn : turn[i] = turn[j] => i = j
      /\ \A t \in Tenants : waiting[t] # <<>> => \E i \in DOMAIN turn : turn[i] = t
      /\ waiting[h] # <<>>
  BY <1>1 DEF IInv, QueueInv, RotationMatchesQueues
<1>3. /\ waiting' = [waiting EXCEPT ![h] = Tail(waiting[h])]
      /\ turn' = Tail(turn) \/ turn' = Append(Tail(turn), h)
  BY <1>2, Zenon DEF ServeTurn
<1>4. HadTurn(h) /\ waiting \in [Tenants -> Seq(Requests)]
  BY <1>1, <1>2, <1>3 DEF HadTurn, IInv, TypeOK
<1>5. Served \subseteq {h}
  <2>. DEFINE w == Head(waiting[h])
  <2>1. w \in Requests /\ TenantOf[w] = h
    <3>1. waiting[h] \in Seq(Requests) /\ 1 \in DOMAIN waiting[h] /\ w = waiting[h][1]
      BY <1>1, <1>2, <1>4
    <3>. QED
      BY <1>1, <3>1 DEF IInv, QueueInv, QueueEntries
  <2>2. \/ pc' = pc
        \/ pc' = [pc EXCEPT ![w] = "handed", ![r] = "done"]
    BY <1>2, Zenon DEF ServeTurn
  <2>3. \A q \in Requests : pc[q] = "parked" /\ pc'[q] = "handed" => q = w
    BY <2>1, <2>2, Zenon DEF IInv, TypeOK
  <2>. QED
    BY <2>1, <2>3, Zenon DEF Served
<1>6. ASSUME NEW t \in Tenants, ~HadTurn(t)
      PROVE  t # h /\ \E i \in 2 .. n : turn[i] = t
  <2>1. t # h /\ waiting[t] # <<>>
    BY <1>4, <1>6, Zenon DEF HadTurn
  <2>2. PICK i \in DOMAIN turn : turn[i] = t
    BY <1>2, <2>1, Zenon
  <2>. QED
    BY <1>1, <2>1, <2>2
<1>7. /\ \A i \in 2 .. n : i - 1 \in DOMAIN turn' /\ turn'[i - 1] = turn[i]
      /\ \A j \in DOMAIN turn' : /\ j \in Nat
                                 /\ \/ j + 1 \in 2 .. n /\ turn'[j] = turn[j + 1]
                                    \/ j = n /\ turn'[j] = h
  <2>1. /\ Tail(turn) \in Seq(Tenants) /\ Len(Tail(turn)) = n - 1
        /\ \A j \in 1 .. n - 1 : Tail(turn)[j] = turn[j + 1]
    BY <1>1
  <2>2. CASE turn' = Tail(turn)
    BY <1>1, <2>1, <2>2
  <2>3. CASE turn' = Append(Tail(turn), h)
    BY <1>1, <2>1, <2>3
  <2>. QED
    BY <1>3, <2>2, <2>3, Zenon
<1>. HIDE DEF h, n
<1>8. ASSUME NEW t \in Tenants, NEW u \in Tenants, ~HadTurn(t), u \in Served
      PROVE  passed[t][u] = 0 /\ Behind(t, u)'
  <2>1. u = h /\ t # h
    BY <1>5, <1>6, <1>8, Zenon
  <2>2. PICK i \in 2 .. n : turn[i] = t
    BY <1>6, <1>8, Zenon
  <2>3. ~Behind(t, u)
    BY <1>1, <2>1 DEF Behind
  <2>4. passed[t][u] = 0
    BY <2>3, Zenon DEF PassInv
  <2>5. ASSUME NEW j \in DOMAIN turn', turn'[j] = u
        PROVE  j = n
    <3>1. SUFFICES ASSUME j + 1 \in 2 .. n, turn[j + 1] = h PROVE FALSE
      BY <1>7, <2>1, <2>5
    <3>2. j + 1 \in DOMAIN turn /\ 1 \in DOMAIN turn /\ turn[1] = h
      BY <1>1, <3>1
    <3>. QED
      BY <1>2, <1>7, <2>5, <3>1, <3>2
  <2>6. i - 1 \in DOMAIN turn' /\ turn'[i - 1] = t /\ n > i - 1
    BY <1>1, <1>7, <2>2
  <2>7. Behind(t, u)'
    BY <2>5, <2>6, Zenon DEF Behind
  <2>. QED
    BY <2>4, <2>7, Zenon
<1>9. ASSUME NEW t \in Tenants, NEW u \in Tenants, ~HadTurn(t), Behind(t, u)
      PROVE  Behind(t, u)'
  <2>1. PICK i \in DOMAIN turn : turn[i] = t /\ \A j \in DOMAIN turn : turn[j] = u => j > i
    BY <1>9, Zenon DEF Behind
  <2>2. i \in 2 .. n
    BY <1>1, <1>6, <1>9, <2>1
  <2>3. i - 1 \in DOMAIN turn' /\ turn'[i - 1] = t
    BY <1>7, <2>1, <2>2, Zenon
  <2>4. ASSUME NEW j \in DOMAIN turn', turn'[j] = u
        PROVE  j > i - 1
    <3>1. CASE j = n
      BY <1>1, <2>2, <3>1
    <3>2. CASE j + 1 \in 2 .. n /\ turn[j + 1] = u
      <4>1. j \in Nat /\ j + 1 \in DOMAIN turn
        BY <1>1, <1>7, <2>4, <3>2
      <4>2. j + 1 > i
        BY <2>1, <3>2, <4>1
      <4>. QED
        BY <2>2, <4>1, <4>2
    <3>. QED
      BY <1>7, <2>4, <3>1, <3>2, Zenon
  <2>. QED
    BY <2>3, <2>4, Zenon DEF Behind
<1>. QED
  BY <1>8, <1>9, PassShape, Zenon

LEMMA StepPass == ASSUME IInv, PassInv, FairNext, NEW r \in Requests, Step(r) PROVE PassInv'
<1>. USE AdmissionConstants
<1>1. CASE ServeTurn(r)
  BY <1>1, ServePass, Zenon
<1>2. CASE ~ServeTurn(r)
  <2>1. turn \in Seq(Tenants) /\ pc \in [Requests -> Stage]
    BY Zenon DEF IInv, TypeOK
  <2>2. Served = {}
    <3>1. \A q \in Requests : pc[q] = "parked" => pc'[q] # "handed"
      BY <1>2, <2>1, ZenonT(60) DEF Step, TryAdmit, TakeSlot, Enqueue, RejectFull, Park, Receive, WaitTimeout,
                        HangUp, BeginRelease, FreeSlot
    <3>. QED
      BY <3>1, Zenon DEF Served
  <2>3. turn' = turn \/ turn' = Append(turn, TenantOf[r])
    BY <1>2 DEF Step, TryAdmit, TakeSlot, Enqueue, RejectFull, Park, Receive, WaitTimeout,
                HangUp, BeginRelease, FreeSlot
  <2>. QED
    BY <2>1, <2>2, <2>3, QuietPass, Zenon
<1>. QED
  BY <1>1, <1>2, Zenon

\* However many requests other tenants queue and whoever gives up while waiting,
\* no tenant is handed two slots between two turns of a tenant that waits: the
\* rotation of turn in release() is a fair one.
THEOREM OvertakenOnce == FairSpec => []OvertakenOncePerTurn
<1>1. FairInit => IInv /\ PassInv
  <2>. SUFFICES ASSUME FairInit PROVE IInv /\ PassInv
    BY Zenon
  <2>1. IInv
    BY InitEstablishesIInv, Zenon DEF FairInit
  <2>2. PassInv
    BY DEF FairInit, PassInv
  <2>. QED
    BY <2>1, <2>2, Zenon
<1>2. IInv /\ PassInv /\ [FairNext]_fairVars => (IInv /\ PassInv)'
  <2>. SUFFICES ASSUME IInv, PassInv, [FairNext]_fairVars PROVE IInv' /\ PassInv'
    BY Zenon
  <2>1. [Next]_vars
    BY Zenon DEF FairNext, fairVars, vars
  <2>2. IInv'
    BY <2>1, NextKeepsIInv, ZenonT(60)
  <2>3. CASE FairNext
    <3>1. CASE \E r \in Requests : Step(r)
      BY <2>2, <2>3, <3>1, StepPass
    <3>2. CASE Terminated
      <4>1. Served = {} /\ turn' = turn /\ turn \in Seq(Tenants)
        BY <3>2, Zenon DEF Terminated, vars, Served, IInv, TypeOK
      <4>. QED
        BY <2>2, <2>3, <4>1, QuietPass, Zenon
    <3>. QED
      BY <2>3, <3>1, <3>2 DEF FairNext, Next
  <2>4. CASE UNCHANGED fairVars
    BY <2>2, <2>4 DEF fairVars, PassInv, Behind
  <2>. QED
    BY <2>2, <2>3, <2>4, Zenon
<1>3. PassInv => OvertakenOncePerTurn
  BY DEF PassInv, OvertakenOncePerTurn
<1>. QED
  BY <1>1, <1>2, <1>3, PTL DEF FairSpec

=============================================================================
