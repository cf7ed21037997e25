------------------------------ MODULE Cordons -------------------------------
(***************************************************************************)
(* Energy-aware scaling through etcd.  Each router writes a drain hint per *)
(* node it knows; the operator polls the hints and turns them into cordon  *)
(* keys; an administrator sets and removes cordons of their own with       *)
(* cgn-ctl.  Every etcd call is a step: what a tick read may have changed  *)
(* by the time it acts on it.                                              *)
(***************************************************************************)
EXTENDS Naturals, FiniteSets, FiniteSetsExt

CONSTANTS Router, Node

VARIABLES
    registry,       \* Router -> nodes it knows
    busy, hot,      \* nodes with a queue; nodes above high_watt_threshold
    hint,           \* etcd: node -> "none", "drain", "active"
    cordon,         \* etcd: node -> "none", "manual", "autoscaler"
    writing,        \* Router -> hints of its running tick still to put
    polled,         \* the operator's tick: hints still to apply
    checking,       \* the hint being applied: {} or one [node, drain, existing]
    changes         \* bound on what happens from outside, and on failures

cordonVars == <<registry, busy, hot, hint, cordon, writing, polled, checking, changes>>

Change == changes > 0 /\ changes' = changes - 1

\* avg_load below idle_util_pct: no node the router knows has a queue.
ClusterIdle(r) == registry[r] \cap busy = {}

\* The router's tick works from one snapshot of its registry.
RouterTick(r) ==
    /\ writing[r] = {} /\ registry[r] # {}
    /\ writing' = [writing EXCEPT ![r] =
         {[node |-> n, drain |-> ClusterIdle(r) /\ n \in hot] : n \in registry[r]}]
    /\ UNCHANGED <<registry, busy, hot, hint, cordon, polled, checking, changes>>

PutHint(r, h) ==
    /\ h \in writing[r]
    /\ hint' = [hint EXCEPT ![h.node] = IF h.drain THEN "drain" ELSE "active"]
    /\ writing' = [writing EXCEPT ![r] = @ \ {h}]
    /\ UNCHANGED <<registry, busy, hot, cordon, polled, checking, changes>>

\* A failed put is skipped; a failed connect, of all of them.
PutHintFails(r, h) ==
    /\ h \in writing[r] /\ Change
    /\ \E lost \in {{h}, writing[r]} : writing' = [writing EXCEPT ![r] = @ \ lost]
    /\ UNCHANGED <<registry, busy, hot, hint, cordon, polled, checking>>

Poll ==
    /\ polled = {} /\ checking = {}
    /\ polled' = {[node |-> n, drain |-> hint[n] = "drain"] : n \in {m \in Node : hint[m] # "none"}}
    /\ UNCHANGED <<registry, busy, hot, hint, cordon, writing, checking, changes>>

\* apply_hint, first call: what is at the cordon key?
GetCordon(h) ==
    /\ h \in polled /\ checking = {}
    /\ checking' = {[node |-> h.node, drain |-> h.drain, existing |-> cordon[h.node]]}
    /\ polled' = polled \ {h}
    /\ UNCHANGED <<registry, busy, hot, hint, cordon, writing, changes>>

\* Mutant: a cordon of the loop's own is not recognised.
IsAutoscalerCordonNever(value) == FALSE

IsAutoscalerCordon(value) == value = "autoscaler"

\* apply_hint, second call: set a cordon where none was, clear one of ours.
ApplyHint(c) ==
    /\ c \in checking
    /\ cordon' = [cordon EXCEPT ![c.node] =
                    IF c.drain THEN IF c.existing = "none" THEN "autoscaler" ELSE @
                    ELSE IF IsAutoscalerCordon(c.existing) THEN "none" ELSE @]
    /\ checking' = {}
    /\ UNCHANGED <<registry, busy, hot, hint, writing, polled, changes>>

\* An etcd error ends the tick: the hints after it wait for the next.
TickFails ==
    /\ polled \cup checking # {} /\ Change
    /\ polled' = {} /\ checking' = {}
    /\ UNCHANGED <<registry, busy, hot, hint, cordon, writing>>

\* cgn-ctl cluster cordon | uncordon.
SetCordon(n, on) ==
    /\ Change
    /\ cordon' = [cordon EXCEPT ![n] = IF on THEN "manual" ELSE "none"]
    /\ UNCHANGED <<registry, busy, hot, hint, writing, polled, checking>>

\* Load, power and membership change.
World ==
    /\ Change
    /\ \/ \E n \in Node : busy' \in {busy \cup {n}, busy \ {n}} /\ UNCHANGED <<hot, registry>>
       \/ \E n \in Node : hot' \in {hot \cup {n}, hot \ {n}} /\ UNCHANGED <<busy, registry>>
       \/ \E r \in Router, n \in Node :
            /\ registry' \in {[registry EXCEPT ![r] = @ \cup {n}], [registry EXCEPT ![r] = @ \ {n}]}
            /\ UNCHANGED <<busy, hot>>
    /\ UNCHANGED <<hint, cordon, writing, polled, checking>>

CordonInit ==
    /\ registry = [r \in Router |-> Node]
    /\ busy = {} /\ hot = Node
    /\ hint = [n \in Node |-> "none"] /\ cordon = [n \in Node |-> "none"]
    /\ writing = [r \in Router |-> {}] /\ polled = {} /\ checking = {}

CordonNext ==
    \/ \E r \in Router : RouterTick(r) \/ \E h \in writing[r] : PutHint(r, h) \/ PutHintFails(r, h)
    \/ Poll \/ (\E h \in polled : GetCordon(h)) \/ (\E c \in checking : ApplyHint(c)) \/ TickFails
    \/ \E n \in Node, on \in BOOLEAN : SetCordon(n, on)
    \/ World

(***************************************************************************)
(* A cordon the loop set is lifted in the end from a node that no router   *)
(* wants drained any more: hints are rewritten, polled again after a       *)
(* failed tick, and a cordon tagged as the loop's own is cleared.          *)
(***************************************************************************)
CordonLifts ==
    \A n \in Node :
      <>[](\A r \in Router : n \in registry[r] /\ ~(ClusterIdle(r) /\ n \in hot))
        => <>[](cordon[n] # "autoscaler")

=============================================================================
