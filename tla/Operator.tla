------------------------------ MODULE Operator ------------------------------
(***************************************************************************)
(* The Kubernetes operator: three controllers that apply what the custom   *)
(* resources render to, the planner that rewrites a pool's replica count   *)
(* from the nodes' queues, and the cordon loop of Cordons.  The controller *)
(* runtime (external) runs one reconcile of a resource at a time, again    *)
(* when the resource changes or its requeue time comes; a reconcile works  *)
(* on the resource as it was when it started.                              *)
(***************************************************************************)
EXTENDS Cordons, Sequences, Functions, Integers

CONSTANTS
    Replicas,       \* replica counts a user may ask for
    MaxQueue,       \* queue depths the heartbeats add up to: 0..MaxQueue
    Slos,           \* slo blocks: [perReplica, min, max], max = {} or {n}
    MaxChanges,     \* bound on edits, failures, restarts and outside changes
    Present         \* sets of resources considered: of Kind, and "cordons"

ASSUME OperatorConstants ==
    /\ Replicas \subseteq Nat /\ MaxQueue \in Nat
    /\ \A s \in Slos : s.perReplica \in Nat /\ s.min \in Nat /\ s.max \subseteq Nat

VARIABLES
    present,        \* the resources that exist
    slo,            \* the pool's slo block
    spec,           \* Kind -> [version, metrics]; a pool's version is decode_replicas
    due,            \* resources to reconcile
    job,            \* Kind -> the running reconcile
    live,           \* what is applied: object -> version, 0 when never
    status,         \* Kind -> phase last written
    queued,         \* what the heartbeats of the pool's ready nodes add up to
    planner,        \* the planner's tick: [pc, current, total]
    cooling,        \* last_scale is within the cooldown
    plan, scales    \* the last scale decided; scales since the cooldown ran out

operatorVars ==
    <<present, slo, spec, due, job, live, status, queued, planner, cooling, plan, scales>>
everything == <<cordonVars, operatorVars>>

Kind == {"cluster", "pool", "policy"}

\* The objects a resource renders to, in the order they are applied.
RouterObjects == <<"router", "router-service">>
AgentObjects == <<"agent">>
KvcachedObjects == <<"kvcached">>
MetricsObjects(s) == IF s.metrics THEN <<"metrics">> ELSE <<>>

PoolObjects == <<"models-configmap">>
PolicyObjects == <<"etcd-policy">>

Objects(k, s) ==
    CASE k = "cluster" -> RouterObjects \o AgentObjects \o KvcachedObjects \o MetricsObjects(s)
      [] k = "pool"    -> PoolObjects
      [] k = "policy"  -> PolicyObjects

Object == UNION {Range(Objects(k, [version |-> 0, metrics |-> TRUE])) : k \in Kind}

Resting == [pc |-> "rest", spec |-> <<>>, todo |-> <<>>, errored |-> FALSE]

OnlyOperator == UNCHANGED cordonVars
Planning == UNCHANGED <<queued, planner, cooling, plan, scales>>

---------------------------------------------------------------------------
(* Controllers. *)

Reconcile(k) ==
    /\ k \in due /\ job[k].pc = "rest"
    /\ due' = due \ {k}
    /\ job' = [job EXCEPT ![k] = [pc |-> "apply", spec |-> spec[k],
                                  todo |-> Objects(k, spec[k]), errored |-> FALSE]]
    /\ UNCHANGED <<present, slo, spec, live, status>> /\ Planning /\ OnlyOperator

\* Server-side apply, forced: the object becomes what was rendered.
ApplyObject(k) ==
    /\ job[k].pc = "apply" /\ job[k].todo # <<>>
    /\ live' = [live EXCEPT ![Head(job[k].todo)] = job[k].spec.version]
    /\ job' = [job EXCEPT ![k].todo = Tail(@)]
    /\ UNCHANGED <<present, slo, spec, due, status>> /\ Planning /\ OnlyOperator

\* A failed apply is counted, and the next object is tried.
ApplyFails(k) ==
    /\ job[k].pc = "apply" /\ job[k].todo # <<>> /\ Change
    /\ job' = [job EXCEPT ![k].todo = Tail(@), ![k].errored = TRUE]
    /\ UNCHANGED <<present, slo, spec, due, live, status, registry, busy, hot, hint, cordon,
                   writing, polled, checking>>
    /\ Planning

Phase(k, errored) ==
    CASE k = "cluster" -> IF errored THEN "Degraded" ELSE "Progressing"
      [] k = "pool"    -> "Synced"
      [] k = "policy"  -> "none"

\* The status is patched, or the patch fails and nobody asks.
PatchStatus(k) ==
    /\ job[k].pc = "apply" /\ job[k].todo = <<>>
    /\ \/ status' = [status EXCEPT ![k] = Phase(k, job[k].errored)] /\ UNCHANGED changes
       \/ Change /\ UNCHANGED status
    /\ job' = [job EXCEPT ![k] = Resting]
    /\ UNCHANGED <<present, slo, spec, due, live, registry, busy, hot, hint, cordon, writing,
                   polled, checking>>
    /\ Planning

\* Mutant: an errored reconcile waits for the next change of the resource.
RequeueOnlyGood(k) ==
    /\ k \in (present \cap Kind) \ due /\ job[k].pc = "rest" /\ status[k] # "Degraded"
    /\ due' = due \cup {k}
    /\ UNCHANGED <<present, slo, spec, job, live, status>> /\ Planning /\ OnlyOperator

\* Action::requeue: once more after 60 s, whatever the outcome.
Requeue(k) ==
    /\ k \in (present \cap Kind) \ due /\ job[k].pc = "rest"
    /\ due' = due \cup {k}
    /\ UNCHANGED <<present, slo, spec, job, live, status>> /\ Planning /\ OnlyOperator

\* A user edits a resource; its watch makes it due.
EditSpec(k, version, metrics) ==
    /\ k \in present \cap Kind /\ Change
    /\ spec' = [spec EXCEPT ![k] = [version |-> version, metrics |-> metrics]]
    /\ due' = due \cup {k}
    /\ UNCHANGED <<present, slo, job, live, status, registry, busy, hot, hint, cordon, writing,
                   polled, checking>>
    /\ Planning
---------------------------------------------------------------------------
(* Planner. *)

Asleep == [pc |-> "sleep", current |-> 0, total |-> 0]

Controllers == UNCHANGED <<present, slo, job, live, status>>

PlannerLists ==
    /\ "pool" \in present /\ planner.pc = "sleep"
    /\ planner' = [pc |-> "fetch", current |-> spec["pool"].version, total |-> 0]
    /\ UNCHANGED <<spec, due, queued, cooling, plan, scales>> /\ Controllers /\ OnlyOperator

FetchHeartbeats ==
    /\ planner.pc = "fetch"
    /\ planner' = [planner EXCEPT !.pc = "plan", !.total = queued]
    /\ UNCHANGED <<spec, due, queued, cooling, plan, scales>> /\ Controllers /\ OnlyOperator

\* Mutant: the division rounds down.
DesiredReplicasFloor(total, per, min, max) ==
    Min({Max({total \div per, min}), Max({max, min})})

\* As many as keep each replica's queue within `per`, clamped; the floor
\* wins over the ceiling.
DesiredReplicas(total, per, min, max) ==
    LET p == Max({per, 1}) IN Min({Max({(total + p - 1) \div p, min}), Max({max, min})})

\* Without max_replicas the count the tick read is the ceiling.
Ceiling(current) == IF slo.max = {} THEN current ELSE CHOOSE m \in slo.max : TRUE

PlanPool ==
    LET desired == DesiredReplicas(planner.total, slo.perReplica, slo.min, Ceiling(planner.current))
        rests == slo.perReplica = 0 \/ desired = planner.current \/ cooling
    IN  /\ planner.pc = "plan"
        /\ planner' = Asleep
        /\ IF rests
             THEN UNCHANGED <<spec, due, cooling, plan, scales>>
             ELSE /\ spec' = [spec EXCEPT !["pool"].version = desired]
                  /\ due' = due \cup {"pool"}
                  /\ plan' = <<[to |-> desired, current |-> planner.current,
                                total |-> planner.total]>>
                  /\ scales' = scales + 1
                  /\ cooling' = TRUE
        /\ UNCHANGED queued /\ Controllers /\ OnlyOperator

\* A list, a fetch or a patch fails: the pool is left for the next tick.
PlannerFails ==
    /\ planner.pc # "sleep" /\ Change
    /\ planner' = Asleep
    /\ UNCHANGED <<spec, due, queued, cooling, plan, scales, registry, busy, hot, hint, cordon,
                   writing, polled, checking>>
    /\ Controllers

CooldownOver ==
    /\ cooling
    /\ cooling' = FALSE /\ scales' = 0
    /\ UNCHANGED <<spec, due, queued, planner, plan>> /\ Controllers /\ OnlyOperator

QueueMoves ==
    /\ "pool" \in present /\ Change
    /\ queued' \in 0..MaxQueue
    /\ UNCHANGED <<spec, due, planner, cooling, plan, scales, registry, busy, hot, hint, cordon,
                   writing, polled, checking>>
    /\ Controllers

\* The operator's process is replaced: everything is due again, the
\* cooldown is forgotten.
OperatorRestarts ==
    /\ Change
    /\ due' = present \cap Kind
    /\ job' = [k \in Kind |-> Resting]
    /\ planner' = Asleep /\ cooling' = FALSE /\ scales' = 0
    /\ polled' = {} /\ checking' = {}
    /\ UNCHANGED <<present, slo, spec, live, status, queued, plan, registry, busy, hot, hint,
                   cordon, writing>>

---------------------------------------------------------------------------

OperatorInit ==
    /\ present \in Present
    /\ IF "pool" \in present THEN slo \in Slos ELSE slo = [perReplica |-> 0, min |-> 1, max |-> {}]
    /\ CordonInit /\ changes = MaxChanges
    /\ spec = [k \in Kind |-> [version |-> 1, metrics |-> TRUE]]
    /\ due = present \cap Kind
    /\ job = [k \in Kind |-> Resting]
    /\ live = [o \in Object |-> 0] /\ status = [k \in Kind |-> "none"]
    /\ queued = 0 /\ planner = Asleep /\ cooling = FALSE /\ plan = <<>> /\ scales = 0

Controller(k) ==
    \/ Reconcile(k) \/ ApplyObject(k) \/ ApplyFails(k) \/ PatchStatus(k) \/ Requeue(k)
    \/ \E version \in Replicas, metrics \in BOOLEAN : EditSpec(k, version, metrics)

Planner ==
    \/ PlannerLists \/ FetchHeartbeats \/ PlanPool \/ PlannerFails
    \/ CooldownOver \/ QueueMoves

InCordons == "cordons" \in present /\ UNCHANGED operatorVars

CordonLoop == CordonNext /\ InCordons

OperatorNext == (\E k \in Kind : Controller(k)) \/ Planner \/ CordonLoop \/ OperatorRestarts

OperatorSpec == OperatorInit /\ [][OperatorNext]_everything

\* The runtime runs what is due, the timers of the ticks and of the cooldown
\* fire, and a call that is not made to fail answers.
Fairness ==
    /\ \A k \in Kind : /\ WF_everything(Reconcile(k) \/ ApplyObject(k))
                       /\ WF_everything(PatchStatus(k)) /\ WF_everything(Requeue(k))
    /\ WF_everything(PlannerLists \/ FetchHeartbeats \/ PlanPool) /\ WF_everything(CooldownOver)
    /\ \A r \in Router :
          WF_everything(InCordons /\ (RouterTick(r) \/ \E h \in writing[r] : PutHint(r, h)))
    /\ WF_everything(
          /\ InCordons
          /\ Poll \/ (\E h \in polled : GetCordon(h)) \/ \E c \in checking : ApplyHint(c))

OperatorLiveSpec == OperatorSpec /\ Fairness

---------------------------------------------------------------------------

(***************************************************************************)
(* Once users stop editing and calls stop failing, everything a resource   *)
(* renders to is applied at its last version, a cluster says so, and the   *)
(* planner no longer moves the pool: a change that lands during a          *)
(* reconcile, a failed apply and a restart are all made good.              *)
(***************************************************************************)
Converges ==
    <>[](/\ \A k \in present \cap Kind : \A o \in Range(Objects(k, spec[k])) :
              live[o] = spec[k].version
         /\ "cluster" \in present => status["cluster"] = "Progressing")

(***************************************************************************)
(* A scale the planner makes fits the queue it read: no replica above the  *)
(* limit unless the pool is at its ceiling, no replica more than needed    *)
(* unless it is at its floor; and one scale per cooldown.                  *)
(***************************************************************************)
PlanFitsQueue ==
    /\ scales <= 1
    /\ \A i \in DOMAIN plan :
         LET p == plan[i]
             top == Max({slo.min, Ceiling(p.current)})
         IN  /\ p.to \in slo.min..top
             /\ p.to * slo.perReplica >= p.total \/ p.to = top
             /\ (p.to - 1) * slo.perReplica < p.total \/ p.to = slo.min
=============================================================================
