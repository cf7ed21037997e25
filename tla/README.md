# TLA+ specifications of Cognitora Inference

Models, model-checking runs and proofs for the Rust services under
`src/rust/`. `PROJECT.json` lists the components, maps every definition to the
lines it translates, and lists the hazards of the code with the properties that
would show them.

## The system

| Part | Code | Model |
|---|---|---|
| router: what a request passes first (keys, tokens, limits, ledger, carbon), shutdown | `cgn-router/src/{main,usage}.rs`, `gateway/{mod,authz,chat}.rs`, `carbon/`, `cgn-auth`, `cgn-ratelimit`, `cgn-ctl/src/key.rs` | `Gate`, `ApiKeys`, `Oidc`, `Carbon` |
| router: admission control | `cgn-router/src/admission.rs` | `Admission`, `SlotPool` |
| router: a request from authorisation to charge | `cgn-router/src/gateway/{chat,embed,generate}.rs`, `routing/selector.rs`, `deadline.rs`, `disagg.rs`, `cascade.rs`, `federation.rs` | `Dispatch` |
| router: view of the cluster over etcd or gossip | `cgn-router/src/cluster/`, `cluster_metrics.rs`, `cgn-gossip`, `cgn-agent/src/health.rs` | `ClusterView`, `Gossip` |
| agent to router: confirmed KV claims | `cgn-agent/src/health.rs`, `cgn-router/src/cluster/watcher.rs`, `cgn-core/src/prefix.rs` | `ConfirmedKv` |
| agent: supervision, drain and stop | `cgn-agent/src/{supervisor,grpc,main}.rs` | `Agent` |
| engine: scheduler and KV pool | `cgn-infer/src/{scheduler,kv}/mod.rs` | `Scheduler` |
| engine: model runtimes and pipeline | `cgn-infer/src/{runtime,pipeline}/mod.rs`, `model/llama.rs`, `engine.rs` | `Runtime`, `BatchModel` |
| engine to client: the way of a token | `cgn-infer/src/server/mod.rs`, `cgn-agent/src/engine/openai_http.rs`, `cgn-agent/src/grpc.rs`, `cgn-router/src/gateway/{generate,sse}.rs`, `routing/grpc.rs` | `Emission`, `TokenPath` |
| KV cache daemon: tiers, service, transfers | `cgn-kvcached/src/`, `cgn-kv/src/` | `KvStore`, `KvDaemon` |
| operator: controllers, planner, cordons | `cgn-operator/src/`, `cgn-k8s/src/crds.rs`, `cgn-router/src/autoscaler.rs`, `cgn-ctl/src/cluster.rs` | `Operator`, `Cordons` |

A request passes the gate (`Gate`), is admitted to a pool of slots
(`Admission`), is routed over the nodes the router knows (`ClusterView`,
`Gossip`) with the help of prefix claims (`ConfirmedKv`), and is forwarded,
retried, streamed and charged (`Dispatch`). An agent owns the engine processes
behind a node (`Agent`). The native engine batches sequences over a block pool
(`Scheduler`) and a runtime (`Runtime`); its tokens become text (`Emission`)
that travels over agent and router to the client (`TokenPath`). KV blocks live
in tiered stores that exchange them (`KvDaemon`). An operator keeps the objects
of a cluster, its replica counts and its cordons (`Operator`).

The models meet at their interfaces. `Admission` implements `SlotPool`;
`Dispatch` uses pools as that promise describes them, with the one slot that
`Admission` shows may be lost. `Dispatch` lets nodes be listed and unlisted at
any time, which covers whatever the cluster view does. `Runtime` implements
`BatchModel`, the contract under which `Scheduler` calls a model
(`RuntimeContract` says that it keeps its side). `TokenPath` extends
`Emission`, `KvDaemon` extends `KvStore`, `Gossip` extends `ClusterView`, `Gate`
extends `ApiKeys`, `Oidc` and `Carbon`, `Operator` extends `Cordons`: the
composed module is the one that is run.

## Modules

**SlotPool** is the abstract specification of a pool: a request waits, owns a
slot, or is refused; at most `Slots` own one; a slot goes back or straight on.

**Admission** has one pool. `inflight`, `waiting` and `turn` are the fields of
`PoolInner`; `pc` says where each `admit()` is, `holder` who is inside
`release()`. The one-shot channels are not under the mutex, so `release()` is
one action per iteration of its walk (`ServeTurn`, `FreeSlot`), and timeouts,
receipts and hang-ups interleave with it. **AdmissionRefinement** holds the
refinement mapping, **AdmissionFairness** a history variable that counts how
often a tenant is passed over.

**Dispatch** has the state of each request (`at`, `step` of the cascade,
`attempt`, `tried`, `node`), the permits (`owners`), `node_inflight`, and the
ledger. Each action is the code between two awaits: authorisation, `admit`,
`dispatch_once` up to its first await (`Pick`), prefill, connection and call,
`first_token`, the peer, `collect`, the three phases of `pump`, and the
embedding handler beside them. Scores only order candidates, so every candidate
may be picked; the deadline check and cascade confidence are free choices. A
client that leaves drops the handler's future, or is noticed by the spawned
task when it sends.

**Gate** has the requests on their way through the middlewares, the bucket of
the rate limiter, the ledger and its file, the two writers of that file, and
`main` from start to drain and exit; a setting chosen at the start says which
parts of `[auth]` and `[carbon]` are on. **ApiKeys** is the key file under
`cgn-ctl`'s edits and the router's reloads, **Oidc** the key-set cache,
**Carbon** the poller and its last reading.

**ClusterView** has etcd's record of each node, the watcher's snapshot and
event queue, the cordon tasks of each run of the watcher, the registry, the
cache-state tracker and the router's claims. Events are delivered in order and
late; a watch may end, and the next run starts from a snapshot. **Gossip** adds
the other backend: members with generations, a failure detector that may be
wrong, the router's periodic poll; and the gauges that mirror the registry.

**ConfirmedKv** follows a digest from the agent's queue through a key under the
session's lease to the router's claim: one action per etcd call, sessions that
break and reconnect, leases that expire, a cap with pressure.

**Agent** has the processes by member and round, the handles and who took them,
the supervision loop, `Drain` calls and `main` after SIGTERM.

**Scheduler** has the engine thread's loop: admission with block reservation,
one prefill chunk, `ensure_room` with preemption, a decode batch, retirement.
Within an iteration `todo` holds the sequences that the loop over the batch has
still to reach.

**BatchModel** is the contract of the trait: logits follow from exactly the
tokens fed to a sequence, and a failed call leaves its sequences unusable until
they are started again or dropped. **Runtime** has the three runtimes the engine
can load, with their caches layer by layer, and for the pipelined one the
stage workers, their streams, resets, restarts and poisoned locks. A tensor is
represented by the tokens it was computed from.

**Emission** runs `push_token` on every sequence of pieces up to a budget, with
overlapping stop strings and a character split over two tokens; what the
tokenizer does is a constant, `Decode`. **TokenPath**
puts behind it the five bounded buffers and the tasks that move items between
them, the read timeout, the death of the engine, readers that leave, and
engines of other makes that may close early.

**KvStore** has the RAM map, the byte counter, the files and the index.
`RamTier::put` and `evict` change map and counter in separate steps; puts,
promotions and the eviction task interleave between any two of them. A crash
keeps files and index. **KvDaemon** adds the service, and pulls and pushes
between two daemons, frame by frame.

**Cordons** has the routers' drain hints, the operator's loop over them and an
administrator. **Operator** has the reconciles of the three resource kinds,
object by object, and the planner's tick from the list of pools to the patch.

`MC*` modules give constants their values. Operators marked as mutants are
faulty variants of the definition below them, used to confirm that a property
can fail. `*Proofs` modules hold the theorems.

## Runs

`tlc -config X.cfg M` in this directory.

| Run | States | What it shows |
|---|---|---|
| `MCAdmission` | 22 k | the slot counter is exact; no slot idles beside a waiter; no tenant is passed twice between its turns; every waiter is answered; the pool implements `SlotPool` |
| `MCDispatch` | 86 k | slots and node counts are held exactly while a request is served; each attempt goes to a fresh node; a client that gets text is charged once and one that gets an error is not; every request ends |
| `MCGate` | 321 k | one fetch per cooldown for unknown key ids; limits are overshot by what is in flight at most, and a request draws on its sender's bucket; the ledger is never below its file; a revoked key stops working; the drain ends; the carbon gate reopens |
| `MCClusterView` | 377 k | the tracker agrees with the registry; over etcd an entry never goes back; a node ready for good becomes routable for good; over gossip a dead member is forgotten, gauges included |
| `MCConfirmedKv` | 32 k | tracked keys are in etcd under the session's lease, once; queued digests get keys if no write fails, and deleted keys end unclaimed |
| `MCAgent` | 387 k | every process has a handle and members of two spawns never run together (without a Drain call); a drain waits for what it found; the engine recovers; a stopping agent stops |
| `MCScheduler` | 246 k | no request and no block is lost or doubled; the runtime is called within its contract; every request ends |
| `MCRuntime` | 13 k | each of the three runtimes implements `BatchModel`, through broken streams and restarted workers; every call returns |
| `MCTokenPath` | 368 k | text is cut exactly at the first stop; `[DONE]` is only seen on a whole answer; every task of the path ends |
| `MCKvDaemon` | 313 k | the byte counter accounts for every step under way; only the TTL pass and a crash drop a last copy, and nothing is held that nobody put; memory returns under its watermark; transfers end |
| `MCOperator` | 622 k | replica counts fit the queue and the limits; a cordon of the loop is lifted; after the last change everything is applied at its last version |
| `MCSchedulerKv` | (violation) | `KvMatchesTokens`: after preemption only the prompt is prefilled, not the generated tokens, so decoding goes on over a shorter KV than the tokens it stands for |

### Bounds

- `MCAdmission`: five requests of two tenants over two slots with queues of
  two, so that a queue overflows, a tenant has several waiters and dead waiters
  stand between live ones.
- `MCDispatch`: two chats that meet at a pool with one slot, one of them after
  an early model, and an embedding of that model; three nodes, one of which can
  only decode, and the code's three attempts, so that attempts are exhausted
  both by failures and by want of nodes. One unit of charge against a budget of
  one makes the second request overlap or follow the first.
- `MCGate`: two request slots, and one setting per subject (`MCConfig`), each
  with room for what it is about: four edits, reloads and crashes around the key
  file; four requests against limits of two; two writers of the usage file with
  a crash; a rotation under OIDC, and three tokens without one; three changes
  of the grid.
- `MCClusterView`: one node (nodes share only the event queue), three changes
  of its record, two cordon changes, two runs of the watcher, one wrong
  suspicion; either backend.
- `MCConfirmedKv`: two digests over a cap of one key, two sessions, one fault.
- `MCAgent`: a group of two, three deaths, one failed spawn, four rounds, one
  Drain call, SIGTERM.
- `MCScheduler`: prompts and budgets that overfill five blocks of two tokens,
  so that sequences preempt each other and themselves; one prompt the model
  cannot hold; one client leaves and the runtime may fail.
- `MCRuntime`: two sequences, three layers in every slicing and some that do
  not tile the model, chunks of two tokens, two faults.
- `MCTokenPath`: three tokens of up to two characters against stop strings of
  three, buffers of one, one death or timeout of an engine; the client may leave at any
  time.
- `MCKvDaemon`: two clients with two calls together, blocks of one and two bytes over a
  watermark of one and a wire limit of one, one disk fault, one crash.
- `MCOperator`: one resource of each kind in turn, three outside changes or
  failures, queues up to five, and `slo` blocks with and without a ceiling, with
  the floor above the ceiling, and switched off; two nodes and one router for
  the cordons.

### Fairness

Weak fairness is asked of what a scheduler or a timer of the process runs: the
engine thread, the eviction task, the watcher, the publisher, the supervision
loop, reloads and saves, the operator's ticks and requeues, `main` on its way
out, the polled futures of a request. Beyond that:

- `MCAdmission` counts the drop of a permit, `MCDispatch` the answers of agents
  and the ends of their streams: the code has no timeout there, so its liveness
  rests on the agents.
- `MCTokenPath` assumes that a silent engine runs into the driver's read
  timeout, and that a client reads or its connection breaks.
- `MCRuntime` assumes that a worker which lives finishes its chunk.
- `MCGate` asks weak fairness of a successful poll of the grid, as "a poll
  succeeds now and then", and strong fairness of the exit of `main`, which
  the periodic save may hold up again and again. No request need end.
- `MCClusterView` asks strong fairness of heartbeats, because the bound on
  undelivered events, which the system does not have, may disable them again
  and again. In gossip mode packets get through and the detector notices a
  process that has ended; that is what chitchat promises.

Client steps, disconnects, deaths, faults and crashes are never fair.
`CHECK_DEADLOCK FALSE` is set where an instance runs out of bounded events.

## Proofs

`tlapm M.tla` checks module `M`. Every theorem holds for all values of the
constants that satisfy the named assumptions of the modules that declare them
(`AdmissionConstants`, `DispatchConstants`, `GateConstants`,
`ClusterConstants`, `ConfirmedConstants`, `AgentConstants`,
`SchedulerConstants`, `RuntimeConstants`, `EmissionConstants`,
`PathConstants`, `KvConstants`, `WireLimit`, `OperatorConstants`): finite sets
where something is counted, bounds that are natural numbers, distinct null
values. One assumption is about
a library: `DecodeExtends` says of the tokenizer what `push_token` relies on,
that a further token leaves the text decoded so far as it was, up to a U+FFFD
at its end. Stop strings may be anything the API lets through, the empty string
included. Each proof has one lemma or step per action.

| Module | Theorem | Establishes | Inductive invariant |
|---|---|---|---|
| `RouterProofs` | `SlotCountExact` | `SlotsAccounted` | `IInv` |
| | `NoIdleSlot` | `FullWhileWaiting` | |
| | `RotationExact`, `WaitersReachable` | the rotation is the tenants with a queue; a parked request is in its tenant's queue | |
| | `AdmissionImplementsSlotPool` | `ImplementsSlotPool` | |
| | `OvertakenOnce` | `OvertakenOncePerTurn` | `PassInv` |
| | `TrackerFollowsRegistry` | `TrackerAgrees` | `ViewInv`, `MeshInv` |
| | `EntriesNeverGoBack` | `NeverOlder` | `OrderInv` |
| `DispatchProofs` | `ChargesExact` | `ChargedOnce` | `ChargeInv` |
| | `SlotsAndCountsExact`, `RetriesReachFreshNodes` | `HeldWhileServed`, `FreshNodeEachAttempt` | `HoldInv`, `ListedNodes` |
| `GateProofs` | `OneMissFetchPerCooldown` | `MissFetchesLimited` | `CooldownInv` |
| | `LedgerNeverBelowFile` | `LedgerCoversFile` | `LedgerInv` |
| | `LimitsHold` | `LimitsOvershootBounded` | `LimitsInv` |
| `FleetProofs` | `EngineGroupHeld` | `GroupHeld` | `GroupInv` |
| | `DrainCutsOnlyLate` | `DrainWaits` | `DrainInv` |
| | `TrackedKeysAreLive` | `TrackedKeysLive` | `TrackInv` |
| | `PlansFit` | `PlanFitsQueue` | `PlannerInv` |
| `SchedulerProofs` | `RequestsAndBlocksConserved` | `Conserved` | `SchedInv` |
| | `RuntimeContractKept` | `RuntimeContract` | |
| `RuntimeProofs` | `RuntimeIsBatchModel` | `ImplementsBatchModel` | `RuntimeInv` |
| `TokenPathProofs` | `StopsCutExactly` | `StopCutsExactly` | `EmitInv` in `PathInv` |
| | `DoneAnswersAreWhole` | `DoneIsWhole` | `PathInv` |
| `KvProofs` | `NoBlockLostOrInvented` | `BlocksKept` | `BlockInv` |
| | `CounterNeverDrifts` | `UsedAccounts` | `Accounts`, `Engaged` |

Why the invariants are what they are:

- `IInv` has the types, the slots (the counter is the number of owners; the pool
  is full while somebody is queued) and the queues (a queue holds requests of
  its tenant, each once, that wait or have given up; the rotation is exactly the
  tenants with a queue). The parts need each other: that a hand-over leaves the
  count exact needs that the receiver was not served before, and that a freed
  slot leaves nobody waiting needs that an empty rotation means empty queues.
- `PassInv`: whoever was served since a waiting tenant's last turn stands behind
  it in the rotation, or is not in it, so it cannot be served again first.
- `ChargeInv`: text reaches a client only in the step that charges, or while it
  is pumped towards one. `HoldInv`: slots and counts are functions of where each
  request is, and the nodes tried are as many as the attempts made; a count is
  a cardinality, so each step adds or removes one element.
- `CooldownInv`: a fetch for an unknown key id makes the cache count as fresh
  before it is sent. `LedgerInv`: whatever a writer has snapped, opened or
  written is covered by the ledger; opening truncates, so an older content of the
  temporary file does not matter. `LimitsInv`: what a key has spent, plus the
  most that its requests in flight can cost, is under the limit by one answer
  per slot. A restart takes the totals from the file, so the bound is kept for
  what the file records as well, which is where `LedgerInv` comes in; a process
  that is down serves nobody. Which bucket a request draws on comes from a lemma
  about the walk along `X-Forwarded-For` (`WalkStops`).
- `ViewInv` follows what the watcher is about to upsert; `MeshInv` says a value
  in gossip mode comes from a member that was heard of. `OrderInv`: the events of
  a watch are in the order of the writes, none older than the entry it will
  replace, and a watch that ended leaves none behind.
- `GroupInv`: each live process is among the handles that the supervisor, a
  spawn under way, or a killer (loop, Drain call, `main`) has; each of these has
  handles only at certain points; and without a Drain call all handles are of
  one round, so nothing is left to kill when the loop spawns. `DrainInv`: until
  the drain is over nothing is cut.
- `TrackInv` is the property with the types it needs: an eviction deletes the key
  of the digest that leaves the list, and the list names a digest once.
- `PlannerInv`: every plan made fits the total it was made from (`Fits`, which
  is a fact about `desired_replicas` for any limit, also zero, and any floor and
  ceiling, also crossed ones); a scale since the last cooldown means that one is
  running.
- `SchedInv`: a request that is not answered is in one of three queues, without
  repetition; the pool's count is the cardinality of the blocks held; a sequence
  that does not run has neither blocks nor KV. A running one is within the blocks
  it reserved. The last needs three stages of one iteration told apart: while
  room is made, the candidates not yet seen to may lack a block; afterwards each
  has one for its next token; and while a batch is emitted, a KV is one ahead of
  its tokens. After a preemption a KV is shorter than its tokens, so the bound
  from above is all that holds: the equality is what `MCSchedulerKv` refutes.
- `RuntimeInv` ties the caches to the tokens the contract speaks of: `Holds` says
  that a cache is what these tokens leave behind, at each layer of a stage. It is
  kept for the local caches (`Batched`), for the stock model's one cache while
  the sequence is resident (`Sequential`) and for every stage whose stream is up
  (`Pipelined`). While a call is on its way through the stages, those it has
  passed hold the call's tokens as well, those ahead do not, and at its own stage
  the chunk or the answer carries the hidden states of exactly these tokens.
  A stage whose stream is down may hold anything, since nothing is sent to it
  again; a sequence after a failed call may be torn, since it is fed from the
  start or not at all. What a run through the layers computes is shown over the
  number of layers: a least layer at which it would be wrong follows one at
  which it is right (`Least`). That the stages follow each other without
  a gap (`Tiled`) is what `validate_coverage` and `Connects` leave of all slicings.
- `EmitInv`: while a generation goes on, what was sent is within the held-back
  length of some earlier part of the text that had no stop string in it
  (`Safe`), so no stop string found later begins before it. That part is not the
  whole text: nothing is sent while the text ends inside a character.
- `PathInv` says of every buffer between the scheduler and the client what it
  holds: `Chained` cuts the text sent at five places, each buffer spelling the
  part between two of them; `Marks` and `OneWay` follow the one finish reason;
  `Ends` says which task can have ended and what that says of the ones before it.
  A buffer is spelt with the help of a sequence of cuts, one per item, not with a
  recursive concatenation, so that taking or adding an item is a step without
  induction.
- `BlockInv`: whatever is on its way into a tier was put by somebody, and a
  block is on disk before it is evicted. `Accounts`: the byte counter, modulo its
  width, is the bytes in RAM, plus what an eviction or a replaced value has still
  to subtract, minus what a put has still to add. Sums are cardinalities of sets
  with one element per byte, so each step adds or removes the bytes of one block.
  `Engaged`: a client whose transfer waits for the peer has no put under way.

What is counted or spelt in the modules with proofs is written without recursion
(but for the runs through layers and through tokens in `Runtime`, which are
recursive functions of a number, shown to exist before they are unfolded), and with the operators of the standard modules, `Functions` and `FiniteSetsExt`
or a short definition of its own (`First`, `Backwards`): the larger modules of
sequence operators and theorems would go into every proof obligation.

Only model-checked: all liveness, which needs fairness and `ENABLED`. Every
invariant, action property and refinement of a run is stated by a theorem.

## Disagreements met

`MCSchedulerKv` shows the one a run is kept for. Modelling brought up these as
well, at the lines given (paths under `src/rust/services/` unless they begin with
a library; the place after the semicolon is what is said of the code). No run
checks them; the properties are stated so as not to deny them.

Router, requests:

- A client that hangs up between hand-over and receipt takes the slot along
  (`cgn-router/src/admission.rs:179`; 201, and the test at 400).
- A timed-out waiter uses up its tenant's turn, so a live one behind it waits
  another round (`admission.rs:84`; 57 promises turns).
- Claims are recorded when the call opens, so a node that never sends a first
  token keeps them (`gateway/generate.rs:318` says failed nodes must not).
- `pick_pair` gives the decode to the prefill node also when no eligible decode
  node is left, even to a prefill-only node, and does not apply the model's
  capability constraints to the decode node (`routing/selector.rs:239`).
- A finish reason "error" of an engine is streamed as a finish and `[DONE]`
  (`gateway/generate.rs`; `gateway/sse.rs:6`).
- Requests that overlap may overshoot a budget by their sum (`usage.rs:117`; 9
  says "by its own size, never by more").
- Two saves share one temporary file, so the file that is renamed may be torn or
  the older one (`usage.rs:200`; 186 says "atomically").
- After the first successful poll a carbon reading is never stale again, so
  during an outage the last one goes on gating (`carbon/mod.rs:108`; 106).
- An empty key set is fetched for every request; the cooldown covers unknown key
  ids only (`libraries/cgn-auth/src/oidc.rs:107`; 116).
- A key file that cannot be read at the start is never read again
  (`gateway/mod.rs:141`; 168 promises reloads).

Key file (`cgn-ctl/src/key.rs`):

- `revoke` leaves no newline at the end, so the next `create` lands on the last
  line (74; 12 says it appends).
- `revoke` matches the first word with a digest, so a key kept in the clear stays
  while "revoked" is logged (71; 75).
- Both rewrite the file in place, so a reload may see it empty or cut (74).

Cluster view:

- The next heartbeat clears a cordon (`cluster/watcher.rs:200`;
  `cluster/registry.rs:141`).
- A node deleted while the watch is down stays registered: a new run's snapshot
  only upserts (`watcher.rs:49`; `state.rs:208`).
- Each run has a new tracker, so an epoch that changed meanwhile wipes no claim
  (`watcher.rs:39`; `cache_state.rs:7`).
- Over gossip two generations of a restarted agent may be live at once: the older
  record can replace the newer, and each poll wipes the claims when their epochs
  differ (`cluster/gossip.rs:80`).
- A scrape between reset and refill sees no node gauges (`cluster_metrics.rs`).
- The router forgets a claim after 60 s although its key lives (`state.rs:80`;
  `watcher.rs:147`).

Agent:

- A failed respawn is not retried: the loop ignores an empty group
  (`cgn-agent/src/supervisor.rs:180`; 196).
- `Generate` accepts work during a drain, which returns at the first count of
  zero and may cut it (`supervisor.rs:222`; `docs/platform/cgn-agent.md:77`).
- The Drain RPC kills the engine at once (`grpc.rs:278`;
  `cgn-ctl/src/cluster.rs:37`).
- A Drain call that takes the handles during a restart lets two groups run side
  by side (`supervisor.rs:206`; 19).
- Nothing waits for the engine's health before the node registers: `wait_ready`
  has no caller (`supervisor.rs:16`).
- Digests whose put fails are dropped (`health.rs:213`; the log at 166 says they
  are retried). Under pressure more keys than the cap may stay (241; 189).

Engine:

- Text held back for a stop string is not flushed when the end-of-sequence
  token ends the generation (`cgn-infer/src/scheduler/mod.rs:380`; 452).

KV cache daemon:

- After a restart `lookup` answers for blocks that were only in memory
  (`cgn-kvcached/src/tiers.rs:59`; 52).
- `forget` deletes a block that was stored, or pushed by a peer and acknowledged,
  after the TTL scan (`tiers.rs:183`; 139).
- A promoted block keeps its file while its entry says Ram; after a crash the
  TTL pass never finds the file (`tiers.rs:181`; 139).

Operator:

- A cordon that an administrator sets between the loop's read and its write is
  replaced or deleted (`cgn-operator/src/autoscaler.rs:90`; 12).
- An idle cluster whose nodes are all over the power threshold is drained as a
  whole, and admission's `inflight` is never consulted
  (`cgn-router/src/autoscaler.rs:78`; 12).
- Without `maxReplicas` the ceiling is the replica count of the list, which an
  edit may have changed by the time of the patch (`planner.rs:117`;
  `libraries/cgn-k8s/src/crds.rs:127`); a restart forgets the cooldown.
- A ModelPool whose ConfigMap failed to apply is "Synced"
  (`controllers/model_pool.rs:83`), a metrics Deployment that is switched off is
  not deleted, and all RoutingPolicies write one key
  (`controllers/routing_policy.rs:67`).

## Not modelled

- Rendering, parsing and I/O: engine command lines, OpenAI JSON, prompt
  templates, tokenizers, metrics, TLS, Helm, telemetry, configuration, cgn-ctl's
  install, model and recipe commands.
- Floating-point work: tensors (a hidden state is the tokens it came from),
  sampling, routing scores, deadline estimates, cascade confidence. The models
  let any of the outcomes happen.
- The longest-prefix walk of the prefix index, a pure function whose result only
  orders candidates.
- The Redis rate limiter, one atomic script inside Redis, and the RDMA transport,
  a stub that returns an error.
- The router's channel pool, whose entries are replaced without effect on a
  request's control flow.
- Cryptography: a signature or certificate is valid or not.
