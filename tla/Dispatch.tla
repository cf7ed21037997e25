------------------------------ MODULE Dispatch ------------------------------
(***************************************************************************)
(* The life of a chat request in the router (gateway/chat.rs,              *)
(* gateway/generate.rs): authorisation, the models of a cascade one after  *)
(* the other, and for each model an admission slot, up to MaxAttempts      *)
(* nodes, federation, the first token, and the answer with its charge.  An *)
(* embedding (gateway/embed.rs) is one attempt on one node.                *)
(*                                                                         *)
(* An admission pool is what Admission makes of it: at most MaxQueue       *)
(* owners, one of which may have lost its slot in the hand-over.  The      *)
(* listed nodes change as ClusterView lets them.  Scores only order the    *)
(* candidates, so any of them may be the best; the channel pool and the    *)
(* prefix claims are caches that decide nothing here.                      *)
(***************************************************************************)
EXTENDS Integers, Sequences, FiniteSets

CONSTANTS
    Requests, Nodes, Models,
    Chain,         \* the models a request tries in turn; one without a cascade
    Split,         \* <<request, model>>: enough tokens, by the model's tokenizer, to be split
    Streams,       \* the requests that ask for a stream
    Embeds,        \* the requests to /v1/embeddings
    Role,          \* "prefill", "decode" or "both"
    Serves,        \* the models a node serves
    Fits,          \* the models whose min_vram_mb and require_gpu a node meets
    MaxAttempts,   \* MAX_DISPATCH_ATTEMPTS
    MaxBegun,      \* bound on the requests that are begun
    MaxQueue,      \* admission slots of a pool
    Budget,        \* token budget of the one key all requests use
    NoNode

ASSUME DispatchConstants ==
    /\ IsFiniteSet(Requests) /\ Split \subseteq Requests \X Models
    /\ Streams \subseteq Requests /\ Embeds \subseteq Requests \ Streams
    /\ \A r \in Embeds : Len(Chain[r]) = 1 /\ \A m \in Models : <<r, m>> \notin Split
    /\ \A r \in Requests : Chain[r] \in Seq(Models) /\ Chain[r] # <<>>
    /\ Role \in [Nodes -> {"prefill", "decode", "both"}]
    /\ Serves \in [Nodes -> SUBSET Models] /\ Fits \in [Nodes -> SUBSET Models]
    /\ MaxAttempts \in Nat \ {0} /\ MaxBegun \in Nat /\ MaxQueue \in Nat \ {0} /\ Budget \in Nat
    /\ NoNode \notin Nodes

VARIABLES
    at,         \* where each request is
    step,       \* index of the model it is at
    attempt,    \* dispatch attempts for this model
    tried,      \* nodes excluded after a failed attempt
    node,       \* node it is dispatched to, or NoNode
    gone,       \* streaming requests whose client has disconnected
    sent,       \* requests whose client has received text
    charged,    \* how often each request was charged
    owners,     \* per pool: the requests that hold a Permit
    inflight,   \* SharedState.node_inflight
    listed,     \* nodes that nodes_for may return
    spent       \* tokens the ledger has for the key; a charge is of one

attempts == <<step, attempt, tried, node>>
client == <<gone, sent>>
ledger == <<charged, spent>>
vars == <<at, attempts, client, ledger, owners, inflight, listed>>

Pools == Models \X BOOLEAN
Ends == {"refused", "failed", "answered", "gone", "lost"}
\* Where the handler's future holds a Permit, and where a NodeGuard too.
OnNode == {"prefill", "call", "first", "collect", "spawned", "pump"}
Admitted == OnNode \cup {"pick", "peer"}
Handler == {"admit", "parked", "pick", "peer", "prefill", "call", "first", "collect"}

Init ==
    /\ at = [r \in Requests |-> "new"] /\ step = [r \in Requests |-> 1]
    /\ attempt = [r \in Requests |-> 1] /\ tried = [r \in Requests |-> {}]
    /\ node = [r \in Requests |-> NoNode]
    /\ gone = {} /\ sent = {} /\ charged = [r \in Requests |-> 0] /\ spent = 0
    /\ owners = [p \in Pools |-> {}] /\ inflight = [n \in Nodes |-> 0]
    /\ listed = {}

Model(r) == Chain[r][step[r]]
IsSplit(r) == <<r, Model(r)>> \in Split
PoolOf(r) == <<Model(r), IsSplit(r)>>
IsLast(r) == step[r] + 1 \notin DOMAIN Chain[r]
Go(r, stage) == at' = [at EXCEPT ![r] = stage]

-----------------------------------------------------------------------------
(* What the handlers share.                                                *)

\* NodeGuard::drop, when there is one.
DropGuard(r) ==
    /\ inflight' = IF node[r] \in Nodes THEN [inflight EXCEPT ![node[r]] = @ - 1] ELSE inflight
    /\ node' = [node EXCEPT ![r] = NoNode]

DropPermit(r) == owners' = [owners EXCEPT ![PoolOf(r)] = @ \ {r}]

\* The next model of the cascade, or an end of the request.
Advance(r, end) ==
    /\ \/ ~IsLast(r) /\ step' = [step EXCEPT ![r] = @ + 1] /\ Go(r, "admit")
       \/ IsLast(r) /\ step' = step /\ Go(r, end)
    /\ attempt' = [attempt EXCEPT ![r] = 1] /\ tried' = [tried EXCEPT ![r] = {}]

\* open returns an error: the permit, and a guard if there is one, are dropped;
\* resolve_cascade goes on to the next model.
OpenFails(r) ==
    /\ DropPermit(r) /\ DropGuard(r) /\ Advance(r, "failed")
    /\ UNCHANGED <<client, ledger, listed>>

\* Mutants: the failed node stays in, and a loop without a count.
AttemptFailsSameNode(r, n) ==
    \/ /\ attempt[r] < MaxAttempts
       /\ attempt' = [attempt EXCEPT ![r] = @ + 1]
       /\ DropGuard(r) /\ Go(r, "pick")
       /\ UNCHANGED <<tried, step, owners, client, ledger, listed>>
    \/ attempt[r] = MaxAttempts /\ OpenFails(r)

AttemptFailsUncounted(r, n) ==
    /\ DropGuard(r) /\ Go(r, "pick")
    /\ UNCHANGED <<attempt, tried, step, owners, client, ledger, listed>>

\* An attempt on n fails in a way that is worth another node.
AttemptFails(r, n) ==
    \/ /\ attempt[r] < MaxAttempts
       /\ attempt' = [attempt EXCEPT ![r] = @ + 1]
       /\ tried' = [tried EXCEPT ![r] = @ \cup {n}]
       /\ DropGuard(r) /\ Go(r, "pick")
       /\ UNCHANGED <<step, owners, client, ledger, listed>>
    \/ attempt[r] = MaxAttempts /\ OpenFails(r)

\* settle and UsageLedger::charge_at.
Charge(r) ==
    /\ charged' = [charged EXCEPT ![r] = @ + 1]
    /\ spent' = spent + 1

-----------------------------------------------------------------------------
\* check_at: a key that has spent nothing has no entry yet, and passes.
WithinBudget == spent = 0 \/ spent < Budget

\* The embeddings handler authorises, admits and picks as the chat handler does,
\* but knows no carbon gate, deadline, second attempt or peer.
IsEmbed(r) == r \in Embeds

New(r) ==
    /\ at[r] = "new"
    /\ Cardinality({q \in Requests : at[q] # "new"}) < MaxBegun

\* authorize checks scope, model and budget; then the handler the request.
Begin(r) ==
    /\ New(r)
    /\ \/ WithinBudget /\ Go(r, "admit")
       \/ Go(r, "refused")
    /\ UNCHANGED <<attempts, client, ledger, owners, inflight, listed>>

\* check_admission of the carbon tracker, for a chat request of low priority.
CarbonRefuses(r) ==
    /\ New(r) /\ ~IsEmbed(r) /\ WithinBudget /\ Go(r, "refused")
    /\ UNCHANGED <<attempts, client, ledger, owners, inflight, listed>>

\* admit_request: a slot at once or after a wait; a refusal when the tenant's
\* queue is full or the wait too long.
HasSlot(r) == Cardinality(owners[PoolOf(r)]) < MaxQueue

Admit(r) ==
    /\ at[r] \in {"admit", "parked"} /\ HasSlot(r)
    /\ owners' = [owners EXCEPT ![PoolOf(r)] = @ \cup {r}]
    /\ Go(r, "pick")
    /\ UNCHANGED <<attempts, client, ledger, inflight, listed>>

Park(r) ==
    /\ at[r] = "admit" /\ ~HasSlot(r) /\ Go(r, "parked")
    /\ UNCHANGED <<attempts, client, ledger, owners, inflight, listed>>

AdmitRefused(r) ==
    /\ at[r] \in {"admit", "parked"} /\ ~HasSlot(r)
    /\ Advance(r, "failed")
    /\ UNCHANGED <<node, client, ledger, owners, inflight, listed>>

\* The client of a parked request leaves with the slot already in its channel.
LostInHandOver(r) ==
    /\ at[r] = "parked" /\ HasSlot(r)
    /\ owners' = [owners EXCEPT ![PoolOf(r)] = @ \cup {r}]
    /\ Go(r, "lost")
    /\ UNCHANGED <<attempts, client, ledger, inflight, listed>>

\* nodes_for, without the excluded nodes.
Eligible(r, role) ==
    {n \in listed \ tried[r] : Role[n] \in {role, "both"} /\ Model(r) \in Serves[n]}

\* What pick_excluding chooses from.
Candidates(r, role) == {n \in Eligible(r, role) : Model(r) \in Fits[n]}

\* pick_pair: a decode node other than the prefill node, whether the model fits
\* it or not; the prefill node itself if there is none.
Pairs(r) ==
    {pair \in Candidates(r, "prefill") \X Nodes :
        LET distinct == Eligible(r, "decode") \ {pair[1]}
        IN IF distinct = {} THEN pair[2] = pair[1] ELSE pair[2] \in distinct}

Picks(r) == IF IsSplit(r) THEN Pairs(r) ELSE {<<n, n>> : n \in Candidates(r, "both")}

\* dispatch_once up to its first await: plan, pick, track_node.
Pick(r) ==
    /\ at[r] = "pick"
    /\ \E pair \in Picks(r) :
          /\ node' = [node EXCEPT ![r] = pair[2]]
          /\ inflight' = [inflight EXCEPT ![pair[2]] = @ + 1]
          /\ Go(r, IF pair[1] # pair[2] THEN "prefill" ELSE "call")
    /\ UNCHANGED <<step, attempt, tried, client, ledger, owners, listed>>

\* The picked node cannot meet the deadline.
DeadlineRefuses(r) ==
    /\ at[r] = "pick" /\ ~IsEmbed(r)
    /\ \E pair \in Picks(r) : AttemptFails(r, pair[2])

\* Routing finds nothing: a peer cluster may take a chat request.
NoLocalNode(r) ==
    /\ at[r] = "pick" /\ Picks(r) = {}
    /\ \/ /\ ~IsEmbed(r) /\ Go(r, "peer")
          /\ UNCHANGED <<attempts, client, ledger, owners, inflight, listed>>
       \/ OpenFails(r)

Peer(r) ==
    /\ at[r] = "peer"
    /\ \/ /\ Go(r, IF IsLast(r) /\ r \in Streams THEN "spawned" ELSE "collect")
          /\ UNCHANGED <<attempts, client, ledger, owners, inflight, listed>>
       \/ OpenFails(r)

\* run_prefill: whatever comes of it, the decode call follows.
Prefill(r) ==
    /\ at[r] = "prefill" /\ Go(r, "call")
    /\ UNCHANGED <<attempts, client, ledger, owners, inflight, listed>>

\* connect_agent and Agent.Generate; a configuration error is not worth a retry.
Call(r) ==
    /\ at[r] = "call" /\ ~IsEmbed(r)
    /\ \/ Go(r, "first") /\ UNCHANGED <<attempts, client, ledger, owners, inflight, listed>>
       \/ AttemptFails(r, node[r])
       \/ OpenFails(r)

\* Agent.Embed: one vector per input is charged and returned; no connection,
\* any error and any other number of vectors end the request.
Embed(r) ==
    /\ at[r] = "call" /\ IsEmbed(r)
    /\ \/ /\ DropPermit(r) /\ DropGuard(r)
          /\ Charge(r) /\ sent' = sent \cup {r} /\ Go(r, "answered")
          /\ UNCHANGED <<step, attempt, tried, gone, listed>>
       \/ OpenFails(r)

\* first_token: a token; nothing in time, an early end or a server's error; or
\* an error that is the caller's.
FirstToken(r) ==
    /\ at[r] = "first"
    /\ \/ /\ Go(r, IF IsLast(r) /\ r \in Streams THEN "spawned" ELSE "collect")
          /\ UNCHANGED <<attempts, client, ledger, owners, inflight, listed>>
       \/ AttemptFails(r, node[r])
       \/ OpenFails(r)

-----------------------------------------------------------------------------
\* Mutants: an escalation that keeps the permit, and one that is
\* charged.
CollectedHoldsSlot(r) ==
    /\ at[r] = "collect" /\ ~IsLast(r)
    /\ DropGuard(r) /\ Advance(r, "failed")
    /\ UNCHANGED <<owners, client, ledger, listed>>

CollectedCharged(r) ==
    /\ at[r] = "collect" /\ ~IsLast(r)
    /\ Charge(r) /\ DropPermit(r) /\ DropGuard(r) /\ Advance(r, "failed")
    /\ UNCHANGED <<client, listed>>

\* collect drains the flow and drops it.  An early model's answer is accepted or
\* escalated; the last model's is charged and returned.
Collected(r) ==
    /\ at[r] = "collect"
    /\ DropPermit(r) /\ DropGuard(r)
    /\ \/ /\ r \notin Streams
          /\ Charge(r) /\ sent' = sent \cup {r} /\ Go(r, "answered")
          /\ UNCHANGED <<step, attempt, tried, gone>>
       \/ /\ r \in Streams /\ Go(r, "emit")
          /\ UNCHANGED <<step, attempt, tried, client, ledger>>
       \/ /\ ~IsLast(r) /\ Advance(r, "failed")
          /\ UNCHANGED <<client, ledger>>
    /\ UNCHANGED listed

CollectFails(r) == at[r] = "collect" /\ OpenFails(r)

\* emit_generated: the accepted answer of an early model, as a stream.
Emit(r) ==
    /\ at[r] = "emit"
    /\ sent' = IF r \in gone THEN sent ELSE sent \cup {r}
    /\ Charge(r) /\ Go(r, "answered")
    /\ UNCHANGED <<attempts, gone, owners, inflight, listed>>

\* pump sends the role first; a client that is gone by then is not charged.
PumpBegins(r) ==
    /\ at[r] = "spawned"
    /\ \/ r \notin gone /\ Go(r, "pump") /\ UNCHANGED <<node, owners, inflight>>
       \/ r \in gone /\ DropPermit(r) /\ DropGuard(r) /\ Go(r, "gone")
    /\ UNCHANGED <<step, attempt, tried, client, ledger, listed>>

PumpToken(r) ==
    /\ at[r] = "pump" /\ r \notin gone
    /\ sent' = sent \cup {r}
    /\ UNCHANGED <<at, attempts, gone, ledger, owners, inflight, listed>>

\* The stream ends, fails, or meets a client that is gone: settle, then the flow
\* is dropped.
PumpEnds(r) ==
    /\ at[r] = "pump"
    /\ Charge(r) /\ DropPermit(r) /\ DropGuard(r) /\ Go(r, "answered")
    /\ UNCHANGED <<step, attempt, tried, client, listed>>

\* A client that disconnects drops the handler's future with all it holds; a
\* spawned pump only finds out when it sends.
Disconnect(r) ==
    \/ /\ at[r] \in Handler
       /\ IF at[r] \in {"admit", "parked"} THEN UNCHANGED <<owners, node, inflight>>
                                         ELSE DropPermit(r) /\ DropGuard(r)
       /\ Go(r, "gone")
       /\ UNCHANGED <<step, attempt, tried, client, ledger, listed>>
    \/ /\ at[r] \in {"spawned", "pump", "emit"} /\ r \notin gone
       /\ gone' = gone \cup {r}
       /\ UNCHANGED <<at, attempts, sent, ledger, owners, inflight, listed>>

\* The watcher lists or unlists a node.
Relist(n) ==
    /\ listed' = IF n \in listed THEN listed \ {n} ELSE listed \cup {n}
    /\ UNCHANGED <<at, attempts, client, ledger, owners, inflight>>

Open(r) ==
    \/ Admit(r) \/ Park(r) \/ AdmitRefused(r)
    \/ Pick(r) \/ DeadlineRefuses(r) \/ NoLocalNode(r) \/ Peer(r)
    \/ Prefill(r) \/ Call(r) \/ Embed(r) \/ FirstToken(r)

Answer(r) ==
    Collected(r) \/ CollectFails(r) \/ Emit(r) \/ PumpBegins(r) \/ PumpToken(r) \/ PumpEnds(r)

Next ==
    \/ \E r \in Requests :
          \/ Begin(r) \/ CarbonRefuses(r) \/ Open(r) \/ Answer(r)
          \/ LostInHandOver(r) \/ Disconnect(r)
    \/ \E n \in Nodes : Relist(n)

Spec == Init /\ [][Next]_vars

\* Handlers are polled, timers fire, and engines end the streams they began.
LiveSpec == Spec /\ \A r \in Requests : WF_vars(Open(r)) /\ WF_vars(Answer(r))

-----------------------------------------------------------------------------
\* A request holds an admission slot and counts on a node exactly while it is
\* being served there: no retry, escalation, failure or disconnect leaks a slot
\* or a count, or gives one back twice, but for the slot lost in a hand-over.
HeldWhileServed ==
    /\ \A p \in Pools :
          owners[p] = {r \in Requests : at[r] \in Admitted \cup {"lost"} /\ PoolOf(r) = p}
    /\ \A n \in Nodes :
          inflight[n] = Cardinality({r \in Requests : at[r] \in OnNode /\ node[r] = n})

\* Each attempt for a model goes to a node that has not failed it yet, so the
\* attempts reach as many nodes as there are attempts.
FreshNodeEachAttempt ==
    \A r \in Requests :
       /\ at[r] \in OnNode => node[r] \notin tried[r]
       /\ at[r] \in Admitted => Cardinality(tried[r]) = attempt[r] - 1

\* A client that got text from the model it was given is charged, once; one that
\* got an error is not, whatever the models tried before have produced.
ChargedOnce ==
    \A r \in Requests :
       /\ charged[r] <= 1
       /\ at[r] \in Ends /\ r \in sent => charged[r] = 1
       /\ at[r] \in {"refused", "failed"} => charged[r] = 0

\* Every request that was begun ends, though nodes fail, come and go for ever.
EveryRequestEnds == \A r \in Requests : at[r] = "admit" ~> at[r] \in Ends

=============================================================================
