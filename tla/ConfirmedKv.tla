----------------------------- MODULE ConfirmedKv -----------------------------
(***************************************************************************)
(* The confirmed-KV feed: prefix digests that a completed generation has   *)
(* put in an engine's cache travel from the agent's queue                  *)
(* (grpc.rs, health.rs) as lease-bound etcd keys to a router's prefix      *)
(* index (watcher.rs, prefix.rs).  One agent, one router.                  *)
(*                                                                         *)
(* The agent publishes in sessions: each has its own lease and its own     *)
(* list of published keys; the keys of a session that broke live until its *)
(* lease expires.                                                          *)
(***************************************************************************)
EXTENDS Integers, Sequences, FiniteSets, Functions

CONSTANTS
    Digests,
    MaxKeys,       \* KV_CONFIRMED_MAX_KEYS
    MaxPending,    \* bound on queued digests
    MaxSessions,   \* bound on publisher sessions
    MaxEvents,     \* bound on watch events in flight
    MaxFaults,     \* bound on writes to etcd that fail
    NoLease

ASSUME ConfirmedConstants ==
    /\ MaxKeys \in Nat \ {0} /\ MaxPending \in Nat \ {0}
    /\ MaxSessions \in Nat \ {0} /\ MaxEvents \in Nat \ {0} /\ MaxFaults \in Nat

VARIABLES
    queue,      \* Supervisor.kv_confirmed
    session,    \* current session; its number is its lease
    at,         \* where the session is: "beat", "put", "evict", "broken"
    batch,      \* the digests taken and not yet looked at
    published,  \* the session's published keys, oldest first
    target,     \* how many of them may stay
    key,        \* etcd: per digest, the lease its key is bound to, or NoLease
    events,     \* watch events on their way to the router
    claims,     \* the digests the router's index claims for this node
    faults      \* writes to etcd that have failed

agent == <<queue, session, at, batch, published, target>>
feedVars == <<agent, key, events, claims, faults>>

Sessions == 1 .. MaxSessions
Event == [digest : Digests, put : BOOLEAN]

FeedInit ==
    /\ queue = <<>> /\ batch = <<>> /\ published = <<>>
    /\ session = 1 /\ at = "beat" /\ target = MaxKeys
    /\ key = [d \in Digests |-> NoLease]
    /\ events = <<>> /\ claims = {} /\ faults = 0

-----------------------------------------------------------------------------
\* A write to etcd fails.
Fault == faults < MaxFaults /\ faults' = faults + 1

\* A generation completes: its prompt's digest is queued.
Complete(d) ==
    /\ Len(queue) + Len(batch) < MaxPending
    /\ queue' = Append(queue, d)
    /\ UNCHANGED <<session, at, batch, published, target, key, events, claims, faults>>

\* publish_kv_confirmed takes the whole queue.
TakeQueue ==
    /\ at = "beat" /\ at' = "put"
    /\ batch' = queue /\ queue' = <<>>
    /\ UNCHANGED <<session, published, target, key, events, claims, faults>>

\* A digest whose key this session has published is skipped.
SkipKnown ==
    /\ at = "put" /\ batch # <<>> /\ Head(batch) \in Range(published)
    /\ batch' = Tail(batch)
    /\ UNCHANGED <<queue, session, at, published, target, key, events, claims, faults>>

\* Mutant: a key is listed again when it is confirmed again.
PutKeyAgain ==
    LET d == Head(batch) IN
    /\ at = "put" /\ batch # <<>> /\ Len(events) < MaxEvents
    /\ key' = [key EXCEPT ![d] = session]
    /\ events' = Append(events, [digest |-> d, put |-> TRUE])
    /\ published' = Append(published, d)
    /\ batch' = Tail(batch)
    /\ UNCHANGED <<queue, session, at, target, claims, faults>>

PutKey ==
    LET d == Head(batch) IN
    /\ at = "put" /\ batch # <<>> /\ d \notin Range(published) /\ Len(events) < MaxEvents
    /\ key' = [key EXCEPT ![d] = session]
    /\ events' = Append(events, [digest |-> d, put |-> TRUE])
    /\ published' = Append(published, d)
    /\ batch' = Tail(batch)
    /\ UNCHANGED <<queue, session, at, target, claims, faults>>

\* A put that fails leaves the function; the digests taken go with it.
PutFails ==
    /\ Fault /\ at = "put" /\ batch # <<>> /\ Head(batch) \notin Range(published)
    /\ batch' = <<>> /\ at' = "beat"
    /\ UNCHANGED <<queue, session, published, target, key, events, claims>>

\* Under KV pressure the newer half of the keys may stay, however many they are;
\* MaxKeys otherwise.
ChooseTarget ==
    /\ at = "put" /\ batch = <<>> /\ at' = "evict"
    /\ target' \in {MaxKeys, Len(published) \div 2}
    /\ UNCHANGED <<queue, session, batch, published, key, events, claims, faults>>

\* The oldest key leaves the list, then etcd; the delete may fail in between.
EvictKey ==
    LET d == Head(published) IN
    /\ at = "evict" /\ Len(published) > target /\ Len(events) < MaxEvents
    /\ published' = Tail(published)
    /\ \/ /\ key' = [key EXCEPT ![d] = NoLease]
          /\ events' = IF key[d] = NoLease THEN events
                       ELSE Append(events, [digest |-> d, put |-> FALSE])
          /\ at' = at /\ faults' = faults
       \/ Fault /\ at' = "beat" /\ UNCHANGED <<key, events>>
    /\ UNCHANGED <<queue, session, batch, target, claims>>

EndPublish ==
    /\ at = "evict" /\ Len(published) <= target
    /\ at' = "beat"
    /\ UNCHANGED <<queue, session, batch, published, target, key, events, claims, faults>>

\* The keep-alive fails; a new session starts with an empty list.
Break ==
    /\ at = "beat" /\ session < MaxSessions
    /\ at' = "broken"
    /\ UNCHANGED <<queue, session, batch, published, target, key, events, claims, faults>>

Reconnect ==
    /\ at = "broken" /\ at' = "beat"
    /\ session' = session + 1 /\ published' = <<>>
    /\ UNCHANGED <<queue, batch, target, key, events, claims, faults>>

\* etcd drops the keys bound to the lease of a session that is over.
ExpireKey(d) ==
    /\ key[d] \in Sessions /\ (key[d] < session \/ at = "broken") /\ Len(events) < MaxEvents
    /\ key' = [key EXCEPT ![d] = NoLease]
    /\ events' = Append(events, [digest |-> d, put |-> FALSE])
    /\ UNCHANGED <<agent, claims, faults>>

\* Mutant: deletions are ignored.
MirrorPutsOnly ==
    /\ events # <<>>
    /\ events' = Tail(events)
    /\ claims' = IF Head(events).put THEN claims \cup {Head(events).digest} ELSE claims
    /\ UNCHANGED <<agent, key, faults>>

\* The router's kv-confirmed task mirrors an event into the index.
Mirror ==
    /\ events # <<>>
    /\ events' = Tail(events)
    /\ claims' = IF Head(events).put THEN claims \cup {Head(events).digest}
                                     ELSE claims \ {Head(events).digest}
    /\ UNCHANGED <<agent, key, faults>>

\* The index drops a claim that is 60 s old, or all of the node's at a new epoch.
Forget ==
    /\ claims # {}
    /\ \E d \in claims : claims' \in {claims \ {d}, {}}
    /\ UNCHANGED <<agent, key, events, faults>>

Publish ==
    \/ TakeQueue \/ SkipKnown \/ PutKey \/ PutFails
    \/ ChooseTarget \/ EvictKey \/ EndPublish \/ Reconnect

FeedNext ==
    \/ Publish \/ Break \/ Mirror \/ Forget
    \/ \E d \in Digests : Complete(d) \/ ExpireKey(d)

FeedSpec == FeedInit /\ [][FeedNext]_feedVars

\* The heartbeat loop, the lease and the watch make progress.
FeedLiveSpec ==
    /\ FeedSpec /\ WF_feedVars(Publish) /\ WF_feedVars(Mirror)
    /\ \A d \in Digests : WF_feedVars(ExpireKey(d))

-----------------------------------------------------------------------------
\* "Re-confirmed digests must not be queued twice": the session's list names a
\* key once, and each key it names is in etcd under the session's lease, so an
\* eviction never deletes a key that a newer entry still tracks.
TrackedKeysLive ==
    /\ IsInjective(published)
    /\ \A i \in DOMAIN published : at # "broken" => key[published[i]] = session

\* The feed delivers, across broken sessions, full batches and evictions: as long
\* as no write to etcd fails, a digest that was queued gets its key; and a key
\* deleted for good (evicted, or expired with its lease) ends unclaimed in the
\* router.
FeedDelivers ==
    \A d \in Digests :
       /\ [](faults = 0) => (d \in Range(queue) ~> key[d] # NoLease)
       /\ <>[](key[d] = NoLease) => <>[](d \notin claims)

=============================================================================
