------------------------------ MODULE KvDaemon ------------------------------
(***************************************************************************)
(* A cgn-kvcached daemon: the store of module KvStore behind its gRPC      *)
(* service (grpc.rs) and its QUIC endpoint (transport.rs), and one peer    *)
(* daemon it pushes blocks to and pulls blocks from, in both directions.   *)
(* A transfer is a connection of its own: a request frame, the receiver's  *)
(* step, a reply frame.  The connection may be lost between any two of     *)
(* them.  The peer runs the same program and is seen through its RAM tier. *)
(***************************************************************************)
EXTENDS KvStore

CONSTANT MaxBlock   \* MAX_BLOCK_BYTES: the largest body accepted on the wire

ASSUME WireLimit == MaxBlock \in Nat

VARIABLES
    peer,     \* blocks in the peer's RAM tier
    made,     \* blocks some client has computed and put, here or at the peer
    linked,   \* the two daemons' security policies let a handshake succeed
    wire      \* per client: the transfer it is engaged in

remote == <<peer, made, linked, wire>>
all == <<vars, remote>>

-----------------------------------------------------------------------------
(* Security policy and handshake.                                          *)
Configs == [require_mtls : BOOLEAN, files : BOOLEAN, loopback : BOOLEAN, allow_insecure : BOOLEAN]

FromConfig(cfg) ==
    CASE cfg.require_mtls /\ cfg.files -> "mtls"
      [] cfg.require_mtls /\ ~cfg.files -> "refused"
      [] ~cfg.require_mtls /\ (cfg.loopback \/ cfg.allow_insecure) -> "insecure"
      [] OTHER -> "refused"

\* What each end shows: the cluster certificate under mTLS, otherwise a
\* self-signed one as server and none as client.
ServerShows(policy) == IF policy = "mtls" THEN "cluster" ELSE "self-signed"
ClientShows(policy) == IF policy = "mtls" THEN "cluster" ELSE "none"
ServerAccepts(policy, shown) == policy = "mtls" => shown = "cluster"
ClientAccepts(policy, shown) == policy = "mtls" => shown = "cluster"

Handshake(client_, server_) ==
    /\ ServerAccepts(server_, ClientShows(client_))
    /\ ClientAccepts(client_, ServerShows(server_))

-----------------------------------------------------------------------------
(* Frames and transfers.                                                   *)
Ops == {"none", "pull", "push", "serve", "receive"}
Steps == {"none", "sent", "replied", "storing"}
NoTransfer == [op |-> "none", at |-> "none", block |-> CHOOSE b \in Blocks : TRUE, body |-> FALSE]

Doing(c, op, step) == wire[c].op = op /\ wire[c].at = step
Free(c) == At(c, "idle") /\ wire[c] = NoTransfer
End(c) == wire' = [wire EXCEPT ![c] = NoTransfer]

Wire(c, op, step, b, body) ==
    wire' = [wire EXCEPT ![c] = [op |-> op, at |-> step, block |-> b, body |-> body]]

\* put_ram on behalf of a transfer.
Store(c, b) == client' = [client EXCEPT ![c] = [at |-> "insert", block |-> b, prev |-> FALSE]]

DaemonInit ==
    /\ Init
    /\ peer \in SUBSET Blocks /\ made = peer
    /\ \E mine, theirs \in {FromConfig(cfg) : cfg \in Configs} :
          /\ mine # "refused"
          /\ linked = (theirs # "refused" /\ Handshake(mine, theirs) /\ Handshake(theirs, mine))
    /\ wire = [c \in Clients |-> NoTransfer]

\* PutBlock and Promote, on the local store.
PutBlock(c, b) ==
    /\ Free(c) /\ Put(c, b)
    /\ made' = made \cup {b}
    /\ UNCHANGED <<peer, linked, wire>>

PromoteBlock(c, b) ==
    /\ Free(c) /\ Promote(c, b)
    /\ UNCHANGED remote

\* Pull: connect and ask.  Without a handshake the call answers 14 at once.
Pull(c, b) ==
    /\ Free(c) /\ linked /\ Call
    /\ Wire(c, "pull", "sent", b, FALSE)
    /\ UNCHANGED <<memory, disk, client, task, faults, crashes, peer, made, linked>>

\* The peer's handle_connection: its RAM tier only; a miss is an empty body.
PeerReplies(c) ==
    /\ Doing(c, "pull", "sent")
    /\ Wire(c, "pull", "replied", wire[c].block, wire[c].block \in peer)
    /\ UNCHANGED <<vars, peer, made, linked>>

\* Mutant: an empty reply is stored like any other.
PullStoresMiss(c) ==
    /\ Doing(c, "pull", "replied")
    /\ Store(c, wire[c].block)
    /\ Wire(c, "pull", "storing", wire[c].block, wire[c].body)
    /\ UNCHANGED <<memory, disk, task, past, peer, made, linked>>

\* An oversized reply answers 14, a miss answers 5 and stores nothing.
PullArrives(c) ==
    /\ Doing(c, "pull", "replied")
    /\ IF wire[c].body /\ Size[wire[c].block] <= MaxBlock
         THEN /\ Store(c, wire[c].block)
              /\ Wire(c, "pull", "storing", wire[c].block, TRUE)
         ELSE End(c) /\ client' = client
    /\ UNCHANGED <<memory, disk, task, past, peer, made, linked>>

\* Push: the bytes are taken from the RAM tier (a block that is not resident
\* answers 5), so that a later eviction does not matter.
Push(c, b) ==
    /\ Free(c) /\ linked /\ b \in ram /\ Call
    /\ Wire(c, "push", "sent", b, TRUE)
    /\ UNCHANGED <<memory, disk, client, task, faults, crashes, peer, made, linked>>

\* The peer stores the body and acknowledges; an oversized one ends the
\* connection.
PeerStores(c) ==
    /\ Doing(c, "push", "sent") /\ Size[wire[c].block] <= MaxBlock
    /\ peer' = peer \cup {wire[c].block}
    /\ Wire(c, "push", "replied", wire[c].block, TRUE)
    /\ UNCHANGED <<vars, made, linked>>

PushAcked(c) ==
    /\ Doing(c, "push", "replied")
    /\ End(c)
    /\ UNCHANGED <<vars, peer, made, linked>>

\* KvHandoff of the agent, by direction.
KvHandoff(c, b, direction) == IF direction = "pull" THEN Pull(c, b) ELSE Push(c, b)

-----------------------------------------------------------------------------
(* handle_connection for the peer's pulls and pushes.                      *)
ServePull(c, b) ==
    /\ Free(c) /\ linked /\ Call
    /\ Wire(c, "serve", "replied", b, b \in ram)
    /\ UNCHANGED <<memory, disk, client, task, faults, crashes, peer, made, linked>>

PeerReceives(c) ==
    /\ Doing(c, "serve", "replied")
    /\ peer' = IF wire[c].body /\ Size[wire[c].block] <= MaxBlock
                 THEN peer \cup {wire[c].block} ELSE peer
    /\ End(c)
    /\ UNCHANGED <<vars, made, linked>>

ServePush(c, b) ==
    /\ Free(c) /\ linked /\ b \in peer /\ Size[b] <= MaxBlock /\ Call
    /\ Store(c, b)
    /\ Wire(c, "receive", "storing", b, TRUE)
    /\ UNCHANGED <<memory, disk, task, faults, crashes, peer, made, linked>>

\* put_ram returns.  A pull then answers 0, or 13; a push is acknowledged, or
\* its connection ends with the error and no acknowledgement.
StoreReturns(c) ==
    /\ wire[c].at \in {"none", "storing"}
    /\ IndexRam(c)
    /\ IF wire[c].op = "receive" /\ faults' = faults
         THEN Wire(c, "receive", "replied", wire[c].block, TRUE)
         ELSE End(c)
    /\ UNCHANGED <<peer, made, linked>>

PeerAcked(c) ==
    /\ Doing(c, "receive", "replied")
    /\ End(c)
    /\ UNCHANGED <<vars, peer, made, linked>>

\* Mutant: no idle timeout, a lost connection is waited for.
WaitForEver(c) ==
    /\ wire[c].at \in {"sent", "replied"}
    /\ UNCHANGED all

\* Reset, closed, or silent for the idle timeout: the call answers 14.
ConnectionLost(c) ==
    /\ wire[c].at \in {"sent", "replied"}
    /\ End(c)
    /\ UNCHANGED <<vars, peer, made, linked>>

\* The peer's eviction task.
PeerSpills(b) ==
    /\ b \in peer
    /\ peer' = peer \ {b}
    /\ UNCHANGED <<vars, made, linked, wire>>

DaemonCrash ==
    /\ Crash
    /\ wire' = [c \in Clients |-> NoTransfer]
    /\ UNCHANGED <<peer, made, linked>>

-----------------------------------------------------------------------------
Local(c) == (Read(c) \/ Insert(c) \/ Count(c) \/ Discount(c)) /\ UNCHANGED remote

Transfer(c) ==
    \/ PeerReplies(c) \/ PullArrives(c) \/ PeerStores(c) \/ PushAcked(c)
    \/ PeerReceives(c) \/ PeerAcked(c) \/ ConnectionLost(c)

Request(c, b) ==
    \/ PutBlock(c, b) \/ PromoteBlock(c, b)
    \/ \E direction \in {"pull", "push"} : KvHandoff(c, b, direction)
    \/ ServePull(c, b) \/ ServePush(c, b)

DaemonNext ==
    \/ \E c \in Clients : Local(c) \/ StoreReturns(c) \/ Transfer(c)
    \/ \E c \in Clients, b \in Blocks : Request(c, b)
    \/ EvictPass /\ UNCHANGED remote
    \/ \E b \in Blocks : (Age(b) /\ UNCHANGED remote) \/ PeerSpills(b)
    \/ DaemonCrash

DaemonSpec == DaemonInit /\ [][DaemonNext]_all

\* The eviction task runs for ever, requests are served, and an idle
\* connection times out.
DaemonLiveSpec ==
    /\ DaemonSpec
    /\ WF_all(EvictPass /\ UNCHANGED remote)
    /\ \A c \in Clients : WF_all(Local(c) \/ StoreReturns(c) \/ Transfer(c))

-----------------------------------------------------------------------------
\* The store neither loses nor invents a block.  What it holds, in RAM or in its
\* file, is lost only with the process or to the TTL pass that has it on its list:
\* no interleaving of a spill, a failed write, a replacing put and a promotion
\* drops the only copy.  And what either daemon holds was computed and put by a
\* client: no miss, lost connection, spill between lookup and transfer, or restart
\* makes a daemon store (and later hand on) a block nobody produced.
BlocksKept == OnlyTtlDrops /\ [](ram \cup ssd \cup peer \subseteq made)

\* Every pull and push ends, on either side, whatever happens to the
\* connection, to the peer or to the store's index.
TransfersEnd == \A c \in Clients : wire[c] # NoTransfer ~> wire[c] = NoTransfer

=============================================================================
