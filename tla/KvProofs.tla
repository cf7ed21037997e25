------------------------------ MODULE KvProofs ------------------------------
(***************************************************************************)
(* Proofs about KvDaemon, for any blocks, clients, faults and crashes: the *)
(* store neither loses nor invents a block, and the byte counter of its    *)
(* RAM tier accounts for every update under way.                           *)
(*                                                                         *)
(* Not to lose one rests on the order of a spill, file before eviction,    *)
(* and on the TTL pass and the spill being one task.  Not to invent one    *)
(* rests on every way a block can be on: a client about to insert it, a    *)
(* reply with a body, a push, a victim being written.                      *)
(***************************************************************************)
EXTENDS KvDaemon, FiniteSetTheorems, TLAPS

\* The larger steps need more time than the backends have by default.
USE SMTT(30), ZenonT(30)

Client == [at : ClientStep, block : Blocks, prev : BOOLEAN]
Link == [op : Ops, at : Steps, block : Blocks, body : BOOLEAN]

Shapes ==
    /\ client \in [Clients -> Client]
    /\ wire \in [Clients -> Link]
    /\ pass \in [at : PassStep, block : Blocks]

\* What is on its way into a tier was made.
OnTheWay ==
    /\ \A c \in Clients :
          /\ client[c].at = "insert" => client[c].block \in made
          /\ wire[c].body = TRUE => wire[c].block \in made
          /\ wire[c].op \in {"push", "receive"} => wire[c].body = TRUE
    /\ pass.at = "write" => pass.block \in made

Kept == pass.at = "evict" => pass.block \in ssd

NothingInvented == ram \cup ssd \cup peer \subseteq made

Known == crashes \in Nat /\ made \subseteq Blocks /\ todo \subseteq Blocks /\ old \subseteq Blocks

BlockInv == Shapes /\ OnTheWay /\ Kept /\ NothingInvented

\* What a step may lose.
Loses == \A b \in ram \cup ssd :
            \/ b \in ram' \cup ssd'
            \/ crashes' # crashes
            \/ pass.at \in {"drop", "unlink"} /\ pass.block = b

-----------------------------------------------------------------------------
LEMMA IdleShapes == IdleClient \in Client /\ NoTransfer \in Link
                    /\ IdlePass \in [at : PassStep, block : Blocks]
                    /\ IdleClient.at = "idle" /\ IdlePass.at = "idle"
                    /\ NoTransfer.op = "none" /\ NoTransfer.body = FALSE
<1>1. (CHOOSE b \in Blocks : TRUE) \in Blocks
  BY KvConstants, Zenon
<1>. QED
  BY <1>1, Zenon DEF IdleClient, NoTransfer, IdlePass, Client, Link, ClientStep, PassStep, Ops, Steps

\* One client's call goes on; only the transfer of the same client may move.
LEMMA ClientMoves ==
    ASSUME BlockInv, NEW c \in Clients, NEW s \in Client, NEW w \in Link,
           client' = [client EXCEPT ![c] = s], wire' = [wire EXCEPT ![c] = w],
           UNCHANGED <<pass, ssd>>, made \subseteq made',
           ram' \cup peer' \subseteq made', ram \subseteq ram',
           s.at = "insert" => s.block \in made',
           w.body = TRUE => w.block \in made',
           w.op \in {"push", "receive"} => w.body = TRUE
    PROVE  BlockInv' /\ Loses
<1>1. Shapes' /\ Kept' /\ Loses
  BY Zenon DEF BlockInv, Shapes, Kept, Loses
<1>2. OnTheWay'
  BY Zenon DEF BlockInv, Shapes, OnTheWay
<1>3. NothingInvented'
  BY Zenon DEF BlockInv, NothingInvented
<1>. QED
  BY <1>1, <1>2, <1>3, Zenon DEF BlockInv

\* The eviction task goes on.
LEMMA TaskMoves ==
    ASSUME BlockInv, NEW s \in [at : PassStep, block : Blocks], pass' = s,
           UNCHANGED <<client, wire, peer, made>>,
           ram' \subseteq ram, ssd' \subseteq made,
           s.at = "write" => s.block \in made,
           s.at = "evict" => s.block \in ssd'
    PROVE  BlockInv'
BY Zenon DEF BlockInv, Shapes, OnTheWay, Kept, NothingInvented

-----------------------------------------------------------------------------
\* The calls of a client: the store's own steps, with their result spelt out.
LEMMA LocalKeeps == ASSUME BlockInv, NEW c \in Clients, Local(c) PROVE BlockInv' /\ Loses
<1>. DEFINE s(step, p) == [at |-> step, block |-> client[c].block, prev |-> p]
<1>0. /\ client[c] \in Client /\ wire[c] \in Link /\ client \in [Clients -> Client]
      /\ client[c].block \in Blocks /\ client[c].prev \in BOOLEAN
      /\ ram \cup ssd \cup peer \subseteq made
      /\ wire[c].body = TRUE => wire[c].block \in made
      /\ wire[c].op \in {"push", "receive"} => wire[c].body = TRUE
  BY Zenon DEF BlockInv, Shapes, OnTheWay, NothingInvented, Client
<1>1. wire' = [wire EXCEPT ![c] = wire[c]] /\ UNCHANGED <<peer, made, pass, ssd>>
  BY Zenon DEF Local, remote, Read, Insert, Count, Discount, disk, task, BlockInv, Shapes
<1>2. \A step \in ClientStep, p \in BOOLEAN : s(step, p) \in Client
  BY <1>0, Zenon DEF Client
<1>3. CASE Read(c) /\ client[c].block \in ssd
  <2>1. client' = [client EXCEPT ![c] = s("insert", client[c].prev)]
    BY <1>0, <1>3, Zenon DEF Read, Go, Client
  <2>2. UNCHANGED ram
    BY <1>3, Zenon DEF Read, memory
  <2>. QED
    BY <1>0, <1>1, <1>2, <1>3, <2>1, <2>2, ClientMoves, Zenon DEF ClientStep
<1>4. CASE Read(c) /\ client[c].block \notin ssd
  <2>1. client' = [client EXCEPT ![c] = IdleClient] /\ UNCHANGED ram
    BY <1>4, Zenon DEF Read, memory
  <2>. QED
    BY <1>0, <1>1, <2>1, IdleShapes, ClientMoves, Zenon
<1>5. CASE Insert(c)
  <2>1. (client[c].block \in ram) \in BOOLEAN
    OBVIOUS
  <2>2. client' = [client EXCEPT ![c] = s("count", client[c].block \in ram)]
    BY <1>0, <1>5, <2>1, Zenon DEF Insert, Client
  <2>3. ram' = ram \cup {client[c].block} /\ client[c].block \in made
    BY <1>5, Zenon DEF Insert, At, BlockInv, OnTheWay
  <2>4. s("count", client[c].block \in ram) \in Client
    BY <1>2, <2>1, Zenon DEF ClientStep
  <2>. QED
    BY <1>0, <1>1, <2>2, <2>3, <2>4, ClientMoves, Zenon
<1>6. CASE Count(c) \/ Discount(c)
  <2>1. PICK step \in {"discount", "index"} :
           client' = [client EXCEPT ![c] = s(step, client[c].prev)]
    BY <1>0, <1>6 DEF Count, Discount, Go, Client
  <2>2. UNCHANGED ram
    BY <1>6, Zenon DEF Count, Discount
  <2>. QED
    BY <1>0, <1>1, <1>2, <2>1, <2>2, ClientMoves, Zenon DEF ClientStep
<1>. QED
  BY <1>3, <1>4, <1>5, <1>6, Zenon DEF Local

\* put_ram returns, and a transfer goes on.
LEMMA StoreKeeps == ASSUME BlockInv, NEW c \in Clients, StoreReturns(c)
                    PROVE  BlockInv' /\ Loses
<1>0. /\ wire[c] \in Link /\ wire[c].block \in Blocks
      /\ ram \cup ssd \cup peer \subseteq made
  BY Zenon DEF BlockInv, Shapes, NothingInvented, Link
<1>1. /\ client' = [client EXCEPT ![c] = IdleClient]
      /\ UNCHANGED <<pass, ssd, ram, peer, made>>
  BY Zenon DEF StoreReturns, IndexRam, memory, task
<1>2. CASE wire[c].op = "receive" /\ faults' = faults
  <2>. DEFINE w == [op |-> "receive", at |-> "replied", block |-> wire[c].block, body |-> TRUE]
  <2>1. wire' = [wire EXCEPT ![c] = w] /\ w \in Link
    BY <1>0, <1>2, Zenon DEF StoreReturns, Wire, Link, Ops, Steps
  <2>2. wire[c].block \in made
    BY <1>2, Zenon DEF StoreReturns, BlockInv, OnTheWay
  <2>. QED
    BY <1>0, <1>1, <2>1, <2>2, IdleShapes, ClientMoves, Zenon
<1>3. CASE ~(wire[c].op = "receive" /\ faults' = faults)
  <2>1. wire' = [wire EXCEPT ![c] = NoTransfer]
    BY <1>3, Zenon DEF StoreReturns, End
  <2>. QED
    BY <1>0, <1>1, <2>1, IdleShapes, ClientMoves, Zenon
<1>. QED
  BY <1>2, <1>3, Zenon

LEMMA TransferKeeps == ASSUME BlockInv, NEW c \in Clients, Transfer(c)
                       PROVE  BlockInv' /\ Loses
<1>. DEFINE w(op, step, body) == [op |-> op, at |-> step, block |-> wire[c].block, body |-> body]
<1>0. /\ client[c] \in Client /\ wire[c] \in Link /\ wire[c].block \in Blocks
      /\ ram \cup ssd \cup peer \subseteq made
      /\ client' = client => client' = [client EXCEPT ![c] = client[c]]
      /\ client[c].at = "insert" => client[c].block \in made
      /\ wire[c].body = TRUE => wire[c].block \in made
      /\ wire[c].op \in {"push", "receive"} => wire[c].body = TRUE
  BY Zenon DEF BlockInv, Shapes, NothingInvented, OnTheWay, Link
<1>1. UNCHANGED <<pass, ssd, ram, made>>
  BY Zenon DEF Transfer, PeerReplies, PullArrives, PeerStores, PushAcked, PeerReceives, PeerAcked,
         ConnectionLost, vars, memory, disk, task
<1>2. \A op \in Ops, step \in Steps, body \in BOOLEAN : w(op, step, body) \in Link
  BY <1>0, Zenon DEF Link
<1>3. CASE PeerReplies(c)
  <2>. DEFINE body == wire[c].block \in peer
  <2>1. body \in BOOLEAN
    OBVIOUS
  <2>2. wire' = [wire EXCEPT ![c] = w("pull", "replied", body)]
        /\ UNCHANGED <<client, peer>>
    BY <1>3, Zenon DEF PeerReplies, Wire, vars
  <2>3. body = TRUE => wire[c].block \in made
    BY <1>0, Zenon
  <2>4. w("pull", "replied", body) \in Link
    BY <1>2, <2>1, Zenon DEF Ops, Steps
  <2>. QED
    BY <1>0, <1>1, <2>2, <2>3, <2>4, ClientMoves, Zenon
<1>4. CASE PullArrives(c) /\ wire[c].body /\ Size[wire[c].block] <= MaxBlock
  <2>. DEFINE s == [at |-> "insert", block |-> wire[c].block, prev |-> FALSE]
  <2>1. client' = [client EXCEPT ![c] = s]
        /\ wire' = [wire EXCEPT ![c] = w("pull", "storing", TRUE)] /\ peer' = peer
    BY <1>4, Zenon DEF PullArrives, Store, Wire
  <2>2. wire[c].body = TRUE
    BY <1>0, <1>4, Zenon DEF Link
  <2>3. s \in Client /\ w("pull", "storing", TRUE) \in Link
    BY <1>0, <1>2, Zenon DEF Client, ClientStep, Ops, Steps
  <2>. QED
    BY <1>0, <1>1, <2>1, <2>2, <2>3, ClientMoves, Zenon
<1>5. CASE \/ PullArrives(c) /\ ~(wire[c].body /\ Size[wire[c].block] <= MaxBlock)
           \/ PushAcked(c) \/ PeerAcked(c) \/ ConnectionLost(c)
  <2>1. wire' = [wire EXCEPT ![c] = NoTransfer] /\ UNCHANGED <<client, peer>>
    BY <1>5, Zenon DEF PullArrives, PushAcked, PeerAcked, ConnectionLost, End, vars
  <2>. QED
    BY <1>0, <1>1, <2>1, IdleShapes, ClientMoves, Zenon
<1>6. CASE PeerStores(c)
  <2>1. wire' = [wire EXCEPT ![c] = w("push", "replied", TRUE)] /\ client' = client
        /\ peer' = peer \cup {wire[c].block} /\ wire[c].block \in made
    BY <1>0, <1>6, Zenon DEF PeerStores, Wire, Doing, vars
  <2>2. w("push", "replied", TRUE) \in Link
    BY <1>2, Zenon DEF Ops, Steps
  <2>. QED
    BY <1>0, <1>1, <2>1, <2>2, ClientMoves, Zenon
<1>7. CASE PeerReceives(c)
  <2>1. wire' = [wire EXCEPT ![c] = NoTransfer] /\ client' = client
    BY <1>7, Zenon DEF PeerReceives, End, vars
  <2>2. wire[c].body => wire[c].body = TRUE
    BY <1>0, Zenon DEF Link
  <2>3. peer' \subseteq made
    BY <1>0, <1>7, <2>2, Zenon DEF PeerReceives
  <2>. QED
    BY <1>0, <1>1, <2>1, <2>3, IdleShapes, ClientMoves, Zenon
<1>. QED
  BY <1>3, <1>4, <1>5, <1>6, <1>7, Zenon DEF Transfer

LEMMA RequestKeeps == ASSUME BlockInv, NEW c \in Clients, NEW b \in Blocks, Request(c, b)
                      PROVE  BlockInv' /\ Loses
<1>. DEFINE s(step) == [at |-> step, block |-> b, prev |-> FALSE]
            w(op, step, body) == [op |-> op, at |-> step, block |-> b, body |-> body]
<1>0. /\ client[c] \in Client /\ wire[c] \in Link
      /\ ram \cup ssd \cup peer \subseteq made
      /\ client' = client => client' = [client EXCEPT ![c] = client[c]]
      /\ wire' = wire => wire' = [wire EXCEPT ![c] = wire[c]]
      /\ client[c].at = "insert" => client[c].block \in made
      /\ wire[c].body = TRUE => wire[c].block \in made
      /\ wire[c].op \in {"push", "receive"} => wire[c].body = TRUE
  BY Zenon DEF BlockInv, Shapes, NothingInvented, OnTheWay
<1>1. UNCHANGED <<pass, ssd, ram, peer>>
  BY Zenon DEF Request, PutBlock, Put, PromoteBlock, Promote, KvHandoff, Pull, Push, ServePull, ServePush,
         remote, memory, disk, task
<1>2. /\ \A step \in ClientStep : s(step) \in Client
      /\ \A op \in Ops, step \in Steps, body \in BOOLEAN : w(op, step, body) \in Link
  BY Zenon DEF Client, Link
<1>3. CASE PutBlock(c, b)
  <2>1. client' = [client EXCEPT ![c] = s("insert")] /\ made' = made \cup {b} /\ wire' = wire
    BY <1>3, Zenon DEF PutBlock, Put
  <2>. QED
    BY <1>0, <1>1, <1>2, <2>1, ClientMoves, Zenon DEF ClientStep
<1>4. CASE PromoteBlock(c, b)
  <2>1. client' = [client EXCEPT ![c] = s("read")] /\ UNCHANGED <<made, wire>>
    BY <1>4, Zenon DEF PromoteBlock, Promote, remote
  <2>. QED
    BY <1>0, <1>1, <1>2, <2>1, ClientMoves, Zenon DEF ClientStep
<1>5. CASE Pull(c, b)
  <2>1. wire' = [wire EXCEPT ![c] = w("pull", "sent", FALSE)] /\ UNCHANGED <<client, made>>
    BY <1>5, Zenon DEF Pull, Wire
  <2>. QED
    BY <1>0, <1>1, <1>2, <2>1, ClientMoves, Zenon DEF Ops, Steps
<1>6. CASE Push(c, b)
  <2>1. wire' = [wire EXCEPT ![c] = w("push", "sent", TRUE)] /\ UNCHANGED <<client, made>>
        /\ b \in made
    BY <1>0, <1>6, Zenon DEF Push, Wire
  <2>. QED
    BY <1>0, <1>1, <1>2, <2>1, ClientMoves, Zenon DEF Ops, Steps
<1>7. CASE ServePull(c, b)
  <2>. DEFINE body == b \in ram
  <2>1. body \in BOOLEAN
    OBVIOUS
  <2>2. wire' = [wire EXCEPT ![c] = w("serve", "replied", body)] /\ UNCHANGED <<client, made>>
    BY <1>7, Zenon DEF ServePull, Wire
  <2>3. body = TRUE => b \in made
    BY <1>0, Zenon
  <2>4. w("serve", "replied", body) \in Link
    BY <1>2, <2>1, Zenon DEF Ops, Steps
  <2>. QED
    BY <1>0, <1>1, <2>2, <2>3, <2>4, ClientMoves, Zenon
<1>8. CASE ServePush(c, b)
  <2>1. /\ client' = [client EXCEPT ![c] = s("insert")] /\ made' = made /\ b \in made
        /\ wire' = [wire EXCEPT ![c] = w("receive", "storing", TRUE)]
    BY <1>0, <1>8, Zenon DEF ServePush, Store, Wire
  <2>2. s("insert") \in Client /\ w("receive", "storing", TRUE) \in Link
    BY <1>2, Zenon DEF ClientStep, Ops, Steps
  <2>. QED
    BY <1>0, <1>1, <2>1, <2>2, ClientMoves, Zenon
<1>. QED
  BY <1>3, <1>4, <1>5, <1>6, <1>7, <1>8, Zenon DEF Request, KvHandoff

-----------------------------------------------------------------------------
\* A spill has written the file before it evicts; the TTL pass may drop.
LEMMA EvictionKeeps == ASSUME BlockInv, Known, EvictPass, UNCHANGED remote
                       PROVE  BlockInv' /\ Loses
<1>. DEFINE s(step) == [at |-> step, block |-> pass.block]
<1>0. /\ pass \in [at : PassStep, block : Blocks] /\ pass.block \in Blocks
      /\ ram \cup ssd \cup peer \subseteq made
      /\ UNCHANGED <<client, wire, peer, made>>
      /\ \A step \in PassStep : s(step) \in [at : PassStep, block : Blocks]
      /\ \A step \in PassStep : PassGo(step) => pass' = s(step)
  BY Zenon DEF BlockInv, Shapes, NothingInvented, PassGo, remote, EvictPass, BeginPass, PickVictims,
         SpillStep, SpillNext, SpillWrite, SpillEvict, SpillUncount, SpillIndex, EndBatch,
         TtlStep, Scan, ForgetNext, EndPass, Drop, DropUncount, Unlink, Delete
<1>1. CASE \/ BeginPass \/ PickVictims \/ SpillUncount \/ SpillIndex \/ Scan \/ DropUncount
           \/ Delete
  <2>1. PICK step \in PassStep \ {"write", "evict"} : PassGo(step)
    BY <1>1, Zenon DEF BeginPass, PickVictims, SpillUncount, SpillIndex, Scan, DropUncount, Delete,
                PassStep
  <2>2. UNCHANGED <<ram, ssd>>
    BY <1>1, Zenon DEF BeginPass, PickVictims, SpillUncount, SpillIndex, Scan, DropUncount, Delete,
                memory, disk
  <2>. QED
    BY <1>0, <2>1, <2>2, TaskMoves, Zenon DEF Loses
<1>2. CASE EndBatch \/ EndPass
  <2>1. pass' \in {IdlePass, [IdlePass EXCEPT !.at = "batch"], [IdlePass EXCEPT !.at = "scan"]}
    BY <1>2, Zenon DEF EndBatch, EndPass
  <2>2. UNCHANGED <<ram, ssd>>
    BY <1>2, Zenon DEF EndBatch, EndPass, memory, disk
  <2>3. pass' \in [at : PassStep, block : Blocks] /\ pass'.at \in {"idle", "batch", "scan"}
    BY <2>1, IdleShapes, Zenon DEF PassStep
  <2>. QED
    BY <1>0, <2>2, <2>3, TaskMoves, Zenon DEF Loses
<1>3. CASE SpillNext
  <2>1. PICK b \in todo : pass' = IF b \in ram THEN [at |-> "write", block |-> b] ELSE pass
    BY <1>3, Zenon DEF SpillNext
  <2>2. UNCHANGED <<ram, ssd>> /\ pass.at = "spill"
    BY <1>3, Zenon DEF SpillNext, memory, disk, PassAt
  <2>3. CASE b \in ram
    <3>1. [at |-> "write", block |-> b] \in [at : PassStep, block : Blocks] /\ b \in made
      BY <1>0, <2>3, Zenon DEF PassStep, Known
    <3>. QED
      BY <1>0, <2>1, <2>2, <2>3, <3>1, TaskMoves, Zenon DEF Loses
  <2>4. CASE b \notin ram
    BY <1>0, <2>1, <2>2, <2>4, TaskMoves, Zenon DEF Loses
  <2>. QED
    BY <2>3, <2>4, Zenon
<1>4. CASE SpillWrite
  <2>1. /\ \/ ssd' = ssd \cup {pass.block} /\ pass' = s("evict")
           \/ ssd' = ssd /\ pass' = s("spill")
        /\ ram' = ram /\ pass.at = "write"
    BY <1>0, <1>4, Zenon DEF SpillWrite, memory, PassAt, PassStep
  <2>2. pass.block \in made
    BY <2>1, Zenon DEF BlockInv, OnTheWay
  <2>3. s("evict") \in [at : PassStep, block : Blocks] /\ s("spill") \in [at : PassStep, block : Blocks]
    BY <1>0, Zenon DEF PassStep
  <2>. QED
    BY <1>0, <2>1, <2>2, <2>3, TaskMoves, Zenon DEF Loses
<1>5. CASE SpillEvict \/ Drop
  <2>1. PICK step \in {"uncount", "index", "dropped", "unlink"} : pass' = s(step)
    BY <1>0, <1>5, Zenon DEF SpillEvict, Drop, PassStep
  <2>2. /\ ram' = ram \ {pass.block} /\ ssd' = ssd
        /\ pass.at = "drop" \/ pass.block \in ssd
    BY <1>5, Zenon DEF SpillEvict, Drop, disk, PassAt, BlockInv, Kept
  <2>3. s(step) \in [at : PassStep, block : Blocks]
    BY <1>0, Zenon DEF PassStep
  <2>. QED
    BY <1>0, <2>1, <2>2, <2>3, TaskMoves, Zenon DEF Loses
<1>6. CASE Unlink
  <2>1. PICK step \in {"delete", "forget"} : pass' = s(step)
    BY <1>0, <1>6, Zenon DEF Unlink, PassStep
  <2>2. ram' = ram /\ ssd \ {pass.block} \subseteq ssd' /\ ssd' \subseteq ssd /\ pass.at = "unlink"
    BY <1>6, Zenon DEF Unlink, memory, PassAt
  <2>3. s(step) \in [at : PassStep, block : Blocks]
    BY <1>0, Zenon DEF PassStep
  <2>. QED
    BY <1>0, <2>1, <2>2, <2>3, TaskMoves, Zenon DEF Loses
<1>7. CASE ForgetNext
  <2>1. PICK b \in todo : pass' = [at |-> "drop", block |-> b]
    BY <1>7, Zenon DEF ForgetNext
  <2>2. UNCHANGED <<ram, ssd>> /\ pass'.at = "drop" /\ b \in Blocks
    BY <1>7, <2>1, Zenon DEF ForgetNext, memory, disk, past, Known
  <2>3. [at |-> "drop", block |-> b] \in [at : PassStep, block : Blocks]
    BY <2>2, Zenon DEF PassStep
  <2>. QED
    BY <1>0, <2>1, <2>2, <2>3, TaskMoves, Zenon DEF Loses
<1>. QED
  BY <1>1, <1>2, <1>3, <1>4, <1>5, <1>6, <1>7, Zenon DEF EvictPass, SpillStep, TtlStep

LEMMA KnownStays == ASSUME BlockInv, Known, DaemonNext PROVE Known'
<1>0. ram \subseteq Blocks
  BY Zenon DEF BlockInv, NothingInvented, Known
<1>1. CASE \E c \in Clients : Local(c) \/ StoreReturns(c) \/ Transfer(c)
  BY <1>1, Zenon DEF Local, Read, Insert, Count, Discount, StoreReturns, IndexRam, Transfer, PeerReplies,
              PullArrives, PeerStores, PushAcked, PeerReceives, PeerAcked, ConnectionLost,
              remote, vars, disk, task, past, WriteIndex, Fault, Known
<1>2. CASE \E c \in Clients, b \in Blocks : Request(c, b)
  BY <1>2, ZenonT(30) DEF Request, PutBlock, Put, PromoteBlock, Promote, KvHandoff, Pull, Push, ServePull,
              ServePush, remote, disk, task, past, Known
<1>3. CASE EvictPass /\ UNCHANGED remote
  <2>1. made' \subseteq Blocks
    BY <1>3, Zenon DEF remote, Known
  <2>2. CASE BeginPass \/ PickVictims
    BY <1>0, <2>1, <2>2, Zenon DEF BeginPass, PickVictims, disk, past, Known
  <2>3. CASE SpillStep
    BY <2>1, <2>3, Zenon DEF SpillStep, SpillNext, SpillWrite, SpillEvict, SpillUncount, SpillIndex,
                      EndBatch, WriteIndex, disk, past, Known
  <2>4. CASE TtlStep
    BY <2>1, <2>4, Zenon DEF TtlStep, Scan, ForgetNext, EndPass, Drop, DropUncount, Unlink, Delete,
                      WriteIndex, ScanIndex, disk, past, Known
  <2>. QED
    BY <1>3, <2>2, <2>3, <2>4, Zenon DEF EvictPass
<1>4. CASE \/ \E b \in Blocks : (Age(b) /\ UNCHANGED remote) \/ PeerSpills(b)
           \/ DaemonCrash
  BY <1>4 DEF Age, PeerSpills, DaemonCrash, Crash, remote, vars, disk, task, past, Known
<1>. QED
  BY <1>1, <1>2, <1>3, <1>4, Zenon DEF DaemonNext

LEMMA RestKeeps == ASSUME BlockInv, Known,
                          \/ \E b \in Blocks : (Age(b) /\ UNCHANGED remote) \/ PeerSpills(b)
                          \/ DaemonCrash
                   PROVE  BlockInv' /\ Loses
<1>1. CASE \E b \in Blocks : (Age(b) /\ UNCHANGED remote) \/ PeerSpills(b)
  <2>1. UNCHANGED <<client, wire, pass, made, ram, ssd>> /\ peer' \subseteq peer
    BY <1>1, Zenon DEF Age, PeerSpills, remote, vars, memory, disk, task
  <2>. QED
    BY <2>1, Zenon DEF BlockInv, Shapes, OnTheWay, Kept, NothingInvented, Loses
<1>2. CASE DaemonCrash
  <2>1. /\ client' = [c \in Clients |-> IdleClient] /\ wire' = [c \in Clients |-> NoTransfer]
        /\ pass' = IdlePass /\ ram' = {} /\ UNCHANGED <<peer, made, ssd>>
    BY <1>2, Zenon DEF DaemonCrash, Crash, disk
  <2>2. Loses
    BY <1>2 DEF DaemonCrash, Crash, Known, Loses
  <2>. QED
    BY <2>1, <2>2, IdleShapes, Zenon DEF BlockInv, Shapes, OnTheWay, Kept, NothingInvented
<1>. QED
  BY <1>1, <1>2, Zenon

-----------------------------------------------------------------------------
LEMMA BlockStart == DaemonInit => BlockInv /\ Known
<1>. SUFFICES ASSUME DaemonInit PROVE BlockInv /\ Known
  BY Zenon
<1>1. /\ client = [c \in Clients |-> IdleClient] /\ wire = [c \in Clients |-> NoTransfer]
      /\ pass = IdlePass /\ ram = {} /\ ssd = {} /\ made = peer /\ peer \subseteq Blocks
      /\ todo = {} /\ old = {} /\ crashes = 0
  BY Zenon DEF DaemonInit, Init
<1>. QED
  BY <1>1, IdleShapes, Zenon DEF BlockInv, Known, Shapes, OnTheWay, Kept, NothingInvented

LEMMA BlockStep == BlockInv /\ Known /\ [DaemonNext]_all => (BlockInv /\ Known)' /\ Loses
<1>. SUFFICES ASSUME BlockInv, Known, [DaemonNext]_all PROVE (BlockInv /\ Known)' /\ Loses
  BY Zenon
<1>1. CASE DaemonNext
  BY <1>1, KnownStays, LocalKeeps, StoreKeeps, TransferKeeps, RequestKeeps, EvictionKeeps, RestKeeps, Zenon
     DEF DaemonNext
<1>2. CASE UNCHANGED all
  BY <1>2, Zenon DEF all, vars, memory, disk, task, past, remote, BlockInv, Known, Shapes, OnTheWay, Kept,
              NothingInvented, Loses
<1>. QED
  BY <1>1, <1>2, Zenon

\* A cgn-kvcached daemon neither loses nor invents a block, whatever its clients,
\* its peer, its eviction task, its disk and its crashes do and in whatever order:
\* tiers.rs writes the file of a victim before it evicts it, and every insert is of
\* a block that was put, read back or received with a body.
THEOREM NoBlockLostOrInvented == DaemonSpec => BlocksKept
<1>1. BlockInv => NothingInvented
  BY Zenon DEF BlockInv
<1>2. Loses => [Loses]_vars
  BY Zenon
<1>. QED
  BY <1>1, <1>2, BlockStart, BlockStep, PTL
  DEF DaemonSpec, BlocksKept, OnlyTtlDrops, NothingInvented, Loses

-----------------------------------------------------------------------------
(* The counter of the RAM tier.  Put and evict change the map first and    *)
(* the counter afterwards, and any number of them are under way; the       *)
(* counter agrees with the map modulo its width once what they still owe   *)
(* is added.  The sums are of bytes, one element per byte.                 *)
Accounts ==
    /\ IsFiniteSet(Bytes(ram, Size))
    /\ IsFiniteSet(Bytes(Undiscounted, Writes)) /\ IsFiniteSet(Bytes(Uncounted, Writes))
    /\ UsedAccounts

\* A client whose transfer waits for the peer has no put under way.
Engaged == \A c \in Clients : wire[c].at \in {"sent", "replied"} => client[c].at = "idle"

LEMMA InBytes ==
    ASSUME NEW S, NEW z, NEW p
    PROVE  p \in Bytes(S, z) <=> \E y \in S : \E k \in 1 .. z[y] : p = <<y, k>>
BY DEF Bytes

LEMMA BytesAdded ==
    ASSUME NEW S, NEW z, IsFiniteSet(Bytes(S, z)), NEW x, x \notin S, z[x] \in Nat
    PROVE  /\ IsFiniteSet(Bytes(S \cup {x}, z))
           /\ Cardinality(Bytes(S \cup {x}, z)) = Cardinality(Bytes(S, z)) + z[x]
<1>. DEFINE I == 1 .. z[x]
            G == {x} \X I
            B == Bytes(S, z)
<1>1. Bytes(S \cup {x}, z) = B \cup G
  <2>1. \A p : p \in G <=> \E k \in I : p = <<x, k>>
    OBVIOUS
  <2>. HIDE DEF G, B
  <2>2. \A p : p \in Bytes(S \cup {x}, z) <=> p \in B \/ p \in G
    BY <2>1, InBytes DEF B
  <2>. QED
    BY <2>2, Zenon
<1>2. B \cap G = {}
  <2>1. \A p \in B : \E y \in S : p[1] = y
    BY InBytes
  <2>2. \A p \in G : p[1] = x
    BY Zenon
  <2>. QED
    BY <2>1, <2>2, Zenon
<1>3. IsFiniteSet(I) /\ Cardinality(I) = z[x]
  <2>1. 1 \in Int /\ z[x] \in Int
    OBVIOUS
  <2>2. IsFiniteSet(I) /\ Cardinality(I) = IF 1 > z[x] THEN 0 ELSE z[x] - 1 + 1
    BY <2>1, FS_Interval, Zenon
  <2>. QED
    BY <2>1, <2>2
<1>4. IsFiniteSet({x}) /\ Cardinality({x}) = 1
  BY FS_Singleton, Zenon
<1>. HIDE DEF I, B
<1>5. IsFiniteSet(G) /\ Cardinality(G) = 1 * Cardinality(I)
  BY <1>3, <1>4, FS_Product, Zenon
<1>6. 1 * Cardinality(I) = z[x]
  BY <1>3
<1>. HIDE DEF G
<1>7. IsFiniteSet(B)
  BY Zenon DEF B
<1>8. /\ IsFiniteSet(B \cup G)
      /\ Cardinality(B \cup G) = Cardinality(B) + Cardinality(G) - Cardinality(B \cap G)
  BY <1>5, <1>7, FS_Union, Zenon
<1>9. Cardinality(B \cap G) = 0
  BY <1>2, FS_EmptySet, Zenon
<1>10. Cardinality(B) \in Nat /\ Cardinality(G) = z[x]
  BY <1>5, <1>6, <1>7, FS_CardinalityType, Zenon
<1>11. Cardinality(B \cup G) = Cardinality(B) + z[x]
  BY <1>8, <1>9, <1>10
<1>. QED
  BY <1>1, <1>8, <1>11, Zenon DEF B

LEMMA BytesRemoved ==
    ASSUME NEW S, NEW z, IsFiniteSet(Bytes(S, z)), NEW x \in S, z[x] \in Nat
    PROVE  /\ IsFiniteSet(Bytes(S \ {x}, z))
           /\ Cardinality(Bytes(S \ {x}, z)) = Cardinality(Bytes(S, z)) - z[x]
<1>1. PICK T : T = S \ {x}
  BY Zenon
<1>2. Bytes(T, z) \subseteq Bytes(S, z)
  BY <1>1, InBytes
<1>3. IsFiniteSet(Bytes(T, z))
  BY <1>2, FS_Subset, Zenon
<1>4. S = T \cup {x} /\ x \notin T
  BY <1>1, Zenon
<1>5. Cardinality(Bytes(S, z)) = Cardinality(Bytes(T, z)) + z[x]
  BY <1>3, <1>4, BytesAdded, Zenon
<1>6. Cardinality(Bytes(T, z)) \in Nat
  BY <1>3, FS_CardinalityType, Zenon
<1>. QED
  BY <1>1, <1>3, <1>5, <1>6

LEMMA BytesSame ==
    ASSUME NEW S, NEW z, NEW y, \A x \in S : z[x] = y[x]
    PROVE  Bytes(S, z) = Bytes(S, y)
<1>1. \A p : p \in Bytes(S, z) <=> p \in Bytes(S, y)
  BY InBytes
<1>. QED
  BY <1>1, Zenon

LEMMA Joins ==
    ASSUME NEW S, NEW z, NEW y, IsFiniteSet(Bytes(S, z)), NEW x, x \notin S, y[x] \in Nat,
           \A w \in S : z[w] = y[w]
    PROVE  /\ IsFiniteSet(Bytes(S \cup {x}, y))
           /\ Cardinality(Bytes(S \cup {x}, y)) = Cardinality(Bytes(S, z)) + y[x]
<1>1. Bytes(S, z) = Bytes(S, y)
  BY BytesSame, Zenon
<1>. QED
  BY <1>1, BytesAdded

LEMMA Leaves ==
    ASSUME NEW S, NEW z, NEW y, IsFiniteSet(Bytes(S, z)), NEW x \in S, z[x] \in Nat,
           \A w \in S \ {x} : z[w] = y[w]
    PROVE  /\ IsFiniteSet(Bytes(S \ {x}, y))
           /\ Cardinality(Bytes(S \ {x}, y)) = Cardinality(Bytes(S, z)) - z[x]
<1>1. Bytes(S \ {x}, z) = Bytes(S \ {x}, y)
  BY BytesSame, Zenon
<1>. QED
  BY <1>1, BytesRemoved

LEMMA Divides ==
    ASSUME NEW m \in Nat \ {0}, NEW a \in Int
    PROVE  (a \div m) \in Int /\ (a % m) \in 0 .. m - 1 /\ a = m * (a \div m) + (a % m)
<1>1. (a \div m) \in Int /\ (a % m) \in 0 .. m - 1
  OBVIOUS
<1>2. a = m * (a \div m) + (a % m)
  OBVIOUS
<1>. QED
  BY <1>1, <1>2, Zenon

LEMMA Division ==
    ASSUME NEW m \in Nat \ {0}, NEW a \in Int
    PROVE  \E k \in Int, u \in 0 .. m - 1 : u = a % m /\ a = m * k + u
BY Divides, Zenon

LEMMA ModUnique ==
    ASSUME NEW m \in Nat \ {0}, NEW a \in Int, NEW k \in Int, NEW u \in 0 .. m - 1, a = m * k + u
    PROVE  u = a % m
<1>1. PICK l \in Int, v \in 0 .. m - 1 : v = a % m /\ a = m * l + v
  BY Division, Zenon
<1>2. m * (k - l) = v - u
  <2>1. m * (k - l) = m * k - m * l /\ m * k \in Int /\ m * l \in Int
    OBVIOUS
  <2>. QED
    BY <1>1, <2>1
<1>3. ASSUME k - l >= 1 PROVE FALSE
  <2>1. (k - l) - 1 \in Nat
    BY <1>3
  <2>2. m * ((k - l) - 1) \in Nat /\ m * (k - l) = m * ((k - l) - 1) + m
    BY <2>1
  <2>. QED
    BY <1>1, <1>2, <2>2
<1>4. ASSUME l - k >= 1 PROVE FALSE
  <2>1. (l - k) - 1 \in Nat
    BY <1>4
  <2>2. m * ((l - k) - 1) \in Nat /\ m * (l - k) = m * ((l - k) - 1) + m
    BY <2>1
  <2>3. m * (l - k) = u - v
    <3>1. m * (l - k) = - (m * (k - l))
      OBVIOUS
    <3>. QED
      BY <1>2, <3>1
  <2>. QED
    BY <1>1, <2>2, <2>3
<1>5. k = l
  BY <1>3, <1>4
<1>. QED
  BY <1>1, <1>5

LEMMA ModAdd ==
    ASSUME NEW m \in Nat \ {0}, NEW a \in Int, NEW d \in Int
    PROVE  ((a % m) + d) % m = (a + d) % m
<1>1. PICK k \in Int, v \in 0 .. m - 1 : v = a % m /\ a = m * k + v
  BY Division, Zenon
<1>a. PICK w \in Int : w = v + d
  OBVIOUS
<1>2. PICK l \in Int, u \in 0 .. m - 1 : u = w % m /\ w = m * l + u
  BY Division, Zenon
<1>b. PICK n \in Int : n = k + l
  OBVIOUS
<1>c. PICK y \in Int : y = a + d
  OBVIOUS
<1>3. y = m * n + u
  <2>1. PICK p \in Int, q \in Int, r \in Int : p = m * k /\ q = m * l /\ r = m * n
    OBVIOUS
  <2>2. r = p + q
    BY <1>b, <2>1
  <2>3. a = p + v /\ w = q + u
    BY <1>1, <1>2, <2>1, Zenon
  <2>4. y = r + u
    BY <1>a, <1>c, <2>2, <2>3
  <2>. QED
    BY <2>1, <2>4, Zenon
<1>4. u = y % m
  BY <1>3, ModUnique, Zenon
<1>. QED
  BY <1>1, <1>a, <1>2, <1>c, <1>4, Zenon

-----------------------------------------------------------------------------
LEMMA Tallies ==
    ASSUME BlockInv, Accounts
    PROVE  /\ Cardinality(Bytes(ram, Size)) \in Nat /\ Unfreed \in Nat
           /\ Cardinality(Bytes(Undiscounted, Writes)) \in Nat
           /\ Cardinality(Bytes(Uncounted, Writes)) \in Nat
           /\ CounterBound \in Nat \ {0}
<1>1. pass.block \in Blocks
  BY Zenon DEF BlockInv, Shapes
<1>2. Size[pass.block] \in Nat
  BY <1>1, KvConstants, Zenon
<1>3. Unfreed \in Nat
  BY <1>2, Zenon DEF Unfreed
<1>. QED
  BY <1>3, KvConstants, FS_CardinalityType, Zenon DEF Accounts

\* The counter moves with what it owes.
LEMMA Balance ==
    ASSUME BlockInv, Accounts, NEW d \in Int,
           IsFiniteSet(Bytes(ram', Size)),
           IsFiniteSet(Bytes(Undiscounted', Writes')), IsFiniteSet(Bytes(Uncounted', Writes')),
           Due' = Due + d, used' = (used + d) % CounterBound
    PROVE  Accounts'
<1>1. PICK a \in Int : a = Due
  BY Tallies DEF Due
<1>2. used = a % CounterBound
  BY <1>1, Zenon DEF Accounts, UsedAccounts
<1>3. used' = (a + d) % CounterBound
  BY <1>2, ModAdd, Tallies, Zenon
<1>4. used' = Due' % CounterBound
  BY <1>1, <1>3, Zenon
<1>. QED
  BY <1>4, Zenon DEF Accounts, UsedAccounts

LEMMA Still ==
    ASSUME Accounts, UNCHANGED <<ram, used>>, Unfreed' = Unfreed,
           Bytes(Undiscounted', Writes') = Bytes(Undiscounted, Writes),
           Bytes(Uncounted', Writes') = Bytes(Uncounted, Writes)
    PROVE  Accounts'
<1>1. Due' = Due
  BY Zenon DEF Due
<1>. QED
  BY <1>1 DEF Accounts, UsedAccounts

\* A client between two calls of the counter.
Between(c) == client[c].at \notin {"count", "discount"}

LEMMA ClientsSame ==
    ASSUME \A d \in Clients : client'[d] = client[d] \/ (Between(d) /\ Between(d)')
    PROVE  /\ Bytes(Undiscounted', Writes') = Bytes(Undiscounted, Writes)
           /\ Bytes(Uncounted', Writes') = Bytes(Uncounted, Writes)
<1>1. Undiscounted' = Undiscounted /\ Uncounted' = Uncounted
  BY Zenon DEF Undiscounted, Uncounted, At, Between
<1>2. \A d \in Undiscounted \cup Uncounted : Writes[d] = Writes'[d]
  BY Zenon DEF Undiscounted, Uncounted, At, Between, Writes
<1>3. PICK z, y : z = Writes /\ y = Writes'
  BY Zenon
<1>4. /\ Bytes(Undiscounted, z) = Bytes(Undiscounted, y)
      /\ Bytes(Uncounted, z) = Bytes(Uncounted, y)
  BY <1>2, <1>3, BytesSame, Zenon
<1>. QED
  BY <1>1, <1>3, <1>4, Zenon

\* put: the map, the counter, and the counter again for a block it replaced.
LEMMA InsertBalances == ASSUME BlockInv, Accounts, NEW c \in Clients, Insert(c) PROVE Accounts'
<1>1. PICK b \in Blocks : b = client[c].block /\ Size[b] \in Nat
  BY KvConstants, Zenon DEF BlockInv, Shapes, Client
<1>2. /\ At(c, "count")' /\ client'[c].block = b /\ (client'[c].prev <=> b \in ram)
      /\ \A d \in Clients \ {c} : client'[d] = client[d]
      /\ ram' = ram \cup {b} /\ UNCHANGED <<used, pass>> /\ At(c, "insert")
  <2>1. PICK f : f = (b \in ram)
    BY Zenon
  <2>2. PICK s : s = [at |-> "count", block |-> b, prev |-> f]
    BY Zenon
  <2>3. client' = [client EXCEPT ![c] = s]
    BY <1>1, <2>1, <2>2, Zenon DEF Insert
  <2>4. client'[c] = s /\ \A d \in Clients \ {c} : client'[d] = client[d]
    BY <2>3, Zenon DEF BlockInv, Shapes
  <2>5. s.at = "count" /\ s.block = b /\ s.prev = f
    BY <2>2, Zenon
  <2>6. s.prev <=> b \in ram
    BY <2>1, <2>5, Zenon
  <2>7. At(c, "count")' /\ client'[c].block = b
    BY <2>4, <2>5, Zenon DEF At
  <2>8. client'[c].prev <=> b \in ram
    BY <2>4, <2>6, Zenon
  <2>9. ram' = ram \cup {b} /\ UNCHANGED <<used, pass>> /\ At(c, "insert")
    BY <1>1, Zenon DEF Insert, task
  <2>. QED
    BY <2>4, <2>7, <2>8, <2>9, Zenon
<1>3. Unfreed' = Unfreed /\ Undiscounted' = Undiscounted
  BY <1>2, Zenon DEF Unfreed, Undiscounted, At
<1>4. PICK z, y : z = Writes /\ y = Writes'
  BY Zenon
<1>5. y[c] = Size[b] /\ \A d \in Clients \ {c} : z[d] = y[d]
  BY <1>2, <1>4 DEF Writes
<1>6. Bytes(Undiscounted', Writes') = Bytes(Undiscounted, Writes)
  <2>1. \A d \in Undiscounted : z[d] = y[d]
    BY <1>2, <1>5, Zenon DEF Undiscounted, At
  <2>2. Bytes(Undiscounted, z) = Bytes(Undiscounted, y)
    BY <2>1, BytesSame
  <2>. QED
    BY <1>3, <1>4, <2>2, Zenon
<1>7. c \notin Uncounted
  BY <1>2 DEF Uncounted, At
<1>8. CASE b \in ram
  <2>1. ram' = ram /\ Uncounted' = Uncounted
    BY <1>2, <1>8 DEF Uncounted, At
  <2>2. \A d \in Uncounted : z[d] = y[d]
    BY <1>5, <1>7 DEF Uncounted
  <2>3. Bytes(Uncounted, z) = Bytes(Uncounted, y)
    BY <2>2, BytesSame, Zenon
  <2>. QED
    BY <1>2, <1>3, <1>4, <1>6, <2>1, <2>3, Still, Zenon
<1>9. CASE b \notin ram
  <2>1. Uncounted' = Uncounted \cup {c}
    BY <1>2, <1>9 DEF Uncounted, At
  <2>2. \A d \in Uncounted : z[d] = y[d]
    BY <1>5, <1>7, Zenon DEF Uncounted
  <2>3. IsFiniteSet(Bytes(Uncounted, z)) /\ IsFiniteSet(Bytes(ram, Size))
    BY <1>4 DEF Accounts
  <2>4. /\ IsFiniteSet(Bytes(Uncounted \cup {c}, y))
        /\ Cardinality(Bytes(Uncounted \cup {c}, y)) = Cardinality(Bytes(Uncounted, z)) + Size[b]
    BY <1>1, <1>5, <1>7, <2>2, <2>3, Joins
  <2>5. /\ IsFiniteSet(Bytes(ram \cup {b}, Size))
        /\ Cardinality(Bytes(ram \cup {b}, Size)) = Cardinality(Bytes(ram, Size)) + Size[b]
    BY <1>1, <1>9, <2>3, BytesAdded
  <2>6. /\ Cardinality(Bytes(ram', Size)) = Cardinality(Bytes(ram, Size)) + Size[b]
        /\ Cardinality(Bytes(Uncounted', Writes')) = Cardinality(Bytes(Uncounted, Writes)) + Size[b]
        /\ IsFiniteSet(Bytes(ram', Size)) /\ IsFiniteSet(Bytes(Uncounted', Writes'))
    BY <1>2, <1>4, <2>1, <2>4, <2>5, ZenonT(30)
  <2>7. Due' = Due
    <3>1. PICK m \in Nat, f \in Nat, u \in Nat, k \in Nat :
            /\ m = Cardinality(Bytes(ram, Size)) /\ f = Unfreed
            /\ u = Cardinality(Bytes(Undiscounted, Writes)) /\ k = Cardinality(Bytes(Uncounted, Writes))
      BY Tallies, Zenon
    <3>2. Due = m + f + u - k
      BY <3>1, Zenon DEF Due
    <3>3. Due' = (m + Size[b]) + f + u - (k + Size[b])
      BY <1>3, <1>6, <2>6, <3>1, Zenon DEF Due
    <3>. QED
      BY <1>1, <3>2, <3>3
  <2>. QED
    BY <1>2, <1>6, <2>6, <2>7, Zenon DEF Accounts, UsedAccounts
<1>. QED
  BY <1>8, <1>9, Zenon

LEMMA CountBalances == ASSUME BlockInv, Accounts, NEW c \in Clients, Count(c) PROVE Accounts'
<1>1. PICK b \in Blocks : b = client[c].block /\ Size[b] \in Nat
  BY KvConstants, Zenon DEF BlockInv, Shapes, Client
<1>2. /\ client'[c].at = (IF client[c].prev THEN "discount" ELSE "index") /\ client'[c].block = b
      /\ \A d \in Clients \ {c} : client'[d] = client[d]
      /\ UNCHANGED <<ram, pass>> /\ used' = (used + Size[b]) % CounterBound /\ At(c, "count")
  BY <1>1 DEF Count, Go, task, BlockInv, Shapes, Client
<1>3. Unfreed' = Unfreed
  BY <1>2, Zenon DEF Unfreed
<1>4. PICK z, y : z = Writes /\ y = Writes'
  BY Zenon
<1>5. y[c] = Size[b] /\ z[c] = Size[b] /\ \A d \in Clients : z[d] = y[d]
  BY <1>1, <1>2, <1>4, Zenon DEF Writes
<1>6. c \notin Undiscounted /\ c \notin Uncounted'
  BY <1>2 DEF Undiscounted, Uncounted, At
<1>7. IsFiniteSet(Bytes(Uncounted, z)) /\ IsFiniteSet(Bytes(Undiscounted, z))
  BY <1>4 DEF Accounts
<1>8. CASE client[c].prev
  <2>1. Undiscounted' = Undiscounted \cup {c} /\ Uncounted' = Uncounted
    BY <1>2, <1>8, Zenon DEF Uncounted, Undiscounted, At
  <2>2. /\ IsFiniteSet(Bytes(Undiscounted \cup {c}, y))
        /\ Cardinality(Bytes(Undiscounted \cup {c}, y)) = Cardinality(Bytes(Undiscounted, z)) + Size[b]
    <3>1. \A d \in Undiscounted : z[d] = y[d]
      BY <1>5, Zenon DEF Undiscounted
    <3>. QED
      BY <1>1, <1>5, <1>6, <1>7, <3>1, Joins
  <2>3. Bytes(Uncounted, z) = Bytes(Uncounted, y)
    <3>1. \A d \in Uncounted : z[d] = y[d]
      BY <1>5, Zenon DEF Uncounted
    <3>. QED
      BY <3>1, BytesSame, Zenon
  <2>4. /\ IsFiniteSet(Bytes(Undiscounted', Writes')) /\ IsFiniteSet(Bytes(Uncounted', Writes'))
        /\ Cardinality(Bytes(Undiscounted', Writes')) = Cardinality(Bytes(Undiscounted, Writes)) + Size[b]
        /\ Cardinality(Bytes(Uncounted', Writes')) = Cardinality(Bytes(Uncounted, Writes))
    BY <1>4, <1>7, <2>1, <2>2, <2>3, ZenonT(30)
  <2>5. PICK m, f, u, k \in Nat :
           /\ m = Cardinality(Bytes(ram, Size)) /\ f = Unfreed
           /\ u = Cardinality(Bytes(Undiscounted, Writes)) /\ k = Cardinality(Bytes(Uncounted, Writes))
    BY Tallies, Zenon
  <2>6. Due = m + f + u - k /\ Due' = m + f + (u + Size[b]) - k
    BY <1>2, <1>3, <2>4, <2>5, Zenon DEF Due
  <2>7. Size[b] \in Int /\ Due' = Due + Size[b]
    BY <1>1, <2>5, <2>6
  <2>8. IsFiniteSet(Bytes(ram', Size))
    BY <1>2, Zenon DEF Accounts
  <2>. QED
    BY <1>2, <2>4, <2>7, <2>8, Balance, Zenon
<1>9. CASE ~client[c].prev
  <2>1. Undiscounted' = Undiscounted /\ Uncounted' = Uncounted \ {c} /\ c \in Uncounted
    BY <1>2, <1>9 DEF Uncounted, Undiscounted, At
  <2>2. /\ IsFiniteSet(Bytes(Uncounted \ {c}, y))
        /\ Cardinality(Bytes(Uncounted \ {c}, y)) = Cardinality(Bytes(Uncounted, z)) - Size[b]
    <3>1. \A d \in Uncounted \ {c} : z[d] = y[d]
      BY <1>5, Zenon DEF Uncounted
    <3>. QED
      BY <1>1, <1>5, <1>7, <2>1, <3>1, Leaves
  <2>3. Bytes(Undiscounted, z) = Bytes(Undiscounted, y)
    <3>1. \A d \in Undiscounted : z[d] = y[d]
      BY <1>5, Zenon DEF Undiscounted
    <3>. QED
      BY <3>1, BytesSame, Zenon
  <2>4. /\ IsFiniteSet(Bytes(Undiscounted', Writes')) /\ IsFiniteSet(Bytes(Uncounted', Writes'))
        /\ Cardinality(Bytes(Uncounted', Writes')) = Cardinality(Bytes(Uncounted, Writes)) - Size[b]
        /\ Cardinality(Bytes(Undiscounted', Writes')) = Cardinality(Bytes(Undiscounted, Writes))
    BY <1>4, <1>7, <2>1, <2>2, <2>3, ZenonT(30)
  <2>5. PICK m, f, u, k \in Nat :
           /\ m = Cardinality(Bytes(ram, Size)) /\ f = Unfreed
           /\ u = Cardinality(Bytes(Undiscounted, Writes)) /\ k = Cardinality(Bytes(Uncounted, Writes))
    BY Tallies, Zenon
  <2>6. Due = m + f + u - k /\ Due' = m + f + u - (k - Size[b])
    BY <1>2, <1>3, <2>4, <2>5, Zenon DEF Due
  <2>7. Size[b] \in Int /\ Due' = Due + Size[b]
    BY <1>1, <2>5, <2>6
  <2>8. IsFiniteSet(Bytes(ram', Size))
    BY <1>2, Zenon DEF Accounts
  <2>. QED
    BY <1>2, <2>4, <2>7, <2>8, Balance, Zenon
<1>. QED
  BY <1>8, <1>9, Zenon

LEMMA DiscountBalances == ASSUME BlockInv, Accounts, NEW c \in Clients, Discount(c) PROVE Accounts'
<1>1. PICK b \in Blocks : b = client[c].block /\ Size[b] \in Nat
  BY KvConstants, Zenon DEF BlockInv, Shapes, Client
<1>2. /\ client'[c].at = "index" /\ client'[c].block = b
      /\ \A d \in Clients \ {c} : client'[d] = client[d]
      /\ UNCHANGED <<ram, pass>> /\ used' = (used - Size[b]) % CounterBound /\ At(c, "discount")
  BY <1>1 DEF Discount, Minus, Go, task, BlockInv, Shapes, Client
<1>3. Unfreed' = Unfreed
  BY <1>2 DEF Unfreed
<1>4. PICK z, y : z = Writes /\ y = Writes'
  BY Zenon
<1>5. z[c] = Size[b] /\ \A d \in Clients : z[d] = y[d]
  BY <1>1, <1>2, <1>4 DEF Writes
<1>6. IsFiniteSet(Bytes(Uncounted, z)) /\ IsFiniteSet(Bytes(Undiscounted, z))
  BY <1>4, Zenon DEF Accounts
<1>7. Uncounted' = Uncounted /\ Undiscounted' = Undiscounted \ {c} /\ c \in Undiscounted
  BY <1>2, ZenonT(30) DEF Uncounted, Undiscounted, At
<1>8. /\ IsFiniteSet(Bytes(Undiscounted \ {c}, y))
      /\ Cardinality(Bytes(Undiscounted \ {c}, y)) = Cardinality(Bytes(Undiscounted, z)) - Size[b]
  <2>1. \A d \in Undiscounted \ {c} : z[d] = y[d]
    BY <1>5, Zenon DEF Undiscounted
  <2>2. z[c] \in Nat
    BY <1>1, <1>5, Zenon
  <2>3. /\ IsFiniteSet(Bytes(Undiscounted \ {c}, y))
        /\ Cardinality(Bytes(Undiscounted \ {c}, y)) = Cardinality(Bytes(Undiscounted, z)) - z[c]
    BY <1>6, <1>7, <2>1, <2>2, Leaves
  <2>. QED
    BY <1>5, <2>3, Zenon
<1>9. Bytes(Uncounted, z) = Bytes(Uncounted, y)
  <2>1. \A d \in Uncounted : z[d] = y[d]
    BY <1>5, Zenon DEF Uncounted
  <2>. QED
    BY <2>1, BytesSame, Zenon
<1>10. /\ IsFiniteSet(Bytes(Undiscounted', Writes')) /\ IsFiniteSet(Bytes(Uncounted', Writes'))
       /\ Cardinality(Bytes(Undiscounted', Writes')) = Cardinality(Bytes(Undiscounted, Writes)) - Size[b]
       /\ Cardinality(Bytes(Uncounted', Writes')) = Cardinality(Bytes(Uncounted, Writes))
  BY <1>4, <1>6, <1>7, <1>8, <1>9, Zenon
<1>11. PICK e \in Int : e = -Size[b]
  BY <1>1
<1>12. Due' = Due + e
  <2>1. PICK m, f, u, k \in Nat :
           /\ m = Cardinality(Bytes(ram, Size)) /\ f = Unfreed
           /\ u = Cardinality(Bytes(Undiscounted, Writes)) /\ k = Cardinality(Bytes(Uncounted, Writes))
    BY Tallies, Zenon
  <2>2. Due = m + f + u - k /\ Due' = m + f + (u - Size[b]) - k
    BY <1>2, <1>3, <1>10, <2>1, Zenon DEF Due
  <2>. QED
    BY <1>1, <1>11, <2>1, <2>2
<1>13. used' = (used + e) % CounterBound
  <2>1. used \in Int
    BY Tallies DEF Accounts, UsedAccounts, Due
  <2>2. used - Size[b] = used + e
    BY <1>1, <1>11, <2>1
  <2>. QED
    BY <1>2, <2>2, Zenon
<1>. QED
  BY <1>2, <1>10, <1>12, <1>13, Balance, Zenon DEF Accounts

LEMMA LocalBalances ==
    ASSUME BlockInv, Accounts, NEW c \in Clients, Local(c) PROVE Accounts'
<1>1. CASE Read(c)
  <2>1. /\ client'[c].at \in {"insert", "idle"} /\ \A d \in Clients \ {c} : client'[d] = client[d]
        /\ UNCHANGED <<ram, used, pass>> /\ client[c].at = "read"
    BY <1>1, IdleShapes DEF Read, Go, At, memory, task, BlockInv, Shapes, Client
  <2>2. \A d \in Clients : client'[d] = client[d] \/ (Between(d) /\ Between(d)')
    BY <2>1, Zenon DEF Between
  <2>. QED
    BY <2>1, <2>2, ClientsSame, Still, Zenon DEF Unfreed
<1>. QED
  BY <1>1, InsertBalances, CountBalances, DiscountBalances, Zenon DEF Local

\* Clients that change elsewhere.
LEMMA ElsewhereBalances ==
    ASSUME Accounts, NEW c \in Clients, UNCHANGED <<ram, used, pass>>,
           \A d \in Clients \ {c} : client'[d] = client[d],
           client'[c] = client[c] \/ (Between(c) /\ Between(c)')
    PROVE  Accounts'
<1>1. \A d \in Clients : client'[d] = client[d] \/ (Between(d) /\ Between(d)')
  BY Zenon
<1>. QED
  BY <1>1, ClientsSame, Still, Zenon DEF Unfreed

LEMMA StoreBalances ==
    ASSUME BlockInv, Accounts, NEW c \in Clients, StoreReturns(c) PROVE Accounts'
<1>1. /\ client' = [client EXCEPT ![c] = IdleClient] /\ client[c].at = "index"
      /\ UNCHANGED <<ram, used, pass>>
  BY Zenon DEF StoreReturns, IndexRam, At, memory, task
<1>2. client'[c].at = "idle" /\ \A d \in Clients \ {c} : client'[d] = client[d]
  BY <1>1, IdleShapes DEF BlockInv, Shapes
<1>. QED
  BY <1>1, <1>2, ElsewhereBalances, Zenon DEF Between

LEMMA TransferBalances ==
    ASSUME BlockInv, Accounts, Engaged, NEW c \in Clients, Transfer(c) PROVE Accounts'
<1>1. UNCHANGED <<ram, used, pass>>
  <2>1. UNCHANGED memory /\ UNCHANGED task
    BY Zenon DEF Transfer, PeerReplies, PullArrives, PeerStores, PushAcked, PeerReceives, PeerAcked,
                 ConnectionLost, vars
  <2>. QED
    BY <2>1, Zenon DEF memory, task
<1>2. CASE client' = client
  BY <1>1, <1>2, ElsewhereBalances
<1>3. CASE PullArrives(c) /\ Store(c, wire[c].block)
  <2>1. client'[c].at = "insert" /\ \A d \in Clients \ {c} : client'[d] = client[d]
    BY <1>3 DEF Store, BlockInv, Shapes
  <2>2. client[c].at = "idle"
    BY <1>3, ZenonT(30) DEF PullArrives, Doing, Engaged
  <2>. QED
    BY <1>1, <2>1, <2>2, ElsewhereBalances, Zenon DEF Between
<1>4. (PullArrives(c) /\ Store(c, wire[c].block)) \/ client' = client
  BY Zenon DEF Transfer, PeerReplies, PullArrives, PeerStores, PushAcked, PeerReceives,
               PeerAcked, ConnectionLost, vars
<1>. QED
  BY <1>2, <1>3, <1>4, Zenon

LEMMA RequestBalances ==
    ASSUME BlockInv, Accounts, NEW c \in Clients, NEW b \in Blocks, Request(c, b) PROVE Accounts'
<1>0. \/ PutBlock(c, b) \/ PromoteBlock(c, b) \/ Pull(c, b) \/ Push(c, b) \/ ServePull(c, b)
      \/ ServePush(c, b)
  BY Zenon DEF Request, KvHandoff
<1>1. UNCHANGED <<ram, used, pass>> /\ client[c].at = "idle"
  <2>1. UNCHANGED memory /\ UNCHANGED task /\ Free(c)
    BY <1>0, Zenon DEF PutBlock, Put, PromoteBlock, Promote, Pull, Push, ServePull, ServePush
  <2>. QED
    BY <2>1, ZenonT(30) DEF memory, task, Free, At
<1>2. \/ client' = client
      \/ \E step \in {"insert", "read"} :
            client' = [client EXCEPT ![c] = [at |-> step, block |-> b, prev |-> FALSE]]
  <2>1. CASE PutBlock(c, b) \/ ServePush(c, b)
    BY <2>1, Zenon DEF PutBlock, Put, ServePush, Store
  <2>2. CASE PromoteBlock(c, b)
    BY <2>2, Zenon DEF PromoteBlock, Promote
  <2>3. CASE Pull(c, b) \/ Push(c, b) \/ ServePull(c, b)
    BY <2>3, Zenon DEF Pull, Push, ServePull
  <2>. QED
    BY <1>0, <2>1, <2>2, <2>3, ZenonT(30)
<1>3. CASE client' = client
  BY <1>1, <1>3, ElsewhereBalances, Zenon
<1>4. ASSUME NEW step \in {"insert", "read"},
             client' = [client EXCEPT ![c] = [at |-> step, block |-> b, prev |-> FALSE]]
      PROVE  Accounts'
  <2>1. client'[c].at = step /\ \A d \in Clients \ {c} : client'[d] = client[d]
    BY <1>4, Zenon DEF BlockInv, Shapes
  <2>. QED
    BY <1>1, <2>1, ElsewhereBalances, Zenon DEF Between
<1>. QED
  BY <1>2, <1>3, <1>4

-----------------------------------------------------------------------------
\* evict: the map, then the counter.
LEMMA RemovalBalances ==
    ASSUME BlockInv, Accounts, SpillEvict \/ Drop PROVE Accounts'
<1>1. PICK b \in Blocks : b = pass.block /\ Size[b] \in Nat
  BY KvConstants DEF BlockInv, Shapes
<1>2. /\ ram' = ram \ {b} /\ UNCHANGED <<used, client>> /\ pass'.block = b
      /\ pass.at \notin {"uncount", "dropped"}
      /\ (pass'.at \in {"uncount", "dropped"}) <=> (b \in ram)
  BY <1>1, Zenon DEF SpillEvict, Drop, PassAt, PassGo, BlockInv, Shapes
<1>3. /\ Bytes(Undiscounted', Writes') = Bytes(Undiscounted, Writes)
      /\ Bytes(Uncounted', Writes') = Bytes(Uncounted, Writes)
  BY <1>2, ClientsSame, Zenon
<1>4. Unfreed = 0 /\ Unfreed' = IF b \in ram THEN Size[b] ELSE 0
  BY <1>2 DEF Unfreed
<1>5. CASE b \notin ram
  <2>1. ram' = ram
    BY <1>2, <1>5, Zenon
  <2>. QED
    BY <1>2, <1>3, <1>4, <1>5, <2>1, Still, ZenonT(30)
<1>6. CASE b \in ram
  <2>1. IsFiniteSet(Bytes(ram, Size))
    BY DEF Accounts
  <2>2. /\ IsFiniteSet(Bytes(ram \ {b}, Size))
        /\ Cardinality(Bytes(ram \ {b}, Size)) = Cardinality(Bytes(ram, Size)) - Size[b]
    BY <1>1, <1>6, <2>1, BytesRemoved
  <2>3. /\ IsFiniteSet(Bytes(ram', Size))
        /\ Cardinality(Bytes(ram', Size)) = Cardinality(Bytes(ram, Size)) - Size[b]
    BY <1>2, <2>2, ZenonT(30)
  <2>4. Due' = Due
    <3>1. PICK m \in Nat, f \in Nat, u \in Nat, k \in Nat :
            /\ m = Cardinality(Bytes(ram, Size)) /\ f = Unfreed
            /\ u = Cardinality(Bytes(Undiscounted, Writes)) /\ k = Cardinality(Bytes(Uncounted, Writes))
      BY Tallies, Zenon
    <3>2. Due = m + f + u - k
      BY <3>1, Zenon DEF Due
    <3>3. f = 0 /\ Due' = (m - Size[b]) + Size[b] + u - k
      BY <1>3, <1>4, <1>6, <2>3, <3>1, Zenon DEF Due
    <3>. QED
      BY <1>1, <3>2, <3>3
  <2>. QED
    BY <1>2, <1>3, <2>3, <2>4, ZenonT(30) DEF Accounts, UsedAccounts
<1>. QED
  BY <1>5, <1>6, Zenon

LEMMA UncountBalances ==
    ASSUME BlockInv, Accounts, SpillUncount \/ DropUncount PROVE Accounts'
<1>1. PICK b \in Blocks : b = pass.block /\ Size[b] \in Nat
  BY KvConstants, Zenon DEF BlockInv, Shapes
<1>2. /\ UNCHANGED <<ram, client>> /\ used' = (used - Size[b]) % CounterBound
      /\ pass.at \in {"uncount", "dropped"} /\ pass'.at \in {"index", "unlink"}
  BY <1>1, Zenon DEF SpillUncount, DropUncount, Minus, PassAt, PassGo, BlockInv, Shapes
<1>3. /\ Bytes(Undiscounted', Writes') = Bytes(Undiscounted, Writes)
      /\ Bytes(Uncounted', Writes') = Bytes(Uncounted, Writes)
  BY <1>2, ClientsSame, Zenon
<1>4. Unfreed = Size[b] /\ Unfreed' = 0
  BY <1>1, <1>2, Zenon DEF Unfreed
<1>5. PICK e \in Int : e = -Size[b]
  BY <1>1
<1>6. Due' = Due + e
  <2>1. PICK m \in Nat, f \in Nat, u \in Nat, k \in Nat :
          /\ m = Cardinality(Bytes(ram, Size)) /\ f = Unfreed
          /\ u = Cardinality(Bytes(Undiscounted, Writes)) /\ k = Cardinality(Bytes(Uncounted, Writes))
    BY Tallies, Zenon
  <2>2. Due = m + f + u - k
    BY <2>1, Zenon DEF Due
  <2>3. f = Size[b] /\ Due' = m + 0 + u - k
    BY <1>2, <1>3, <1>4, <2>1, Zenon DEF Due
  <2>. QED
    BY <1>1, <1>5, <2>2, <2>3
<1>7. used' = (used + e) % CounterBound
  <2>1. used \in Int
    BY Tallies DEF Accounts, UsedAccounts, Due
  <2>2. used - Size[b] = used + e
    BY <1>1, <1>5, <2>1
  <2>. QED
    BY <1>2, <2>2, Zenon
<1>. QED
  BY <1>2, <1>3, <1>6, <1>7, Balance, ZenonT(30) DEF Accounts

LEMMA PassBalances == ASSUME BlockInv, Accounts, EvictPass PROVE Accounts'
<1>1. CASE \/ BeginPass \/ PickVictims \/ SpillNext \/ SpillWrite \/ SpillIndex \/ EndBatch
           \/ Scan \/ ForgetNext \/ EndPass \/ Unlink \/ Delete
  <2>1. UNCHANGED <<ram, used, client>>
    BY <1>1, Zenon DEF BeginPass, PickVictims, SpillNext, SpillWrite, SpillIndex, EndBatch, Scan,
                ForgetNext, EndPass, Unlink, Delete, memory
  <2>2. pass.at \notin {"uncount", "dropped"}
    BY <1>1, Zenon DEF BeginPass, PickVictims, SpillNext, SpillWrite, SpillIndex, EndBatch, Scan,
                ForgetNext, EndPass, Unlink, Delete, PassAt
  <2>3. pass'.at \notin {"uncount", "dropped"}
    <3>0. pass \in [at : PassStep, block : Blocks]
      BY Zenon DEF BlockInv, Shapes
    <3>1. CASE EndBatch \/ EndPass
      BY <3>1, IdleShapes, Zenon DEF EndBatch, EndPass
    <3>2. CASE SpillNext \/ ForgetNext
      BY <2>2, <3>2 DEF SpillNext, ForgetNext
    <3>3. CASE BeginPass \/ PickVictims \/ SpillWrite \/ SpillIndex \/ Scan \/ Unlink \/ Delete
      BY <3>0, <3>3 DEF BeginPass, PickVictims, SpillWrite, SpillIndex, Scan, Unlink, Delete, PassGo
    <3>. QED
      BY <1>1, <3>1, <3>2, <3>3
  <2>. QED
    BY <2>1, <2>2, <2>3, ClientsSame, Still, ZenonT(30) DEF Unfreed
<1>. QED
  BY <1>1, RemovalBalances, UncountBalances, Zenon DEF EvictPass, SpillStep, TtlStep

Blank == ram = {} /\ used = 0 /\ pass.at = "idle" /\ \A c \in Clients : client[c].at = "idle"

LEMMA NothingDue == Blank => Accounts
<1>. SUFFICES ASSUME Blank PROVE Accounts
  BY Zenon
<1>1. Undiscounted = {} /\ Uncounted = {} /\ Unfreed = 0
  BY Zenon DEF Blank, Undiscounted, Uncounted, Unfreed, At
<1>2. \A z : Bytes({}, z) = {}
  BY InBytes
<1>3. IsFiniteSet({}) /\ Cardinality({}) = 0
  BY FS_EmptySet, Zenon
<1>a. /\ Bytes(ram, Size) = {} /\ Bytes(Undiscounted, Writes) = {}
      /\ Bytes(Uncounted, Writes) = {}
  BY <1>1, <1>2, Zenon DEF Blank
<1>4. Due = 0
  BY <1>1, <1>3, <1>a DEF Due
<1>5. CounterBound \in Nat \ {0}
  BY KvConstants, Zenon
<1>6. 0 % CounterBound = 0
  BY <1>5
<1>. QED
  BY <1>3, <1>a, <1>4, <1>6, Zenon DEF Blank, Accounts, UsedAccounts

LEMMA CrashBalances == ASSUME DaemonCrash PROVE Accounts'
<1>1. /\ ram' = {} /\ used' = 0 /\ pass' = IdlePass
      /\ client' = [c \in Clients |-> IdleClient]
  BY DEF DaemonCrash, Crash
<1>2. Blank'
  BY <1>1, IdleShapes DEF Blank
<1>. QED
  BY <1>1, <1>2, NothingDue, PTL

-----------------------------------------------------------------------------
LEMMA EngagedStays ==
    ASSUME BlockInv, Engaged, DaemonNext PROVE Engaged'
<1>0. wire \in [Clients -> Link] /\ client \in [Clients -> Client]
  BY DEF BlockInv, Shapes
<1>1. ASSUME NEW c \in Clients, \A d \in Clients \ {c} : client'[d] = client[d] /\ wire'[d] = wire[d],
             wire'[c].at \in {"sent", "replied"} => client'[c].at = "idle"
      PROVE  Engaged'
  BY <1>1, Zenon DEF Engaged
<1>2. ASSUME NEW c \in Clients, Local(c) PROVE Engaged'
  <2>1. wire' = wire /\ client[c].at # "idle" /\ \A d \in Clients \ {c} : client'[d] = client[d]
    BY <1>0, <1>2 DEF Local, Read, Insert, Count, Discount, Go, At, remote
  <2>. QED
    BY <1>1, <2>1, Zenon DEF Engaged
<1>3. ASSUME NEW c \in Clients, StoreReturns(c) PROVE Engaged'
  <2>1. client' = [client EXCEPT ![c] = IdleClient]
    BY <1>3, ZenonT(30) DEF StoreReturns, IndexRam
  <2>2. PICK w : wire' = [wire EXCEPT ![c] = w]
    BY <1>3, Zenon DEF StoreReturns, Wire, End
  <2>. QED
    BY <1>0, <1>1, <2>1, <2>2, IdleShapes, Zenon
<1>4. ASSUME NEW c \in Clients, Transfer(c) PROVE Engaged'
  <2>1. PICK w : wire' = [wire EXCEPT ![c] = w]
    BY <1>4, Zenon DEF Transfer, PeerReplies, PullArrives, PeerStores, PushAcked, PeerReceives,
                       PeerAcked, ConnectionLost, Wire, End
  <2>2. CASE client' = client /\ wire[c].at \in {"sent", "replied"}
    BY <1>0, <1>1, <2>1, <2>2, Zenon DEF Engaged
  <2>3. CASE PullArrives(c) /\ Store(c, wire[c].block)
             /\ Wire(c, "pull", "storing", wire[c].block, TRUE)
    BY <1>0, <1>1, <2>3, Zenon DEF Store, Wire
  <2>4. \/ client' = client /\ wire[c].at \in {"sent", "replied"}
        \/ /\ PullArrives(c) /\ Store(c, wire[c].block)
           /\ Wire(c, "pull", "storing", wire[c].block, TRUE)
    <3>1. CASE PullArrives(c)
      <4>1. wire[c].at = "replied"
        BY <3>1, Zenon DEF PullArrives, Doing
      <4>2. wire[c].at \in {"sent", "replied"}
        BY <4>1, Zenon
      <4>. QED
        BY <3>1, <4>2, Zenon DEF PullArrives
    <3>2. CASE PeerReplies(c) \/ PeerStores(c) \/ PushAcked(c) \/ PeerReceives(c) \/ PeerAcked(c)
               \/ ConnectionLost(c)
      <4>1. client' = client
        BY <3>2, Zenon DEF PeerReplies, PeerStores, PushAcked, PeerReceives, PeerAcked,
                           ConnectionLost, vars
      <4>2. wire[c].at \in {"sent", "replied"}
        BY <3>2, Zenon DEF PeerReplies, PeerStores, PushAcked, PeerReceives, PeerAcked,
                           ConnectionLost, Doing
      <4>. QED
        BY <4>1, <4>2, Zenon
    <3>. QED
      BY <1>4, <3>1, <3>2, Zenon DEF Transfer
  <2>. QED
    BY <2>2, <2>3, <2>4, Zenon
<1>5. ASSUME NEW c \in Clients, NEW b \in Blocks, Request(c, b) PROVE Engaged'
  <2>1. CASE PutBlock(c, b) \/ PromoteBlock(c, b)
    <3>1. wire' = wire /\ wire[c] = NoTransfer /\ \A d \in Clients \ {c} : client'[d] = client[d]
      BY <1>0, <2>1, Zenon DEF PutBlock, Put, PromoteBlock, Promote, Free, remote
    <3>2. wire'[c].at \notin {"sent", "replied"}
      BY <3>1 DEF NoTransfer
    <3>. QED
      BY <1>1, <3>1, <3>2, Zenon
  <2>2. CASE Pull(c, b) \/ Push(c, b) \/ ServePull(c, b)
    <3>1. client' = client /\ client[c].at = "idle"
      BY <2>2, Zenon DEF Pull, Push, ServePull, Free, At
    <3>2. PICK w : wire' = [wire EXCEPT ![c] = w]
      BY <2>2, Zenon DEF Pull, Push, ServePull, Wire
    <3>. QED
      BY <1>0, <1>1, <3>1, <3>2, Zenon
  <2>3. CASE ServePush(c, b)
    <3>1. Store(c, b) /\ Wire(c, "receive", "storing", b, TRUE)
      BY <2>3, Zenon DEF ServePush
    <3>. QED
      BY <1>0, <1>1, <3>1, Zenon DEF Store, Wire
  <2>. QED
    BY <1>5, <2>1, <2>2, <2>3, ZenonT(30) DEF Request, KvHandoff
<1>6. CASE EvictPass /\ UNCHANGED remote
  <2>1. UNCHANGED <<client, wire>>
    BY <1>6, Zenon DEF remote, EvictPass, BeginPass, PickVictims,
         SpillStep, SpillNext, SpillWrite, SpillEvict, SpillUncount, SpillIndex, EndBatch,
         TtlStep, Scan, ForgetNext, EndPass, Drop, DropUncount, Unlink, Delete
  <2>. QED
    BY <2>1, Zenon DEF Engaged
<1>7. CASE \E b \in Blocks : (Age(b) /\ UNCHANGED remote) \/ PeerSpills(b)
  <2>1. UNCHANGED <<client, wire>>
    BY <1>7, Zenon DEF Age, PeerSpills, remote, vars
  <2>. QED
    BY <2>1, Zenon DEF Engaged
<1>8. CASE DaemonCrash
  BY <1>8, IdleShapes, Zenon DEF DaemonCrash, Crash, Engaged
<1>. QED
  BY <1>2, <1>3, <1>4, <1>5, <1>6, <1>7, <1>8 DEF DaemonNext

LEMMA CounterStart == DaemonInit => Accounts /\ Engaged
<1>. SUFFICES ASSUME DaemonInit PROVE Accounts /\ Engaged
  BY Zenon
<1>1. /\ client = [c \in Clients |-> IdleClient] /\ pass = IdlePass /\ ram = {} /\ used = 0
  BY Zenon DEF DaemonInit, Init
<1>2. Blank
  BY <1>1, IdleShapes, Zenon DEF Blank
<1>. QED
  BY <1>2, NothingDue, Zenon DEF Blank, Engaged

LEMMA CounterStep ==
    BlockInv /\ Accounts /\ Engaged /\ [DaemonNext]_all => (Accounts /\ Engaged)'
<1>. SUFFICES ASSUME BlockInv, Accounts, Engaged, [DaemonNext]_all PROVE (Accounts /\ Engaged)'
  BY Zenon
<1>1. CASE DaemonNext
  <2>1. Engaged'
    BY <1>1, EngagedStays, Zenon
  <2>2. CASE \E b \in Blocks : (Age(b) /\ UNCHANGED remote) \/ PeerSpills(b)
    <3>1. UNCHANGED <<client, ram, used, pass>>
      BY <2>2, Zenon DEF Age, PeerSpills, vars, memory, task
    <3>. QED
      BY <2>1, <3>1, ClientsSame, Still, ZenonT(30) DEF Unfreed
  <2>. QED
    BY <1>1, <2>1, <2>2, LocalBalances, StoreBalances, TransferBalances, RequestBalances,
       PassBalances, CrashBalances DEF DaemonNext
<1>2. CASE UNCHANGED all
  <2>1. UNCHANGED <<client, ram, used, pass, wire>>
    BY <1>2, Zenon DEF all, vars, memory, task, remote
  <2>. QED
    BY <2>1, ClientsSame, Still, Zenon DEF Unfreed, Engaged
<1>. QED
  BY <1>1, <1>2, Zenon

\* RamTier.used never drifts (cgn-kv, ram.rs): for any number of clients putting
\* and the eviction task evicting the same blocks, it is the bytes in RAM plus
\* what the updates under way still owe, modulo its width, so that it is exact
\* whenever none is under way; and a restart starts it right.
THEOREM CounterNeverDrifts == DaemonSpec => []UsedAccounts
<1>1. Accounts => UsedAccounts
  BY Zenon DEF Accounts
<1>. QED
  BY <1>1, BlockStart, BlockStep, CounterStart, CounterStep, PTL DEF DaemonSpec

=============================================================================
