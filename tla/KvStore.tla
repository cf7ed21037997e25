------------------------------- MODULE KvStore -------------------------------
(***************************************************************************)
(* The tiered block store of cgn-kvcached: tiers.rs over cgn-kv's RamTier, *)
(* SsdTier and persistent index.  Clients (gRPC PutBlock, Pull and         *)
(* Promote, QUIC Push) and the one background eviction task run on several *)
(* threads; every map operation, atomic update, file operation and index   *)
(* write is a step of its own.  Blocks are content-addressed, so a block   *)
(* is a model value with a size and has no versions.  Module KvDaemon      *)
(* composes the store with the daemon's two servers.                       *)
(***************************************************************************)
EXTENDS Integers, FiniteSets

CONSTANTS
    Blocks, Clients,
    MaxCalls,      \* bound on puts and promotions
    Size,          \* bytes of a block
    Target,        \* ram capacity * ram_high_watermark
    Batch,         \* victims taken at a time (32 in the code)
    CounterBound,  \* modulus of the used counter (2^64 in the code)
    TtlOn,         \* ssd_ttl_secs > 0
    MaxFaults,     \* bound on file and index operations that fail
    MaxCrashes     \* bound on crashes of the daemon

ASSUME KvConstants ==
    /\ IsFiniteSet(Blocks) /\ Blocks # {} /\ MaxCalls \in Nat
    /\ Size \in [Blocks -> Nat \ {0}]
    /\ Target \in Nat /\ Batch \in Nat \ {0}
    /\ TtlOn \in BOOLEAN /\ MaxFaults \in Nat /\ MaxCrashes \in Nat
    /\ CounterBound \in Nat \ {0}

VARIABLES
    ram,       \* RamTier.inner: resident blocks
    used,      \* RamTier.used
    ssd,       \* block files
    index,     \* per block: its tier, "none" when it has no entry
    old,       \* blocks whose index entry's last_seen is past the TTL
    client,    \* per client: its step and block, and whether its insert replaced one
    pass,      \* the eviction task: its step and block
    todo,      \* blocks left in its current batch or TTL scan
    before,    \* used bytes when the batch began; 0 outside one
    calls, faults, crashes

memory == <<ram, used>>
disk == <<ssd, index, old>>
task == <<pass, todo, before>>
past == <<calls, faults, crashes>>
vars == <<memory, disk, client, task, past>>

IdleClient == [at |-> "idle", block |-> CHOOSE b \in Blocks : TRUE, prev |-> FALSE]
IdlePass == [at |-> "idle", block |-> CHOOSE b \in Blocks : TRUE]

ClientStep == {"idle", "read", "insert", "count", "discount", "index"}
PassStep == {"idle", "batch", "spill", "write", "evict", "uncount", "index", "scan",
             "forget", "drop", "dropped", "unlink", "delete"}

Init ==
    /\ ram = {} /\ used = 0 /\ ssd = {} /\ old = {}
    /\ index = [b \in Blocks |-> "none"]
    /\ client = [c \in Clients |-> IdleClient]
    /\ pass = IdlePass /\ todo = {} /\ before = 0
    /\ calls = 0 /\ faults = 0 /\ crashes = 0

\* A file or index operation fails.
Fault == faults < MaxFaults /\ faults' = faults + 1

\* Index::put with the block's tier and the time, or Index::delete (tier "none").
WriteIndex(b, tier) ==
    \/ index' = [index EXCEPT ![b] = tier] /\ old' = old \ {b} /\ faults' = faults
    \/ Fault /\ UNCHANGED <<index, old>>

ScanIndex == {b \in Blocks : index[b] # "none"}

Minus(n, size) == (n - size) % CounterBound

-----------------------------------------------------------------------------
(* Clients.                                                                *)
At(c, step) == client[c].at = step
Go(c, step) == client' = [client EXCEPT ![c].at = step]

Call == calls < MaxCalls /\ calls' = calls + 1

\* PutBlock, a completed Pull, a QUIC Push: put_ram begins.
Put(c, b) ==
    /\ At(c, "idle") /\ Call
    /\ client' = [client EXCEPT ![c] = [at |-> "insert", block |-> b, prev |-> FALSE]]
    /\ UNCHANGED <<memory, disk, task, faults, crashes>>

\* Promote of a block that is not resident reads its file, which the eviction
\* task may remove meanwhile.  (Of a resident block it answers at once.)
Promote(c, b) ==
    /\ At(c, "idle") /\ b \notin ram /\ Call
    /\ client' = [client EXCEPT ![c] = [at |-> "read", block |-> b, prev |-> FALSE]]
    /\ UNCHANGED <<memory, disk, task, faults, crashes>>

Read(c) ==
    /\ At(c, "read")
    /\ IF client[c].block \in ssd THEN Go(c, "insert")
                                  ELSE client' = [client EXCEPT ![c] = IdleClient]
    /\ UNCHANGED <<memory, disk, task, past>>

\* RamTier::put: the map insert, the counter, and the counter again for a block
\* that was replaced.
Insert(c) ==
    /\ At(c, "insert")
    /\ ram' = ram \cup {client[c].block}
    /\ client' = [client EXCEPT ![c] = [at |-> "count", block |-> @.block,
                                       prev |-> @.block \in ram]]
    /\ UNCHANGED <<used, disk, task, past>>

\* Mutant: a replaced block stays counted.
CountTwice(c) ==
    /\ At(c, "count")
    /\ used' = (used + Size[client[c].block]) % CounterBound
    /\ Go(c, "index")
    /\ UNCHANGED <<ram, disk, task, past>>

Count(c) ==
    /\ At(c, "count")
    /\ used' = (used + Size[client[c].block]) % CounterBound
    /\ Go(c, IF client[c].prev THEN "discount" ELSE "index")
    /\ UNCHANGED <<ram, disk, task, past>>

Discount(c) ==
    /\ At(c, "discount")
    /\ used' = Minus(used, Size[client[c].block])
    /\ Go(c, "index")
    /\ UNCHANGED <<ram, disk, task, past>>

\* The index entry (tier Ram, seen now), then the answer.  An index error fails
\* a put and is ignored by a promotion; the block stays in RAM either way.
IndexRam(c) ==
    /\ At(c, "index")
    /\ WriteIndex(client[c].block, "ram")
    /\ client' = [client EXCEPT ![c] = IdleClient]
    /\ UNCHANGED <<memory, ssd, task, calls, crashes>>

\* Time passes: an entry's last_seen falls behind the TTL.  No request on the
\* block takes that long.
Age(b) ==
    /\ TtlOn /\ b \in ScanIndex \ old
    /\ \A c \in Clients : At(c, "idle") \/ client[c].block # b
    /\ old' = old \cup {b}
    /\ UNCHANGED <<memory, ssd, index, client, task, past>>

-----------------------------------------------------------------------------
(* evict_pass.                                                             *)
PassAt(step) == pass.at = step
PassGo(step) == pass' = [pass EXCEPT !.at = step]

BeginPass ==
    /\ PassAt("idle")
    /\ PassGo(IF used > Target THEN "batch" ELSE "scan")
    /\ UNCHANGED <<memory, disk, client, todo, before, past>>

\* coldest(Batch): touches make any of the resident blocks the coldest.
PickVictims ==
    /\ PassAt("batch")
    /\ before' = IF ram = {} THEN 0 ELSE used
    /\ \E victims \in SUBSET ram :
          /\ Cardinality(victims) = (IF Cardinality(ram) < Batch THEN Cardinality(ram) ELSE Batch)
          /\ todo' = victims
          /\ PassGo(IF victims = {} THEN "scan" ELSE "spill")
    /\ UNCHANGED <<memory, disk, client, past>>

\* The next victim; one that has left RAM meanwhile needs nothing.
SpillNext ==
    /\ PassAt("spill")
    /\ \E b \in todo :
          /\ todo' = todo \ {b}
          /\ pass' = IF b \in ram THEN [at |-> "write", block |-> b] ELSE pass
    /\ UNCHANGED <<memory, disk, client, before, past>>

SpillWrite ==
    /\ PassAt("write")
    /\ \/ ssd' = ssd \cup {pass.block} /\ PassGo("evict") /\ faults' = faults
       \/ ssd' = ssd /\ PassGo("spill") /\ Fault
    /\ UNCHANGED <<memory, index, old, client, todo, before, calls, crashes>>

\* Mutant: the counter is forgotten.
SpillEvictUncounted ==
    /\ PassAt("evict")
    /\ ram' = ram \ {pass.block}
    /\ PassGo("index")
    /\ UNCHANGED <<used, disk, client, todo, before, past>>

\* RamTier::evict: the map removal, then the counter.
SpillEvict ==
    /\ PassAt("evict")
    /\ ram' = ram \ {pass.block}
    /\ PassGo(IF pass.block \in ram THEN "uncount" ELSE "index")
    /\ UNCHANGED <<used, disk, client, todo, before, past>>

SpillUncount ==
    /\ PassAt("uncount")
    /\ used' = Minus(used, Size[pass.block])
    /\ PassGo("index")
    /\ UNCHANGED <<ram, disk, client, todo, before, past>>

SpillIndex ==
    /\ PassAt("index")
    /\ WriteIndex(pass.block, "ssd")
    /\ PassGo("spill")
    /\ UNCHANGED <<memory, ssd, client, todo, before, calls, crashes>>

\* Another batch while over the watermark, unless this one made no progress.
EndBatch ==
    /\ PassAt("spill") /\ todo = {}
    /\ pass' = [IdlePass EXCEPT !.at = IF used < before /\ used > Target THEN "batch" ELSE "scan"]
    /\ before' = 0
    /\ UNCHANGED <<memory, disk, client, todo, past>>

\* The TTL pass works from one scan of the index.
Scan ==
    /\ PassAt("scan")
    /\ IF TtlOn
         THEN PassGo("forget") /\ todo' = {b \in ScanIndex \cap old : index[b] = "ssd"}
         ELSE PassGo("idle") /\ todo' = {}
    /\ UNCHANGED <<memory, disk, client, before, past>>

ForgetNext ==
    /\ PassAt("forget")
    /\ \E b \in todo : todo' = todo \ {b} /\ pass' = [at |-> "drop", block |-> b]
    /\ UNCHANGED <<memory, disk, client, before, past>>

EndPass ==
    /\ PassAt("forget") /\ todo = {}
    /\ pass' = IdlePass
    /\ UNCHANGED <<memory, disk, client, todo, before, past>>

\* Store::forget: RAM, file, index entry.
Drop ==
    /\ PassAt("drop")
    /\ ram' = ram \ {pass.block}
    /\ PassGo(IF pass.block \in ram THEN "dropped" ELSE "unlink")
    /\ UNCHANGED <<used, disk, client, todo, before, past>>

DropUncount ==
    /\ PassAt("dropped")
    /\ used' = Minus(used, Size[pass.block])
    /\ PassGo("unlink")
    /\ UNCHANGED <<ram, disk, client, todo, before, past>>

Unlink ==
    /\ PassAt("unlink")
    /\ \/ ssd' = ssd \ {pass.block} /\ PassGo("delete") /\ faults' = faults
       \/ ssd' = ssd /\ PassGo("forget") /\ Fault
    /\ UNCHANGED <<memory, index, old, client, todo, before, calls, crashes>>

Delete ==
    /\ PassAt("delete")
    /\ WriteIndex(pass.block, "none")
    /\ PassGo("forget")
    /\ UNCHANGED <<memory, ssd, client, todo, before, calls, crashes>>

\* The daemon dies and is started again: files and index survive.
Crash ==
    /\ crashes < MaxCrashes
    /\ crashes' = crashes + 1
    /\ ram' = {} /\ used' = 0
    /\ client' = [c \in Clients |-> IdleClient]
    /\ pass' = IdlePass /\ todo' = {} /\ before' = 0
    /\ UNCHANGED <<disk, calls, faults>>

SpillStep == SpillNext \/ SpillWrite \/ SpillEvict \/ SpillUncount \/ SpillIndex \/ EndBatch
TtlStep == Scan \/ ForgetNext \/ EndPass \/ Drop \/ DropUncount \/ Unlink \/ Delete
EvictPass == BeginPass \/ PickVictims \/ SpillStep \/ TtlStep

-----------------------------------------------------------------------------
\* RamTier.used is the size of the resident blocks, give or take the counter
\* updates still to be made: no interleaving of put and evict on the same block
\* leaves the counter off for good, though it may wrap meanwhile.
Bytes(S, size) == UNION {{x} \X (1 .. size[x]) : x \in S}
Writes == [c \in Clients |-> Size[client[c].block]]
Uncounted == {c \in Clients : At(c, "count") /\ ~client[c].prev}
Undiscounted == {c \in Clients : At(c, "discount")}
Unfreed == IF pass.at \in {"uncount", "dropped"} THEN Size[pass.block] ELSE 0
Due ==
    Cardinality(Bytes(ram, Size)) + Unfreed + Cardinality(Bytes(Undiscounted, Writes))
      - Cardinality(Bytes(Uncounted, Writes))
UsedAccounts == used = Due % CounterBound

\* Only a crash and the TTL pass drop the last copy of a block.
OnlyTtlDrops ==
    [][\A b \in ram \cup ssd :
          \/ b \in ram' \cup ssd'
          \/ crashes' # crashes
          \/ pass.at \in {"drop", "unlink"} /\ pass.block = b]_vars

\* Once clients stop, the eviction passes bring RAM under the watermark for
\* good, although a batch that frees nothing ends a pass early.
PressureRelieved ==
    <>[](\A c \in Clients : At(c, "idle")) => <>[](used <= Target)

=============================================================================
