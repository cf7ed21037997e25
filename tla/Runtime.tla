------------------------------- MODULE Runtime -------------------------------
(***************************************************************************)
(* The model runtimes of cgn-infer behind the BatchModel trait             *)
(* (services/cgn-infer/src/runtime/mod.rs, pipeline/mod.rs and             *)
(* model/llama.rs).  Engine::load picks one of three from the model file   *)
(* and the configuration:                                                  *)
(*   batched     one process, a KV cache per sequence, batched decode;     *)
(*   sequential  a stock model with one internal cache;                    *)
(*   pipelined   the layers are sliced: stage 1 runs in the coordinator,   *)
(*               each later stage in a worker process behind a gRPC stream *)
(*               that may break at any moment.                             *)
(*                                                                         *)
(* A hidden state is represented by the tokens it was computed from: <<t>> *)
(* for the embedding of t, the whole context after attention, and Garbage  *)
(* when attention mixed positions that do not belong together.             *)
(***************************************************************************)
EXTENDS Integers, Sequences, FiniteSets

CONSTANTS
    Seqs,            \* sequence ids the scheduler uses
    Prompt,          \* the prompt of each
    Tokens,          \* the vocabulary
    ChunkLen,        \* prefill_chunk
    MaxSeqLen,       \* min(ctx, context_length)
    ContextLength,   \* context_length of the model file
    NLayers,         \* block_count of the model file
    Archs,           \* architectures a model file may have
    Backends,        \* backends an operator may ask for
    Features,        \* accelerators compiled in
    Slicings,        \* layer ranges an operator may configure; <<>>: no pipeline
    MaxBatch,        \* cfg.max_batch
    MaxFaults        \* layer failures, broken streams and worker deaths in a run

ASSUME RuntimeConstants ==
    /\ Prompt \in [Seqs -> Seq(Tokens)]
    /\ \A s \in Seqs : Prompt[s] # <<>> /\ Len(Prompt[s]) < MaxSeqLen
    /\ MaxSeqLen \in Nat \ {0} /\ ContextLength \in Nat /\ MaxSeqLen <= ContextLength
    /\ NLayers \in Nat \ {0} /\ ChunkLen \in Nat \ {0} /\ MaxFaults \in Nat
    /\ Slicings \subseteq Seq([start : Nat, end : Nat])

VARIABLES
    kind,        \* the runtime loaded: "none", "refused" or one of the three
    stages,      \* the layer range of each stage, the local one first
    kvs,         \* kvs[n]: the HashMap<u64, SeqKv> of stage n
    inner,       \* the cache inside the stock model (sequential)
    resident,    \* SequentialModel.resident: <<>> or <<[seq, n]>>
    link,        \* link[n]: the stream to worker n: "up", "closed" or "poisoned"
    flight,      \* flight[n]: the chunk worker n has not finished
    reply,       \* reply[n]: its answer, not yet received
    call,        \* the pipelined call under way: <<>> or <<[...]>>
    phase,       \* the scheduler's view of each sequence
    fed,         \* the tokens it has fed to each since the sequence started
    broken,      \* sequences whose call failed, to be dropped
    answer,      \* what the last call returned
    faults

pipes == <<link, flight, reply>>
local == <<kvs, inner, resident>>
view == <<phase, fed, broken, answer>>
vars == <<kind, stages, local, pipes, call, view, faults>>

Nothing == [s \in {} |-> <<>>]
Garbage == <<>>
Only(s, x) == [q \in {s} |-> x]
LastOf(x) == x[Len(x)]
N == Len(stages)
Workers == 2..N

-----------------------------------------------------------------------------
(* Layer ranges.                                                           *)
LayerRange(a, b) == [start |-> a, end |-> b]
LayersOf(r) == r.start..(r.end - 1)

\* split_layers: the remainder goes to the first stages.
SplitLayers(total, parts) ==
    LET len(i) == total \div parts + (IF i <= total % parts THEN 1 ELSE 0)
        start[i \in 1..parts] == IF i = 1 THEN 0 ELSE start[i - 1] + len(i - 1)
    IN [i \in 1..parts |-> LayerRange(start[i], start[i] + len(i))]

ValidateCoverage(total, ranges) ==
    /\ ranges[1].start = 0
    /\ \A i \in 1..(Len(ranges) - 1) : ranges[i + 1].start = ranges[i].end
    /\ LastOf(ranges).end = total

\* QLlamaConfig::arch_supported; "moe" is a llama file with experts.
ArchSupported(arch) == arch \in {"llama", "qwen2"}
SequentialArchs == {"llama", "moe", "qwen2", "qwen3", "gemma3", "phi3"}

\* pick_device: "auto" falls back to the CPU, a named accelerator must have
\* been compiled in.
PickDevice(backend) == backend \in {"auto", "cpu"} \cup Features

\* QLlamaConfig::from_gguf: only the two dense families have a forward pass.
FromGguf(arch) == arch \in {"llama", "qwen2", "moe"}

\* QLlama::load binds the tensors of a slice; a file with experts lacks the
\* dense MLP weights every slice needs.
Binds(arch, r) ==
    /\ FromGguf(arch)
    /\ r.end <= NLayers
    /\ arch # "moe"

\* run_worker: a worker parses its range and loads its slice, or does not start.
RunWorker(arch, r) == r.start < r.end /\ Binds(arch, r)

\* connect_worker: dial, ask for the worker's range, open its stream.
ConnectWorker(arch, r) == RunWorker(arch, r)

\* PipelinedModel::connect: the coordinator must own layer 0, every worker is
\* connected in order, and together they tile the model.
Connects(arch, ranges) ==
    /\ ranges[1].start = 0 /\ ranges[1].end > 0
    /\ Binds(arch, ranges[1])
    /\ \A i \in 2..Len(ranges) : ConnectWorker(arch, ranges[i])
    /\ ValidateCoverage(NLayers, ranges)

\* Engine::load picks the runtime; BatchedLlama::load binds the whole model and
\* SequentialModel::load knows the stock architectures.
Loaded(arch, ranges, backend) ==
    CASE ~PickDevice(backend) -> "refused"
      [] PickDevice(backend) /\ ranges # <<>> ->
            IF Connects(arch, ranges) THEN "pipelined" ELSE "refused"
      [] PickDevice(backend) /\ ranges = <<>> /\ ArchSupported(arch) ->
            IF Binds(arch, LayerRange(0, NLayers)) THEN "batched" ELSE "refused"
      [] OTHER -> IF arch \in SequentialArchs THEN "sequential" ELSE "refused"

-----------------------------------------------------------------------------
(* The forward pass of a slice.                                            *)
\* SeqKv::new: nothing cached in any layer of stage n.
NewKv(n) == [slots |-> [l \in LayersOf(stages[n]) |-> <<>>], tokens |-> 0]

\* attend: the hidden states visible to a position determine its context,
\* unless they are not those of one and the same history.
Attend(layer, visible) ==
    LET out == [i \in DOMAIN visible |-> LastOf(visible[i])] IN
    IF \E i \in DOMAIN visible : visible[i] = Garbage THEN Garbage
    ELSE IF \A i \in DOMAIN visible :
                visible[i] = IF layer = 0 THEN <<out[i]>> ELSE SubSeq(out, 1, i)
           THEN out ELSE Garbage

\* block_forward_single: the positions of x are appended to the layer's cache
\* (which a start at 0 replaces), each attends to what the causal mask lets it
\* see.  The mask has pos + t columns and no mask is built for t = 1.  Layer
\* "at" fails; its slot is then as slot says: "kept", "lost" between take()
\* and the assignment, or "grown".
BlockForward(a, layer, pos, at, slot) ==
    LET t == Len(a.x)
        cat == IF pos > 0 THEN a.slots[layer] \o a.x ELSE a.x
        roped == pos + t <= ContextLength
        left == CASE ~roped \/ (layer = at /\ slot = "kept") -> a.slots[layer]
                  [] roped /\ layer = at /\ slot = "lost" -> <<>>
                  [] OTHER -> cat
        ok == roped /\ layer # at /\ (t = 1 \/ Len(cat) = pos + t)
    IN [slots |-> [a.slots EXCEPT ![layer] = left], ok |-> ok,
        x |-> IF ~ok THEN a.x
              ELSE [i \in 1..t |-> Attend(layer, IF t = 1 THEN cat ELSE SubSeq(cat, 1, pos + i))]]

NoLayer == NLayers

\* forward_hidden: layer by layer; the token count moves only when all of them
\* succeed, so a failure leaves the layers behind it torn.
ForwardHidden(n, kv, x, pos, at, slot) ==
    LET r == stages[n]
        after[i \in 0..(r.end - r.start)] ==
            IF i = 0 THEN [slots |-> kv.slots, x |-> x, ok |-> TRUE]
            ELSE IF ~after[i - 1].ok THEN after[i - 1]
            ELSE BlockForward(after[i - 1], r.start + i - 1, pos, at, slot)
        ran == after[r.end - r.start]
    IN [kv |-> [slots |-> ran.slots, tokens |-> IF ran.ok THEN pos + Len(x) ELSE kv.tokens],
        x |-> ran.x, ok |-> ran.ok]

EmbedTokens(tokens) == [i \in DOMAIN tokens |-> <<tokens[i]>>]
Slots == {"kept", "lost", "grown"}

\* Where the forward pass of stage n may fail: nowhere, or in one of its layers.
FailureIn(n) == {NoLayer} \cup (IF faults < MaxFaults THEN LayersOf(stages[n]) ELSE {})
Count(at) == faults' = IF at = NoLayer THEN faults ELSE faults + 1

\* encode_activation writes the positions of x, whatever the encoding, and
\* decode_activation refuses a payload of another length.
EncodeActivation(x) == [data |-> x, len |-> Len(x)]
DecodeActivation(wire) == wire.len = Len(wire.data)

-----------------------------------------------------------------------------
(* The scheduler's side of the contract.                                   *)
Running == {s \in Seqs : phase[s] \in {"prefill", "decode"}}
Cap == IF kind = "batched" THEN MaxBatch ELSE 1
Free == kind \in {"batched", "sequential", "pipelined"} /\ call = <<>> /\ broken = {}

\* The chunk the scheduler prefills next for s, from the start if it is new.
LastChunk(s) == Len(fed[s]) + ChunkLen >= Len(Prompt[s])
NextChunk(s) == SubSeq(Prompt[s], Len(fed[s]) + 1,
                       IF LastChunk(s) THEN Len(Prompt[s]) ELSE Len(fed[s]) + ChunkLen)
MayPrefill(s) ==
    /\ Free
    /\ phase[s] = "prefill" \/ (phase[s] = "waiting" /\ Cardinality(Running) < Cap)
    /\ \A q \in Running \ {s} : phase[q] = "decode"

Decoding == {s \in Seqs : phase[s] = "decode"}
MayDecode == Free /\ Decoding # {} /\ \A s \in Decoding : Len(fed[s]) < MaxSeqLen

\* A call returned an error: the scheduler finishes its sequences.
Failed(S) ==
    /\ broken' = broken \cup S
    /\ fed' = [s \in Seqs |-> IF s \in S THEN <<>> ELSE fed[s]]
    /\ answer' = [ok |-> FALSE, logits |-> Nothing]
    /\ phase' = [s \in Seqs |-> IF s \in S THEN "broken" ELSE phase[s]]

\* Mutant: the head reads the first position of the chunk.
AnsweredFirst(S, tokens, want, x) ==
    /\ fed' = [s \in Seqs |-> IF s \in S THEN fed[s] \o tokens[s] ELSE fed[s]]
    /\ answer' = [ok |-> TRUE, logits |-> IF want THEN [s \in S |-> x[s][1]] ELSE Nothing]
    /\ phase' = [s \in Seqs |-> IF s \notin S THEN phase[s]
                                ELSE IF want THEN "decode" ELSE "prefill"]
    /\ UNCHANGED broken

\* A call on S returned the hidden states x[s]; output() reads the last one.
Answered(S, tokens, want, x) ==
    /\ fed' = [s \in Seqs |-> IF s \in S THEN fed[s] \o tokens[s] ELSE fed[s]]
    /\ answer' = [ok |-> TRUE, logits |-> IF want THEN [s \in S |-> LastOf(x[s])] ELSE Nothing]
    /\ phase' = [s \in Seqs |-> IF s \notin S THEN phase[s]
                                ELSE IF want THEN "decode" ELSE "prefill"]
    /\ UNCHANGED broken

-----------------------------------------------------------------------------
(* Loading.                                                                *)
Init ==
    /\ kind = "none" /\ stages = <<>>
    /\ kvs = <<>> /\ inner = <<>> /\ resident = <<>>
    /\ link = <<>> /\ flight = <<>> /\ reply = <<>> /\ call = <<>>
    /\ phase = [s \in Seqs |-> "waiting"] /\ fed = [s \in Seqs |-> <<>>]
    /\ broken = {} /\ answer = [ok |-> TRUE, logits |-> Nothing]
    /\ faults = 0

Load(arch, ranges, backend) ==
    LET n == IF ranges = <<>> THEN 1 ELSE Len(ranges) IN
    /\ kind = "none"
    /\ kind' = Loaded(arch, ranges, backend)
    /\ stages' = IF ranges = <<>> THEN <<LayerRange(0, NLayers)>> ELSE ranges
    /\ kvs' = [i \in 1..n |-> Nothing]
    /\ link' = [i \in 1..n |-> "up"]
    /\ flight' = [i \in 1..n |-> <<>>] /\ reply' = [i \in 1..n |-> <<>>]
    /\ UNCHANGED <<inner, resident, call, view, faults>>

-----------------------------------------------------------------------------
(* BatchedLlama.                                                           *)
KvOf(n, s) == IF s \in DOMAIN kvs[n] THEN kvs[n][s] ELSE NewKv(n)
Put(n, s, kv) == [q \in DOMAIN kvs[n] \cup {s} |-> IF q = s THEN kv ELSE kvs[n][q]]

\* prefill: a chunk at 0 clears the cache, the others must continue it.
BatchedPrefill(s, at, slot) ==
    LET pos == Len(fed[s])
        kv == IF pos = 0 THEN NewKv(1) ELSE KvOf(1, s)
        ran == ForwardHidden(1, kv, EmbedTokens(NextChunk(s)), pos, at, slot)
    IN
    /\ kind = "batched" /\ MayPrefill(s)
    /\ IF kv.tokens # pos
         THEN kvs' = [kvs EXCEPT ![1] = Put(1, s, kv)] /\ Failed({s})
         ELSE /\ kvs' = [kvs EXCEPT ![1] = Put(1, s, ran.kv)]
              /\ IF ran.ok THEN Answered({s}, Only(s, NextChunk(s)), LastChunk(s), Only(s, ran.x))
                           ELSE Failed({s})
    /\ Count(at)
    /\ UNCHANGED <<kind, stages, inner, resident, pipes, call>>

\* decode: the caches of the whole batch are taken out, run, and put back
\* even after a failure, which may tear each of them differently.
BatchedDecode(tok, at, slot) ==
    LET S == Decoding
        ran == [s \in S |-> ForwardHidden(1, kvs[1][s], EmbedTokens(<<tok[s]>>),
                                           kvs[1][s].tokens, at, slot[s])]
    IN
    /\ kind = "batched" /\ MayDecode
    /\ kvs' = [kvs EXCEPT ![1] = [s \in DOMAIN kvs[1] \cup S |->
                                    IF s \in S THEN ran[s].kv ELSE kvs[1][s]]]
    /\ IF at = NoLayer
         THEN Answered(S, [s \in S |-> <<tok[s]>>], TRUE, [s \in S |-> ran[s].x])
         ELSE Failed(S)
    /\ Count(at)
    /\ UNCHANGED <<kind, stages, inner, resident, pipes, call>>

-----------------------------------------------------------------------------
(* SequentialModel.                                                        *)
\* The stock model: offset 0 resets its cache, and its (t, t) mask does not
\* fit a non-empty one, so only single tokens may follow.
StockForward(cache, tokens, pos) ==
    LET x == EmbedTokens(tokens)
        cat == IF pos = 0 THEN x ELSE cache \o x
    IN [cache |-> cat, x |-> Attend(0, cat),
        ok |-> pos = 0 \/ Len(tokens) = 1]

\* The first upto tokens, each in a forward pass of its own.
TokenByToken(cache, tokens, pos, upto) ==
    LET after[i \in 0..upto] ==
            IF i = 0 THEN [cache |-> cache, x |-> <<>>, ok |-> TRUE]
            ELSE StockForward(after[i - 1].cache, <<tokens[i]>>, pos + i - 1)
    IN after[upto]

\* prefill: continuation chunks are fed token by token; "upto" tokens are
\* consumed before a failure, and the resident entry is then left as it was.
SequentialPrefill(s, upto) ==
    LET pos == Len(fed[s])
        tokens == NextChunk(s)
        now == IF pos = 0 THEN <<[seq |-> s, n |-> 0]>> ELSE resident
        ran == IF pos = 0 THEN StockForward(inner, tokens, 0)
                          ELSE TokenByToken(inner, tokens, pos, upto)
    IN
    /\ kind = "sequential" /\ MayPrefill(s)
    /\ upto \in 0..Len(tokens) /\ (upto < Len(tokens) => faults < MaxFaults)
    /\ IF now # <<[seq |-> s, n |-> pos]>>
         THEN resident' = now /\ UNCHANGED inner /\ Failed({s})
         ELSE /\ inner' = ran.cache
              /\ IF upto = Len(tokens) /\ ran.ok
                   THEN /\ resident' = <<[seq |-> s, n |-> pos + Len(tokens)]>>
                        /\ Answered({s}, Only(s, tokens), LastChunk(s), Only(s, <<ran.x>>))
                   ELSE resident' = now /\ Failed({s})
    /\ Count(IF upto = Len(NextChunk(s)) THEN NoLayer ELSE 0)
    /\ UNCHANGED <<kind, stages, kvs, pipes, call>>

SequentialDecode(tok, fails) ==
    LET s == CHOOSE q \in Decoding : TRUE
        ran == StockForward(inner, <<tok>>, resident[1].n)
    IN
    /\ kind = "sequential" /\ MayDecode
    /\ fails => faults < MaxFaults
    /\ IF resident = <<>> \/ resident[1].seq # s
         THEN UNCHANGED <<inner, resident>> /\ Failed({s})
         ELSE /\ inner' = ran.cache
              /\ IF fails
                   THEN UNCHANGED resident /\ Failed({s})
                   ELSE /\ resident' = <<[seq |-> s, n |-> resident[1].n + 1]>>
                        /\ Answered({s}, Only(s, <<tok>>), TRUE, Only(s, <<ran.x>>))
    /\ Count(IF fails THEN 0 ELSE NoLayer)
    /\ UNCHANGED <<kind, stages, kvs, pipes, call>>

-----------------------------------------------------------------------------
(* PipelinedModel and its workers.                                         *)
\* The call is over: an error for its sequence, or the last hidden states.
ReturnError(s) == call' = <<>> /\ Failed({s})

\* forward_remote, one worker: send the chunk, or fail on a closed stream; past
\* the last worker the head applies its output.
Forward(c, n, x) ==
    IF n > N
      THEN /\ call' = <<>>
           /\ Answered({c.seq}, Only(c.seq, c.tokens), c.want, Only(c.seq, x))
           /\ UNCHANGED flight
    ELSE IF link[n] # "up"
      THEN ReturnError(c.seq) /\ UNCHANGED flight
      ELSE /\ call' = <<[c EXCEPT !.stage = n]>>
           /\ flight' = [flight EXCEPT ![n] =
                            <<[seq |-> c.seq, pos |-> c.pos, wire |-> EncodeActivation(x)]>>]
           /\ UNCHANGED view

\* prefill and decode: the local stage runs, its cache is put back whatever
\* happens, then the hidden states go to the workers.
BeginCall(s, tokens, want, at, slot) ==
    LET pos == IF phase[s] = "decode" THEN KvOf(1, s).tokens ELSE Len(fed[s])
        kv == IF pos = 0 THEN NewKv(1) ELSE KvOf(1, s)
        ran == ForwardHidden(1, kv, EmbedTokens(tokens), pos, at, slot)
    IN
    /\ kind = "pipelined"
    /\ IF kv.tokens # pos
         THEN kvs' = [kvs EXCEPT ![1] = Put(1, s, kv)] /\ ReturnError(s) /\ UNCHANGED flight
         ELSE /\ kvs' = [kvs EXCEPT ![1] = Put(1, s, ran.kv)]
              /\ IF ran.ok
                   THEN Forward([seq |-> s, tokens |-> tokens, pos |-> pos, want |-> want,
                                 stage |-> 1], 2, ran.x)
                   ELSE ReturnError(s) /\ UNCHANGED flight
    /\ Count(at)
    /\ UNCHANGED <<kind, stages, inner, resident, link, reply>>

PipelinedPrefill(s, at, slot) ==
    MayPrefill(s) /\ BeginCall(s, NextChunk(s), LastChunk(s), at, slot)
PipelinedDecode(s, tok, at, slot) ==
    MayDecode /\ s \in Decoding /\ BeginCall(s, <<tok>>, TRUE, at, slot)

\* WorkerService::step on a decoded chunk: index_pos 0 clears the cache, any
\* other must continue it; the cache is put back even if a layer fails.
Step(n, chunk, at, slot) ==
    LET kv == IF chunk.pos = 0 THEN NewKv(n) ELSE KvOf(n, chunk.seq) IN
    IF ~DecodeActivation(chunk.wire) \/ kv.tokens # chunk.pos
      THEN [kv |-> kv, x |-> <<>>, ok |-> FALSE]
      ELSE ForwardHidden(n, kv, chunk.wire.data, chunk.pos, at, slot)

\* The forward task of worker n: one chunk, one answer.  A chunk it holds is
\* run to the end even when its stream has broken, and the answer is dropped.
WorkerStep(n, at, slot) ==
    LET chunk == flight[n][1]
        ran == Step(n, chunk, at, slot)
    IN
    /\ flight[n] # <<>> /\ link[n] # "poisoned"
    /\ kvs' = [kvs EXCEPT ![n] = Put(n, chunk.seq, ran.kv)]
    /\ flight' = [flight EXCEPT ![n] = <<>>]
    /\ reply' = IF link[n] = "up"
                  THEN [reply EXCEPT ![n] = <<[ok |-> ran.ok, wire |-> EncodeActivation(ran.x)]>>]
                  ELSE reply
    /\ Count(at)
    /\ UNCHANGED <<kind, stages, inner, resident, link, call, view>>

\* A panic in step poisons the worker's mutex: the stream closes and every
\* later request of the worker panics too.
WorkerPanics(n) ==
    /\ flight[n] # <<>> /\ link[n] # "poisoned" /\ faults < MaxFaults
    /\ link' = [link EXCEPT ![n] = "poisoned"]
    /\ flight' = [flight EXCEPT ![n] = <<>>]
    /\ kvs' = [kvs EXCEPT ![n] = Put(n, flight[n][1].seq, [slots |-> Nothing, tokens |-> 0])]
    /\ faults' = faults + 1
    /\ UNCHANGED <<kind, stages, inner, resident, reply, call, view>>

\* The coordinator receives the answer and goes on to the next worker.
Receive(n) ==
    LET c == call[1] IN
    /\ call # <<>> /\ c.stage = n /\ reply[n] # <<>>
    /\ reply' = [reply EXCEPT ![n] = <<>>]
    /\ IF reply[n][1].ok /\ DecodeActivation(reply[n][1].wire)
         THEN Forward(c, n + 1, reply[n][1].wire.data)
         ELSE ReturnError(c.seq) /\ UNCHANGED flight
    /\ UNCHANGED <<kind, stages, local, link, faults>>

\* Mutant: a worker that panicked keeps its stream open.
StreamPolled(n) ==
    /\ call # <<>> /\ call[1].stage = n
    /\ link[n] # "up" /\ reply[n] = <<>>
    /\ IF link[n] = "closed"
         THEN ReturnError(call[1].seq) /\ UNCHANGED <<kind, stages, local, pipes, faults>>
         ELSE UNCHANGED vars

\* It waits on a stream that has ended.
StreamEnded(n) ==
    /\ call # <<>> /\ call[1].stage = n
    /\ link[n] # "up" /\ reply[n] = <<>>
    /\ ReturnError(call[1].seq)
    /\ UNCHANGED <<kind, stages, local, pipes, faults>>

\* The stream to worker n breaks, with whatever answer it carried; it is never
\* opened again.  A chunk the worker holds stays with it.
LinkFails(n) ==
    /\ link[n] = "up" /\ faults < MaxFaults
    /\ link' = [link EXCEPT ![n] = "closed"]
    /\ reply' = [reply EXCEPT ![n] = <<>>]
    /\ faults' = faults + 1
    /\ UNCHANGED <<kind, stages, local, flight, call, view>>

\* The worker process is replaced: its caches and the chunk it held are gone.
WorkerRestarts(n) ==
    /\ faults < MaxFaults
    /\ kvs' = [kvs EXCEPT ![n] = Nothing]
    /\ flight' = [flight EXCEPT ![n] = <<>>]
    /\ reply' = [reply EXCEPT ![n] = <<>>]
    /\ link' = [link EXCEPT ![n] = "closed"]
    /\ faults' = faults + 1
    /\ UNCHANGED <<kind, stages, inner, resident, call, view>>

-----------------------------------------------------------------------------
(* drop_seq, called when a sequence finishes, fails or is preempted.       *)
Without(f, s) == [q \in DOMAIN f \ {s} |-> f[q]]

\* reset_remote asks every worker in turn; those in "deaf" do not answer, which
\* is only logged.
DropSeq(s, deaf, after) ==
    /\ kind \in {"batched", "sequential", "pipelined"} /\ call = <<>>
    /\ phase[s] \in {"prefill", "decode", "broken"}
    /\ broken # {} => s \in broken
    /\ phase[s] = "broken" => after = "finished"
    /\ \A n \in Workers : link[n] = "poisoned" => n \in deaf
    /\ deaf # {} => \A n \in deaf : link[n] # "up"
    /\ kvs' = [n \in DOMAIN kvs |-> IF n \in deaf THEN kvs[n] ELSE Without(kvs[n], s)]
    /\ resident' = IF resident # <<>> /\ resident[1].seq = s THEN <<>> ELSE resident
    /\ phase' = [phase EXCEPT ![s] = after]
    /\ fed' = [fed EXCEPT ![s] = <<>>]
    /\ broken' = broken \ {s}
    /\ UNCHANGED <<kind, stages, inner, pipes, call, answer, faults>>

-----------------------------------------------------------------------------
LocalCall ==
    \/ \E s \in Seqs, slot \in Slots :
          \E at \in FailureIn(1) : BatchedPrefill(s, at, slot) \/ PipelinedPrefill(s, at, slot)
    \/ \E tok \in [Decoding -> Tokens], slot \in [Decoding -> Slots] :
          \E at \in FailureIn(1) : BatchedDecode(tok, at, slot)
    \/ \E s \in Seqs : \E upto \in 0..ChunkLen : SequentialPrefill(s, upto)
    \/ \E tok \in Tokens, fails \in BOOLEAN : SequentialDecode(tok, fails)
    \/ \E s \in Seqs, tok \in Tokens, slot \in Slots :
          \E at \in FailureIn(1) : PipelinedDecode(s, tok, at, slot)

RemoteStep ==
    \E n \in Workers :
        \/ \E slot \in Slots : \E at \in FailureIn(n) : WorkerStep(n, at, slot)
        \/ Receive(n) \/ StreamEnded(n)

Fault == \E n \in Workers : WorkerPanics(n) \/ LinkFails(n) \/ WorkerRestarts(n)

\* Nothing was loaded, or every sequence has finished.
Terminated ==
    /\ kind = "refused" \/ \A s \in Seqs : phase[s] = "finished"
    /\ UNCHANGED vars

Next ==
    \/ \E arch \in Archs, ranges \in Slicings, backend \in Backends : Load(arch, ranges, backend)
    \/ kind \in {"batched", "sequential", "pipelined"} /\ LocalCall
    \/ RemoteStep
    \/ Fault
    \/ \E s \in Seqs, deaf \in SUBSET Workers, after \in {"waiting", "finished"} :
          DropSeq(s, deaf, after)
    \/ Terminated

Spec == Init /\ [][Next]_vars

\* A worker that lives runs the chunk it has; the coordinator waits on its
\* stream and sees it end.
LiveSpec == Spec /\ WF_vars(RemoteStep)

-----------------------------------------------------------------------------

Contract == INSTANCE BatchModel

\* Whichever runtime is loaded, it is a BatchModel: logits follow from exactly
\* the tokens of their own sequence, through chunked prefill, batching with
\* other sequences, preemption, torn layers, broken streams and workers that
\* restart; a call that cannot give them fails.
ImplementsBatchModel == Contract!Spec

\* Every call of the scheduler returns: it is never left waiting on a worker.
EveryCallReturns == call # <<>> ~> call = <<>>

=============================================================================
