------------------------------ MODULE Scheduler ------------------------------
(***************************************************************************)
(* The continuous-batching scheduler of cgn-infer                          *)
(* (services/cgn-infer/src/scheduler/mod.rs) over its KV block pool        *)
(* (src/kv/mod.rs, KvPool).  One engine thread loops: drain the channel of *)
(* submitted requests, admit, prefill one chunk, make KV room for every    *)
(* decoding sequence (preempting others), decode one token for the batch.  *)
(* HTTP tasks submit requests and drop their receivers at any moment.      *)
(*                                                                         *)
(* Tokens are counted, not represented; what the runtime answers (logits   *)
(* or an error) and what a sampled token turns out to be (end of sequence, *)
(* end of a stop string, undecodable, ordinary) is chosen freely.          *)
(***************************************************************************)
EXTENDS Integers, Sequences, FiniteSets, FiniteSetsExt, Functions

CONSTANTS
    Reqs,          \* requests that may be submitted, each once
    PromptLen,     \* prompt tokens of each request
    MaxTokens,     \* max_tokens of each request
    MaxSeqLen,     \* BatchModel::max_seq_len
    MaxBatch,      \* cfg.max_batch after clamping
    ChunkLen,      \* cfg.prefill_chunk after clamping
    BlockTokens,   \* kv::BLOCK_TOKENS
    TotalBlocks,   \* KvPool.total_blocks
    Fickle,        \* requests whose client may disconnect
    Faulty         \* whether the runtime and the detokenizer may fail

ASSUME SchedulerConstants ==
    /\ PromptLen \in [Reqs -> Nat] /\ MaxTokens \in [Reqs -> Nat]
    /\ MaxSeqLen \in Nat /\ TotalBlocks \in Nat \ {0}
    /\ MaxBatch \in Nat \ {0} /\ ChunkLen \in Nat \ {0} /\ BlockTokens \in Nat \ {0}
    /\ Fickle \subseteq Reqs /\ Faulty \in BOOLEAN

VARIABLES
    at,            \* where the engine loop is
    inbox,         \* the channel behind SchedulerHandle::submit
    waiting,       \* Scheduler.waiting
    running,       \* Scheduler.running, in admission order
    todo,          \* decoding sequences this step has still to serve, in running order
    phase,         \* Sequence.phase: "prefill" or "decode"
    done,          \* prompt tokens prefilled
    generated,     \* length of Sequence.generated
    kv,            \* positions in the runtime's KV state
    held,          \* KvPool.held; 0 for a missing entry
    used,          \* KvPool.used_blocks
    fate,          \* the finish_reason sent, or "dropped", or "open"
    listening      \* the client still holds its receiver

engine == <<waiting, running, phase, done, generated, kv, held, used, fate>>
vars == <<at, inbox, todo, engine, listening>>

Init ==
    /\ at = "drain"
    /\ inbox = <<>> /\ waiting = <<>> /\ running = <<>> /\ todo = {}
    /\ phase = [r \in Reqs |-> "prefill"]
    /\ done = [r \in Reqs |-> 0] /\ generated = [r \in Reqs |-> 0]
    /\ kv = [r \in Reqs |-> 0] /\ held = [r \in Reqs |-> 0] /\ used = 0
    /\ fate = [r \in Reqs |-> "unsent"]
    /\ listening = [r \in Reqs |-> TRUE]

-----------------------------------------------------------------------------
(* KvPool.                                                                 *)
BlocksFor(tokens) == (tokens + BlockTokens - 1) \div BlockTokens

\* KvPool::reserve succeeds when the growth fits the free blocks ...
CanReserve(r, tokens) ==
    \/ BlocksFor(tokens) <= held[r]
    \/ BlocksFor(tokens) - held[r] <= TotalBlocks - used

\* ... and then covers the tokens; it never shrinks a reservation.
Reserve(r, tokens) ==
    LET want == BlocksFor(tokens) IN
    IF want <= held[r]
      THEN UNCHANGED <<held, used>>
      ELSE /\ held' = [held EXCEPT ![r] = want]
           /\ used' = used + (want - held[r])

\* The blocks the members of S hold, each as its holder and a number.
BlocksOf(S) == UNION {{r} \X (1 .. held[r]) : r \in S}

\* KvPool::release.
Release(r) ==
    /\ held' = [held EXCEPT ![r] = 0]
    /\ used' = used - held[r]

-----------------------------------------------------------------------------
(* HTTP tasks.                                                             *)
Submit(r) ==
    /\ fate[r] = "unsent"
    /\ fate' = [fate EXCEPT ![r] = "open"]
    /\ inbox' = Append(inbox, r)
    /\ UNCHANGED <<at, waiting, running, todo, phase, done, generated, kv, held, used, listening>>

Disconnect(r) ==
    /\ r \in Fickle /\ fate[r] = "open" /\ listening[r]
    /\ listening' = [listening EXCEPT ![r] = FALSE]
    /\ UNCHANGED <<at, inbox, todo, engine>>

-----------------------------------------------------------------------------
(* The engine loop.                                                        *)
\* recv or try_recv, then enqueue: a prompt the model cannot hold is refused.
Enqueue ==
    LET r == Head(inbox) IN
    /\ at = "drain" /\ inbox # <<>>
    /\ inbox' = Tail(inbox)
    /\ IF PromptLen[r] = 0 \/ PromptLen[r] >= MaxSeqLen
         THEN fate' = [fate EXCEPT ![r] = "error"] /\ UNCHANGED waiting
         ELSE waiting' = Append(waiting, r) /\ UNCHANGED fate
    /\ UNCHANGED <<at, running, todo, phase, done, generated, kv, held, used, listening>>

\* The channel is empty and there is work: step() begins.
Drained ==
    /\ at = "drain" /\ inbox = <<>>
    /\ waiting # <<>> \/ running # <<>>
    /\ at' = "admit"
    /\ UNCHANGED <<inbox, todo, engine, listening>>

MayAdmit ==
    /\ Len(running) < MaxBatch
    /\ waiting # <<>>
    /\ CanReserve(Head(waiting), PromptLen[Head(waiting)] + 1)

\* One iteration of admit(): only the front of the queue is considered.
Admit ==
    LET r == Head(waiting) IN
    /\ at = "admit" /\ MayAdmit
    /\ Reserve(r, PromptLen[r] + 1)
    /\ waiting' = Tail(waiting)
    /\ running' = Append(running, r)
    /\ UNCHANGED <<at, inbox, todo, phase, done, generated, kv, fate, listening>>

AdmitDone ==
    /\ at = "admit" /\ ~MayAdmit
    /\ at' = "prefill"
    /\ UNCHANGED <<inbox, todo, engine, listening>>

Budget(r) == Min({MaxTokens[r], MaxSeqLen - PromptLen[r]})

\* What push_token may meet: the sampled token ends the sequence, is text the
\* client no longer takes, cannot be decoded, completes a stop string, or is
\* ordinary.  Text held back is not sent, so a vanished client may go unnoticed.
Samples(r) ==
    {"eos", "stop", "text"} \cup (IF listening[r] THEN {} ELSE {"unsendable"})
                            \cup (IF Faulty THEN {"garbled"} ELSE {})

TokensAfter(r, sample) == IF sample = "eos" THEN generated[r] ELSE generated[r] + 1

FateAfter(r, sample) ==
    CASE sample \in {"eos", "stop"} -> "stop"
      [] sample = "garbled" -> "error"
      [] sample = "unsendable" -> "dropped"
      [] OTHER -> IF TokensAfter(r, sample) >= Budget(r) THEN "length" ELSE "open"

\* running.iter().position(..) and its like: the index of the first, or the
\* last, running sequence that is a member of S.
First(i, S) == running[i] \in S /\ \A j \in 1 .. i - 1 : running[j] \notin S
Final(i, S) == running[i] \in S /\ \A j \in i + 1 .. Len(running) : running[j] \notin S

\* Vec::remove.
RemoveAt(s, i) == SubSeq(s, 1, i - 1) \o SubSeq(s, i + 1, Len(s))

\* Mutant: the blocks are not released.
FinishUnreleased(i, last) ==
    /\ running' = RemoveAt(running, i)
    /\ UNCHANGED <<held, used>>
    /\ fate' = [fate EXCEPT ![running[i]] = last]

\* finish / finish_silent: out of the running set, the blocks released, the
\* last frame sent.
Finish(i, last) ==
    /\ running' = RemoveAt(running, i)
    /\ Release(running[i])
    /\ fate' = [fate EXCEPT ![running[i]] = last]

\* push_token of the token sampled for running[i]; newKv is what the runtime
\* was left with.
PushToken(i, sample, newKv) ==
    LET r == running[i] IN
    /\ generated' = [generated EXCEPT ![r] = TokensAfter(r, sample)]
    /\ IF FateAfter(r, sample) = "open"
         THEN kv' = newKv /\ UNCHANGED <<running, held, used, fate>>
         ELSE kv' = [kv EXCEPT ![r] = 0] /\ Finish(i, FateAfter(r, sample))

\* The runtime failed for running[i].
Fail(i) ==
    /\ Finish(i, "error")
    /\ kv' = [kv EXCEPT ![running[i]] = 0]
    /\ UNCHANGED generated

InPhase(p) == {r \in Range(running) : phase[r] = p}

\* prefill_one_chunk: the oldest prefilling sequence advances by one chunk of
\* its PROMPT; the last chunk yields logits and the first sampled token.
PrefillChunk(i) ==
    LET r == running[i]
        take == Min({PromptLen[r] - done[r], ChunkLen})
        last == take = PromptLen[r] - done[r]
        newKv == [kv EXCEPT ![r] = done[r] + take]
    IN
    /\ First(i, InPhase("prefill"))
    /\ \/ /\ ~last
          /\ done' = [done EXCEPT ![r] = @ + take]
          /\ kv' = newKv
          /\ UNCHANGED <<waiting, running, phase, generated, held, used, fate>>
       \/ /\ last
          /\ phase' = [phase EXCEPT ![r] = "decode"]
          /\ \E s \in Samples(r) : PushToken(i, s, newKv)
          /\ UNCHANGED <<waiting, done>>
       \/ /\ Faulty
          /\ Fail(i)
          /\ UNCHANGED <<waiting, phase, done>>

\* Then decode_step lists its candidates.
PrefillOneChunk ==
    /\ at = "prefill"
    /\ at' = "room"
    /\ \/ InPhase("prefill") = {} /\ UNCHANGED engine
       \/ \E i \in DOMAIN running : PrefillChunk(i)
    /\ todo' = InPhase("decode")'
    /\ UNCHANGED <<inbox, listening>>

\* Mutants: prefill goes on where it was; the generated tokens are forgotten.
PreemptKeepsDone(i) ==
    /\ running' = RemoveAt(running, i)
    /\ waiting' = <<running[i]>> \o waiting
    /\ Release(running[i])
    /\ kv' = [kv EXCEPT ![running[i]] = 0]
    /\ phase' = [phase EXCEPT ![running[i]] = "prefill"]
    /\ UNCHANGED <<done, generated, fate>>
PreemptForgets(i) ==
    /\ running' = RemoveAt(running, i)
    /\ waiting' = <<running[i]>> \o waiting
    /\ Release(running[i])
    /\ kv' = [kv EXCEPT ![running[i]] = 0]
    /\ phase' = [phase EXCEPT ![running[i]] = "prefill"]
    /\ done' = [done EXCEPT ![running[i]] = 0]
    /\ generated' = [generated EXCEPT ![running[i]] = 0]
    /\ UNCHANGED fate

\* preempt: back to the FRONT of the wait queue, KV and blocks dropped.
Preempt(i) ==
    /\ running' = RemoveAt(running, i)
    /\ waiting' = <<running[i]>> \o waiting
    /\ Release(running[i])
    /\ kv' = [kv EXCEPT ![running[i]] = 0]
    /\ phase' = [phase EXCEPT ![running[i]] = "prefill"]
    /\ done' = [done EXCEPT ![running[i]] = 0]
    /\ UNCHANGED <<generated, fate>>

\* One iteration of ensure_room for the next candidate still running, which
\* grows by one token: reserve, or preempt the youngest other sequence, or itself.
EnsureRoom(i) ==
    LET r == running[i]
        need == PromptLen[r] + generated[r] + 1
        others == Range(running) \ {r}
    IN
    /\ at = "room" /\ First(i, todo)
    /\ \/ /\ CanReserve(r, need)
          /\ Reserve(r, need)
          /\ todo' = todo \ {r}
          /\ UNCHANGED <<waiting, running, phase, done, generated, kv, fate>>
       \/ /\ ~CanReserve(r, need)
          /\ \E v \in DOMAIN running : Final(v, others) /\ Preempt(v)
          /\ UNCHANGED todo
       \/ /\ ~CanReserve(r, need) /\ others = {}
          /\ Preempt(i)
          /\ todo' = todo \ {r}
    /\ UNCHANGED <<at, inbox, listening>>

RoomDone ==
    /\ at = "room" /\ todo \cap Range(running) = {}
    /\ at' = "decode" /\ todo' = {}
    /\ UNCHANGED <<inbox, engine, listening>>

\* The rest of decode_step: the runtime computes one token for every sequence
\* still decoding, or fails for all of them.
DecodeStep ==
    LET batch == InPhase("decode") IN
    /\ at = "decode"
    /\ todo' = batch
    /\ \/ /\ batch = {}
          /\ at' = "drain" /\ UNCHANGED kv
       \/ /\ batch # {}
          /\ at' = "emit"
          /\ kv' = [r \in Reqs |-> IF r \in batch THEN kv[r] + 1 ELSE kv[r]]
       \/ /\ batch # {} /\ Faulty
          /\ at' = "fail" /\ UNCHANGED kv
    /\ UNCHANGED <<inbox, waiting, running, phase, done, generated, held, used, fate, listening>>

\* Its answers are handed out from the back of the batch.
Answer(i) ==
    LET r == running[i] IN
    /\ Final(i, todo)
    /\ \/ at = "emit" /\ \E s \in Samples(r) : PushToken(i, s, kv)
       \/ at = "fail" /\ Fail(i)
    /\ todo' = todo \ {r}
    /\ at' = IF todo = {r} THEN "drain" ELSE at
    /\ UNCHANGED <<inbox, waiting, phase, done, listening>>

EngineStep ==
    \/ Enqueue \/ Drained \/ Admit \/ AdmitDone \/ PrefillOneChunk
    \/ \E i \in DOMAIN running : EnsureRoom(i) \/ Answer(i)
    \/ RoomDone \/ DecodeStep

\* Everything is answered and the engine thread is blocked in recv().
Idle ==
    /\ at = "drain" /\ inbox = <<>> /\ waiting = <<>> /\ running = <<>>
    /\ \A r \in Reqs : fate[r] # "unsent"
    /\ UNCHANGED vars

Next ==
    \/ EngineStep
    \/ \E r \in Reqs : Submit(r) \/ Disconnect(r)
    \/ Idle

Spec == Init /\ [][Next]_vars

\* The engine is a dedicated thread: it always takes its next step.
LiveSpec == Spec /\ WF_vars(EngineStep)

-----------------------------------------------------------------------------
(***************************************************************************)
(* Safety.                                                                 *)
(***************************************************************************)
\* Neither a request nor a block is lost or doubled, on any path of finish,
\* preempt and a failed batch.  A request is in one place (the channel, the wait
\* queue, the running set) until it is answered; the pool counts exactly the
\* blocks its sequences hold, and only running sequences hold any.
Conserved ==
    LET places == inbox \o waiting \o running IN
    /\ IsInjective(places)
    /\ \A r \in Reqs : fate[r] = "open" <=> r \in Range(places)
    /\ used = Cardinality(BlocksOf(Reqs)) /\ used <= TotalBlocks
    /\ \A r \in Reqs : r \notin Range(running) => held[r] = 0 /\ kv[r] = 0

\* The contract of BatchModel: prefill continues exactly where the runtime's KV
\* ends, only prefilled sequences are decoded, and neither goes past what the
\* sequence has reserved, so that "admission implies the prefill can complete".
RuntimeContract ==
    \A i \in DOMAIN running :
        LET r == running[i]
            grows == IF at = "decode" /\ phase[r] = "decode" THEN 1 ELSE 0
        IN /\ IF phase[r] = "prefill" THEN kv[r] = done[r] /\ done[r] < PromptLen[r]
                                      ELSE kv[r] >= PromptLen[r]
           /\ kv[r] + grows <= held[r] * BlockTokens
           /\ PromptLen[r] + 1 <= held[r] * BlockTokens

\* Between steps the runtime's KV of a decoding sequence covers its prompt and
\* all its generated tokens but the last ("the re-queued prompt is prompt +
\* generated-so-far").
KvMatchesTokens ==
    at = "drain" =>
        \A i \in DOMAIN running :
            LET r == running[i] IN
            phase[r] = "decode" => kv[r] = PromptLen[r] + generated[r] - 1

(***************************************************************************)
(* Liveness.                                                               *)
(***************************************************************************)
\* Sequences preempt each other, but every submitted request whose prompt fits
\* the pool is answered: the engine neither livelocks nor forgets one.
EveryRequestEnds ==
    \A r \in Reqs : fate[r] = "open" ~> fate[r] # "open"

=============================================================================
