---------------------------- MODULE RuntimeProofs ----------------------------
(***************************************************************************)
(* Whichever runtime is loaded implements the BatchModel trait (Runtime,   *)
(* BatchModel), for any slicing of any number of layers, any prompts, any  *)
(* chunk and batch size and any number of faults.                          *)
(*                                                                         *)
(* The contract speaks of the tokens of a sequence, the runtimes keep KV   *)
(* caches.  Holds says that a cache is the one these tokens leave behind.  *)
(* It is an invariant of the local caches, of the cache of the stock       *)
(* model while it is resident, and of every worker whose stream is up;     *)
(* during a pipelined call the stages before the call's have the tokens of *)
(* the call too, and the chunk or the answer at its stage holds the hidden *)
(* states of these tokens.  A worker whose stream is not up may hold       *)
(* anything: no call is ever sent to it again.                             *)
(***************************************************************************)
EXTENDS Runtime, WellFoundedInduction, TLAPS

\* The larger steps need more time than the backends have by default.
USE SMTT(30), ZenonT(30)

-----------------------------------------------------------------------------
(* What the tokens h leave in a cache, and the hidden states of them.      *)

\* What position i of h is when it enters layer l.
Input(l, h, i) == IF l = 0 THEN <<h[i]>> ELSE SubSeq(h, 1, i)

Cached(l, h) == [i \in 1..Len(h) |-> Input(l, h, i)]

\* The positions of h after the first pos.
Fresh(l, h, pos) == [i \in 1..(Len(h) - pos) |-> Input(l, h, pos + i)]

GoodKv(r, kv, h) ==
    /\ kv.tokens = Len(h)
    /\ DOMAIN kv.slots = LayersOf(r)
    /\ \A l \in LayersOf(r) : kv.slots[l] = Cached(l, h)

\* The caches K of a stage with the layers r hold h for s.
Holds(r, K, s, h) == s \in DOMAIN K /\ GoodKv(r, K[s], h)

-----------------------------------------------------------------------------
(* The invariant.                                                          *)
Kinds == {"batched", "sequential", "pipelined"}
LayerRanges == [start : Nat, end : Nat]
Phase == {"waiting", "prefill", "decode", "broken", "finished"}

Shape ==
    /\ kind \in Kinds \cup {"none", "refused"} /\ stages \in Seq(LayerRanges)
    /\ DOMAIN kvs = 1..N /\ DOMAIN link = 1..N /\ DOMAIN flight = 1..N /\ DOMAIN reply = 1..N
    /\ fed \in [Seqs -> Seq(Tokens)] /\ phase \in [Seqs -> Phase] /\ broken \subseteq Seqs

\* The stages of a runtime follow each other from layer 0 on.
Tiled ==
    /\ kind \in Kinds =>
         /\ N >= 1 /\ stages[1].start = 0
         /\ \A n \in 1..N : stages[n].start < stages[n].end
         /\ \A n \in 1..N : n < N => stages[n + 1].start = stages[n].end
    /\ kind \in {"batched", "sequential"} => N = 1 /\ stages[1].end = NLayers

\* How far a sequence has come in each phase.
Phases ==
    \A s \in Seqs :
        /\ kind = "none" \/ phase[s] = "waiting" => fed[s] = <<>>
        /\ phase[s] = "prefill" => Len(fed[s]) < Len(Prompt[s])
        /\ phase[s] = "decode" => fed[s] # <<>>

Batched ==
    kind = "batched" =>
        \A s \in Seqs : fed[s] # <<>> => Holds(stages[1], kvs[1], s, fed[s])

Sequential ==
    kind = "sequential" =>
        \A s \in Seqs : fed[s] # <<>> /\ resident # <<>> /\ resident[1].seq = s =>
            resident = <<[seq |-> s, n |-> Len(fed[s])]>> /\ inner = EmbedTokens(fed[s])

CallRecord == [seq : Seqs, tokens : Seq(Tokens), pos : Nat, want : BOOLEAN, stage : Nat]

\* What the scheduler may ask for.
Asked(c) ==
    /\ c \in CallRecord /\ c.tokens # <<>> /\ Len(c.tokens) <= MaxSeqLen
    /\ c.pos = Len(fed[c.seq])
    /\ ~c.want => Len(fed[c.seq]) + Len(c.tokens) < Len(Prompt[c.seq])

Calling ==
    call # <<>> =>
        /\ kind = "pipelined" /\ broken = {}
        /\ call = <<call[1]>> /\ Asked(call[1]) /\ call[1].stage \in 2..N

Up(n) == n = 1 \/ link[n] = "up"
Passed(n, s) == call # <<>> /\ call[1].seq = s /\ n < call[1].stage
Reached(n, s) == call # <<>> /\ call[1].seq = s /\ n = call[1].stage
Goal(s) == fed[s] \o call[1].tokens

\* A stream carries only the chunk or the answer of the call under way.
StreamAt(n) ==
    /\ reply[n] # <<>> => Up(n) /\ flight[n] = <<>>
    /\ Up(n) /\ (call = <<>> \/ call[1].stage # n) => flight[n] = <<>> /\ reply[n] = <<>>

Streams == \A n \in 1..N : StreamAt(n)

Chunk(n, s) == [seq |-> s, pos |-> Len(fed[s]),
                wire |-> EncodeActivation(Fresh(stages[n].start, Goal(s), Len(fed[s])))]
Result(n, s) == [ok |-> TRUE,
                 wire |-> EncodeActivation(Fresh(stages[n].end, Goal(s), Len(fed[s])))]

StageInv(n, s) ==
    /\ Passed(n, s) => Holds(stages[n], kvs[n], s, Goal(s))
    /\ ~Passed(n, s) /\ fed[s] # <<>> /\ (Reached(n, s) => flight[n] # <<>>) =>
          Holds(stages[n], kvs[n], s, fed[s])
    /\ Reached(n, s) /\ flight[n] # <<>> => flight[n] = <<Chunk(n, s)>>
    /\ Reached(n, s) /\ reply[n] # <<>> /\ reply[n][1].ok =>
          Holds(stages[n], kvs[n], s, Goal(s)) /\ reply[n] = <<Result(n, s)>>

Pipelined == kind = "pipelined" => Streams /\ \A n \in 1..N, s \in Seqs : Up(n) => StageInv(n, s)

RuntimeInv ==
    Shape /\ Tiled /\ Phases /\ Batched /\ Sequential /\ Calling /\ Pipelined

-----------------------------------------------------------------------------
(* Sequences.                                                              *)
LEMMA SeqEqual ==
    ASSUME NEW X, NEW Y, NEW s \in Seq(X), NEW u \in Seq(Y), Len(s) = Len(u),
           \A i \in 1..Len(s) : s[i] = u[i]
    PROVE  s = u
OBVIOUS

LEMMA ConcatProperties ==
    ASSUME NEW X, NEW s \in Seq(X), NEW u \in Seq(X)
    PROVE  /\ s \o u \in Seq(X) /\ Len(s \o u) = Len(s) + Len(u)
           /\ \A i \in 1..(Len(s) + Len(u)) :
                (s \o u)[i] = IF i <= Len(s) THEN s[i] ELSE u[i - Len(s)]
OBVIOUS

Joined(s, u, a) ==
    /\ Len(a) = Len(s) + Len(u)
    /\ \A q \in 1..(Len(s) + Len(u)) : a[q] = IF q <= Len(s) THEN s[q] ELSE u[q - Len(s)]

LEMMA JoinedAssociative ==
    ASSUME NEW X, NEW s \in Seq(X), NEW u \in Seq(X), NEW v \in Seq(X),
           NEW a \in Seq(X), NEW b \in Seq(X), NEW c \in Seq(X), NEW d \in Seq(X),
           Joined(s, u, a), Joined(a, v, b), Joined(u, v, c), Joined(s, c, d)
    PROVE  b = d
<1>1. PICK i \in Nat, j \in Nat, k \in Nat : i = Len(s) /\ j = Len(u) /\ k = Len(v)
  OBVIOUS
<1>2. Len(a) = i + j /\ Len(b) = (i + j) + k /\ Len(c) = j + k /\ Len(d) = i + (j + k)
  BY <1>1 DEF Joined
<1>3. ASSUME NEW q \in 1..(i + j + k) PROVE b[q] = d[q]
  <2>1. b[q] = IF q <= i + j THEN a[q] ELSE v[q - (i + j)]
    BY <1>1, <1>2 DEF Joined
  <2>2. d[q] = IF q <= i THEN s[q] ELSE c[q - i]
    BY <1>1, <1>2 DEF Joined
  <2>3. q <= i + j => a[q] = IF q <= i THEN s[q] ELSE u[q - i]
    BY <1>1, <1>2 DEF Joined
  <2>4. ASSUME NEW p \in 1..(j + k) PROVE c[p] = IF p <= j THEN u[p] ELSE v[p - j]
    BY <1>1, <1>2 DEF Joined
  <2>5. i < q => c[q - i] = IF q - i <= j THEN u[q - i] ELSE v[(q - i) - j]
    BY <2>4
  <2>6. (q - i) - j = q - (i + j)
    OBVIOUS
  <2>. QED
    BY <2>1, <2>2, <2>3, <2>5, <2>6
<1>. QED
  BY <1>2, <1>3, SeqEqual

Associates(s, u, v) == (s \o u) \o v = s \o (u \o v)

LEMMA ConcatAssociative ==
    ASSUME NEW X, NEW s \in Seq(X), NEW u \in Seq(X), NEW v \in Seq(X)
    PROVE  Associates(s, u, v)
<1>1. ASSUME NEW f \in Seq(X), NEW g \in Seq(X) PROVE f \o g \in Seq(X) /\ Joined(f, g, f \o g)
  BY ConcatProperties, Zenon DEF Joined
<1>2. s \o u \in Seq(X) /\ u \o v \in Seq(X)
  BY <1>1, Zenon
<1>3. (s \o u) \o v \in Seq(X) /\ s \o (u \o v) \in Seq(X)
  BY <1>1, <1>2, Zenon
<1>4. Joined(s, u, s \o u) /\ Joined(u, v, u \o v)
  BY <1>1, Zenon
<1>5. Joined(s \o u, v, (s \o u) \o v) /\ Joined(s, u \o v, s \o (u \o v))
  BY <1>1, <1>2, Zenon
<1>. QED
  BY <1>2, <1>3, <1>4, <1>5, JoinedAssociative, Zenon DEF Associates

LEMMA Prefix ==
    ASSUME NEW X, NEW s \in Seq(X), NEW n \in Nat, n <= Len(s)
    PROVE  /\ SubSeq(s, 1, n) \in Seq(X) /\ Len(SubSeq(s, 1, n)) = n
           /\ \A i \in 1..n : SubSeq(s, 1, n)[i] = s[i]
OBVIOUS

LEMMA Segment ==
    ASSUME NEW X, NEW s \in Seq(X), NEW m \in Nat, NEW n \in Nat, m < n, n <= Len(s)
    PROVE  SubSeq(s, m + 1, n) \in Seq(X) /\ Len(SubSeq(s, m + 1, n)) = n - m
OBVIOUS

LEMMA PrefixFull == ASSUME NEW X, NEW s \in Seq(X) PROVE SubSeq(s, 1, Len(s)) = s
OBVIOUS

LEMMA Nonempty == ASSUME NEW X, NEW s \in Seq(X) PROVE s # <<>> <=> Len(s) > 0
OBVIOUS

LEMMA Listed ==
    ASSUME NEW X, NEW n \in Nat, NEW f, f = [i \in 1..n |-> f[i]], \A i \in 1..n : f[i] \in X
    PROVE  f \in Seq(X) /\ Len(f) = n
OBVIOUS

\* Of a nonempty set of numbers, the least.
LEMMA Least ==
    ASSUME NEW S \in SUBSET Nat, S # {}
    PROVE  \E n \in S : \A m \in S : n <= m
<1>1. PICK less : less = OpToRel(<, Nat)
  BY Zenon
<1>2. \A y, x \in Nat : y < x => <<y, x>> \in less
  BY <1>1 DEF OpToRel
<1>3. IsWellFoundedOn(less, Nat)
  BY <1>1, NatLessThanWellFounded, Zenon
<1>4. PICK n \in S : \A m \in S : ~ (<<m, n>> \in less)
  <2>1. S \subseteq Nat
    OBVIOUS
  <2>. QED
    BY <1>3, <2>1, WFMin, Zenon
<1>5. ASSUME NEW m \in S PROVE n <= m
  <2>1. m \in Nat /\ n \in Nat
    OBVIOUS
  <2>2. ~(m < n)
    BY <1>2, <1>4, <2>1, Zenon
  <2>. QED
    BY <2>1, <2>2
<1>. QED
  BY <1>5, Zenon

-----------------------------------------------------------------------------
(* Attention.                                                              *)
History == Seq(Tokens)

LEMMA InputType ==
    ASSUME NEW l \in Nat, NEW h \in History, NEW i \in 1..Len(h)
    PROVE  /\ Input(l, h, i) \in Seq(Tokens) /\ Len(Input(l, h, i)) > 0
           /\ LastOf(Input(l, h, i)) = h[i]
<1>1. CASE l = 0
  BY <1>1 DEF Input, LastOf, History
<1>2. CASE l # 0
  <2>1. PICK p : p = SubSeq(h, 1, i)
    BY Zenon
  <2>2. i \in Nat /\ i <= Len(h) /\ i >= 1
    BY DEF History
  <2>3. p \in Seq(Tokens) /\ Len(p) = i /\ \A j \in 1..i : p[j] = h[j]
    BY <2>1, <2>2, Prefix DEF History
  <2>4. Input(l, h, i) = p
    BY <1>2, <2>1, Zenon DEF Input
  <2>. QED
    BY <2>2, <2>3, <2>4 DEF LastOf
<1>. QED
  BY <1>1, <1>2, Zenon

LEMMA CachedType ==
    ASSUME NEW l \in Nat, NEW h \in History
    PROVE  /\ Cached(l, h) \in Seq(Seq(Tokens)) /\ Len(Cached(l, h)) = Len(h)
           /\ DOMAIN Cached(l, h) = 1..Len(h)
           /\ \A i \in 1..Len(h) : Cached(l, h)[i] = Input(l, h, i)
<1>1. PICK f : f = Cached(l, h)
  BY Zenon
<1>2. Len(h) \in Nat
  BY DEF History
<1>3. DOMAIN f = 1..Len(h) /\ \A i \in 1..Len(h) : f[i] = Input(l, h, i)
  BY <1>1 DEF Cached
<1>4. f = [i \in 1..Len(h) |-> f[i]]
  BY <1>1 DEF Cached
<1>5. f \in Seq(Seq(Tokens)) /\ Len(f) = Len(h)
  BY <1>2, <1>3, <1>4, Listed, InputType
<1>. QED
  BY <1>1, <1>3, <1>5

LEMMA FreshType ==
    ASSUME NEW l \in Nat, NEW h \in History, NEW pos \in Nat, pos <= Len(h)
    PROVE  /\ Fresh(l, h, pos) \in Seq(Seq(Tokens)) /\ Len(Fresh(l, h, pos)) = Len(h) - pos
           /\ \A i \in 1..(Len(h) - pos) : Fresh(l, h, pos)[i] = Input(l, h, pos + i)
<1>1. PICK f : f = Fresh(l, h, pos)
  BY Zenon
<1>2. PICK k \in Nat : k = Len(h) - pos
  BY DEF History
<1>3. DOMAIN f = 1..k /\ \A i \in 1..k : f[i] = Input(l, h, pos + i)
  BY <1>1, <1>2 DEF Fresh
<1>4. f = [i \in 1..k |-> f[i]]
  BY <1>1, <1>2 DEF Fresh
<1>5. \A i \in 1..k : pos + i \in 1..Len(h)
  BY <1>2 DEF History
<1>6. f \in Seq(Seq(Tokens)) /\ Len(f) = k
  BY <1>3, <1>4, <1>5, Listed, InputType
<1>. QED
  BY <1>1, <1>2, <1>3, <1>6

\* The positions of a history's beginning enter a layer as they do in the
\* history.
LEMMA InputOfPrefix ==
    ASSUME NEW l \in Nat, NEW h \in History, NEW n \in Nat, n <= Len(h), NEW i \in 1..n,
           NEW g \in History, Len(g) = n, \A j \in 1..n : g[j] = h[j]
    PROVE  Input(l, g, i) = Input(l, h, i)
<1>1. CASE l = 0
  BY <1>1 DEF Input
<1>2. CASE l # 0
  <2>1. PICK a, b : a = SubSeq(g, 1, i) /\ b = SubSeq(h, 1, i)
    BY Zenon
  <2>2. i \in Nat /\ i <= Len(h) /\ i <= Len(g) /\ i <= n
    BY DEF History
  <2>3. a \in Seq(Tokens) /\ Len(a) = i /\ \A j \in 1..i : a[j] = g[j]
    BY <2>1, <2>2, Prefix DEF History
  <2>4. b \in Seq(Tokens) /\ Len(b) = i /\ \A j \in 1..i : b[j] = h[j]
    BY <2>1, <2>2, Prefix DEF History
  <2>5. \A j \in 1..Len(a) : a[j] = b[j]
    BY <2>2, <2>3, <2>4
  <2>6. a = b
    BY <2>3, <2>4, <2>5, SeqEqual
  <2>. QED
    BY <1>2, <2>1, <2>6, Zenon DEF Input
<1>. QED
  BY <1>1, <1>2, Zenon

LEMMA PrefixCached ==
    ASSUME NEW l \in Nat, NEW h \in History, NEW n \in Nat, n <= Len(h)
    PROVE  /\ SubSeq(h, 1, n) \in History /\ Len(SubSeq(h, 1, n)) = n
           /\ SubSeq(Cached(l, h), 1, n) = Cached(l, SubSeq(h, 1, n))
<1>1. PICK g, c, d : g = SubSeq(h, 1, n) /\ c = Cached(l, h) /\ d = Cached(l, g)
  BY Zenon
<1>2. g \in History /\ Len(g) = n /\ \A j \in 1..n : g[j] = h[j]
  BY <1>1, Prefix DEF History
<1>3. c \in Seq(Seq(Tokens)) /\ Len(c) = Len(h) /\ \A i \in 1..Len(h) : c[i] = Input(l, h, i)
  BY <1>1, CachedType, Zenon
<1>4. d \in Seq(Seq(Tokens)) /\ Len(d) = n /\ \A i \in 1..n : d[i] = Input(l, g, i)
  BY <1>1, <1>2, CachedType, Zenon
<1>5. PICK e : e = SubSeq(c, 1, n)
  BY Zenon
<1>6. e \in Seq(Seq(Tokens)) /\ Len(e) = n /\ \A i \in 1..n : e[i] = c[i]
  BY <1>3, <1>5, Prefix
<1>7. \A i \in 1..n : Input(l, g, i) = Input(l, h, i)
  BY <1>2, InputOfPrefix
<1>8. \A i \in 1..Len(e) : e[i] = d[i]
  <2>1. \A i \in 1..n : i \in 1..Len(h)
    BY DEF History
  <2>. QED
    BY <1>3, <1>4, <1>6, <1>7, <2>1, Zenon
<1>9. e = d
  BY <1>4, <1>6, <1>8, SeqEqual
<1>. QED
  BY <1>1, <1>2, <1>5, <1>9, Zenon

\* What a cache holds of g, followed by the positions of d, is what it holds
\* of both.
LEMMA CachedGrows ==
    ASSUME NEW l \in Nat, NEW g \in History, NEW d \in History
    PROVE  /\ g \o d \in History /\ Len(g \o d) = Len(g) + Len(d)
           /\ Cached(l, g) \o Fresh(l, g \o d, Len(g)) = Cached(l, g \o d)
<1>1. PICK h, c, f, e : /\ h = g \o d /\ c = Cached(l, g) /\ f = Fresh(l, h, Len(g))
                        /\ e = Cached(l, h)
  BY Zenon
<1>2. PICK n \in Nat, m \in Nat : n = Len(g) /\ m = Len(d)
  BY DEF History
<1>3. h \in History /\ Len(h) = n + m /\ \A j \in 1..n : h[j] = g[j]
  <2>1. h \in Seq(Tokens) /\ Len(h) = n + m
        /\ \A i \in 1..(n + m) : h[i] = IF i <= n THEN g[i] ELSE d[i - n]
    BY <1>1, <1>2, ConcatProperties, Zenon DEF History
  <2>. QED
    BY <2>1 DEF History
<1>4. c \in Seq(Seq(Tokens)) /\ Len(c) = n /\ \A i \in 1..n : c[i] = Input(l, g, i)
  BY <1>1, <1>2, CachedType, Zenon
<1>5. f \in Seq(Seq(Tokens)) /\ Len(f) = m /\ \A i \in 1..m : f[i] = Input(l, h, n + i)
  <2>1. n <= Len(h) /\ Len(h) - n = m
    BY <1>3
  <2>2. f = Fresh(l, h, n)
    BY <1>1, <1>2, Zenon
  <2>. QED
    BY <1>3, <2>1, <2>2, FreshType, ZenonT(60)
<1>6. e \in Seq(Seq(Tokens)) /\ Len(e) = n + m /\ \A i \in 1..(n + m) : e[i] = Input(l, h, i)
  BY <1>1, <1>3, CachedType, Zenon
<1>7. \A i \in 1..n : Input(l, g, i) = Input(l, h, i)
  BY <1>2, <1>3, InputOfPrefix
<1>8. PICK u : u = c \o f
  BY Zenon
<1>9. u \in Seq(Seq(Tokens)) /\ Len(u) = n + m
      /\ \A i \in 1..(n + m) : u[i] = IF i <= n THEN c[i] ELSE f[i - n]
  BY <1>4, <1>5, <1>8, ConcatProperties, ZenonT(60)
<1>10. ASSUME NEW i \in 1..Len(u) PROVE u[i] = e[i]
  <2>1. CASE i <= n
    BY <1>4, <1>6, <1>7, <1>9, <2>1
  <2>2. CASE ~(i <= n)
    <3>1. i - n \in 1..m /\ n + (i - n) = i
      BY <1>9, <2>2
    <3>. QED
      BY <1>5, <1>6, <1>9, <2>2, <3>1
  <2>. QED
    BY <2>1, <2>2
<1>11. u = e
  BY <1>6, <1>9, <1>10, SeqEqual
<1>. QED
  BY <1>1, <1>2, <1>3, <1>8, <1>11, Zenon

\* A position that sees what the history h leaves in a layer gets h.
LEMMA AttendCached ==
    ASSUME NEW l \in Nat, NEW h \in History PROVE Attend(l, Cached(l, h)) = h
<1>0. PICK n \in Nat : n = Len(h)
  BY DEF History
<1>1. PICK v : v = Cached(l, h)
  BY Zenon
<1>2. DOMAIN v = 1..n /\ \A i \in 1..n : v[i] = Input(l, h, i)
  BY <1>0, <1>1, CachedType, Zenon
<1>3. PICK out : out = [i \in DOMAIN v |-> LastOf(v[i])]
  BY Zenon
<1>4. out = h
  <2>1. \A i \in 1..n : LastOf(v[i]) = h[i]
    BY <1>0, <1>2, InputType, Zenon
  <2>2. out = [i \in 1..n |-> h[i]]
    BY <1>2, <1>3, <2>1
  <2>. QED
    BY <1>0, <2>2 DEF History
<1>5. \A i \in DOMAIN v : v[i] # Garbage
  <2>1. \A i \in 1..n : Len(v[i]) > 0
    BY <1>0, <1>2, InputType, Zenon
  <2>. QED
    BY <1>2, <2>1 DEF Garbage
<1>6. \A i \in DOMAIN v : v[i] = IF l = 0 THEN <<out[i]>> ELSE SubSeq(out, 1, i)
  BY <1>2, <1>4, Zenon DEF Input
<1>7. Attend(l, v) = out
  BY <1>3, <1>5, <1>6, Zenon DEF Attend
<1>. QED
  BY <1>1, <1>4, <1>7, Zenon

LEMMA FreshStart == ASSUME NEW l \in Nat, NEW h \in History PROVE Fresh(l, h, 0) = Cached(l, h)
<1>1. PICK a, b : a = Fresh(l, h, 0) /\ b = Cached(l, h)
  BY Zenon
<1>2. PICK n \in Nat : n = Len(h)
  BY DEF History
<1>3. 0 \in Nat /\ 0 <= Len(h) /\ Len(h) - 0 = n
  BY <1>2
<1>4. a \in Seq(Seq(Tokens)) /\ Len(a) = n /\ \A i \in 1..n : a[i] = Input(l, h, 0 + i)
  BY <1>1, <1>3, FreshType, ZenonT(60)
<1>5. b \in Seq(Seq(Tokens)) /\ Len(b) = n /\ \A i \in 1..n : b[i] = Input(l, h, i)
  BY <1>1, <1>2, CachedType, Zenon
<1>6. \A i \in 1..n : 0 + i = i
  OBVIOUS
<1>7. \A i \in 1..n : a[i] = b[i]
  BY <1>4, <1>5, <1>6, Zenon
<1>8. a = b
  BY <1>4, <1>5, <1>7, SeqEqual, Zenon
<1>. QED
  BY <1>1, <1>8, Zenon

\* Layer l is about to run on the tokens d, its cache holding g.
Ready(a, l, g, d, h) ==
    /\ d # <<>> /\ h = g \o d
    /\ l \in DOMAIN a.slots /\ a.slots[l] = Cached(l, g) /\ a.x = Fresh(l, h, Len(g))

LayerRan(out, a, l, g, h, at) ==
    /\ DOMAIN out.slots = DOMAIN a.slots /\ out.ok \in BOOLEAN
    /\ out.ok => /\ out.x = Fresh(l + 1, h, Len(g))
                 /\ out.slots = [a.slots EXCEPT ![l] = Cached(l, h)]
    /\ at # l /\ Len(h) <= ContextLength => out.ok

\* One layer, on a cache that holds g: if it does not fail, its cache holds the
\* tokens d too and the next layer gets their positions.
LEMMA BlockRuns ==
    ASSUME NEW a, NEW l \in Nat, NEW g \in History, NEW d \in History,
           NEW at, NEW slot, NEW h, NEW out, Ready(a, l, g, d, h),
           out = BlockForward(a, l, Len(g), at, slot)
    PROVE  LayerRan(out, a, l, g, h, at)
<1>0. /\ d # <<>> /\ h = g \o d
      /\ l \in DOMAIN a.slots /\ a.slots[l] = Cached(l, g) /\ a.x = Fresh(l, h, Len(g))
  BY Zenon DEF Ready
<1>1. PICK n \in Nat, m \in Nat : n = Len(g) /\ m = Len(d) /\ m > 0
  BY <1>0, Nonempty DEF History
<1>2. h \in History /\ Len(h) = n + m
  BY <1>0, <1>1, CachedGrows, Zenon
<1>3. PICK c : c = Cached(l, h)
  BY Zenon
<1>4. c \in Seq(Seq(Tokens)) /\ Len(c) = n + m
  BY <1>2, <1>3, CachedType, Zenon
<1>5. Len(a.x) = m
  <2>1. n <= Len(h) /\ Len(h) - n = m
    BY <1>2
  <2>2. a.x = Fresh(l, h, n)
    BY <1>0, <1>1, Zenon
  <2>3. Len(Fresh(l, h, n)) = Len(h) - n
    BY <1>2, <2>1, FreshType, Zenon
  <2>. QED
    BY <2>1, <2>2, <2>3, Zenon
<1>6. (IF n > 0 THEN a.slots[l] \o a.x ELSE a.x) = c
  <2>1. CASE n > 0
    <3>1. Cached(l, g) \o Fresh(l, g \o d, Len(g)) = Cached(l, g \o d)
      BY CachedGrows, Zenon
    <3>. QED
      BY <1>0, <1>3, <2>1, <3>1, Zenon
  <2>2. CASE ~(n > 0)
    <3>1. n = 0
      BY <2>2
    <3>2. a.x = Fresh(l, h, 0)
      BY <1>0, <1>1, <3>1, Zenon
    <3>. QED
      BY <1>2, <1>3, <2>2, <3>2, FreshStart, Zenon
  <2>. QED
    BY <2>1, <2>2, Zenon
<1>7. PICK left, ok, y :
        /\ left = (CASE ~(n + m <= ContextLength) \/ (l = at /\ slot = "kept") -> a.slots[l]
                     [] n + m <= ContextLength /\ l = at /\ slot = "lost" -> <<>>
                     [] OTHER -> c)
        /\ ok = (n + m <= ContextLength /\ l # at /\ (m = 1 \/ Len(c) = n + m))
        /\ y = [i \in 1..m |-> Attend(l, IF m = 1 THEN c ELSE SubSeq(c, 1, n + i))]
  BY Zenon
<1>8. out = [slots |-> [a.slots EXCEPT ![l] = left], ok |-> ok, x |-> IF ~ok THEN a.x ELSE y]
  BY <1>1, <1>5, <1>6, <1>7, Zenon DEF BlockForward
<1>9. ok \in BOOLEAN /\ (ok => left = c) /\ (at # l /\ Len(h) <= ContextLength => ok)
  <2>1. ok => left = c
    BY <1>7, Zenon
  <2>2. ok \in BOOLEAN
    BY <1>7, Zenon
  <2>3. at # l /\ Len(h) <= ContextLength => ok
    BY <1>2, <1>4, <1>7, Zenon
  <2>. QED
    BY <2>1, <2>2, <2>3, Zenon
<1>10. y = Fresh(l + 1, h, n)
  <2>1. ASSUME NEW i \in 1..m
        PROVE  Attend(l, IF m = 1 THEN c ELSE SubSeq(c, 1, n + i)) = Input(l + 1, h, n + i)
    <3>1. PICK k \in Nat : k = n + i /\ k <= Len(h)
      BY <1>2
    <3>2. Input(l + 1, h, k) = SubSeq(h, 1, k)
      <4>1. l + 1 # 0
        OBVIOUS
      <4>. QED
        BY <4>1, Zenon DEF Input
    <3>3. CASE m = 1
      <4>1. k = Len(h)
        BY <1>2, <3>1, <3>3
      <4>2. SubSeq(h, 1, k) = h
        BY <1>2, <4>1, PrefixFull, Zenon DEF History
      <4>. QED
        BY <1>2, <1>3, <3>1, <3>2, <3>3, <4>2, AttendCached, Zenon
    <3>4. CASE m # 1
      <4>1. SubSeq(h, 1, k) \in History /\ SubSeq(c, 1, k) = Cached(l, SubSeq(h, 1, k))
        BY <1>2, <1>3, <3>1, PrefixCached, ZenonT(60)
      <4>2. Attend(l, Cached(l, SubSeq(h, 1, k))) = SubSeq(h, 1, k)
        BY <4>1, AttendCached, Zenon
      <4>. QED
        BY <3>1, <3>2, <3>4, <4>1, <4>2, Zenon
    <3>. QED
      BY <3>3, <3>4, Zenon
  <2>2. Len(h) - n = m
    BY <1>2
  <2>. QED
    BY <1>7, <2>1, <2>2, Zenon DEF Fresh
<1>11. /\ out.slots = [a.slots EXCEPT ![l] = left] /\ out.ok = ok
       /\ out.x = IF ~ok THEN a.x ELSE y
  BY <1>8
<1>. QED
  <2>1. DOMAIN out.slots = DOMAIN a.slots
    BY <1>11
  <2>2. out.ok => out.x = Fresh(l + 1, h, Len(g))
    BY <1>1, <1>10, <1>11, Zenon
  <2>3. out.ok => out.slots = [a.slots EXCEPT ![l] = Cached(l, h)]
    BY <1>3, <1>9, <1>11, Zenon
  <2>. QED
    BY <1>9, <1>11, <2>1, <2>2, <2>3, Zenon DEF LayerRan

-----------------------------------------------------------------------------
(* The layers of a stage, one after the other.                             *)
LayerBody(f, i, a, first, pos, at, slot) ==
    IF i = 0 THEN a
    ELSE IF ~f[i - 1].ok THEN f[i - 1]
    ELSE BlockForward(f[i - 1], first + i - 1, pos, at, slot)

LayersRun(f, k, a, first, pos, at, slot) ==
    f = [i \in 0..k |-> LayerBody(f, i, a, first, pos, at, slot)]

LEMMA LayersExist ==
    ASSUME NEW a, NEW first, NEW pos, NEW at, NEW slot, NEW k \in Nat
    PROVE  \E f : LayersRun(f, k, a, first, pos, at, slot)
<1>1. PICK S : S = {j \in Nat : ~\E f : LayersRun(f, j, a, first, pos, at, slot)}
  BY Zenon
<1>2. SUFFICES ASSUME k \in S PROVE FALSE
  BY <1>1, Zenon
<1>3. PICK j \in S : \A m \in S : j <= m
  <2>1. S \in SUBSET Nat /\ S # {}
    BY <1>1, <1>2
  <2>. QED
    BY <2>1, Least, Zenon
<1>4. j \in Nat
  BY <1>1
<1>5. ~\E f : LayersRun(f, j, a, first, pos, at, slot)
  BY <1>1, Zenon
<1>6. CASE j = 0
  <2>1. PICK f : f = [i \in 0..j |-> a]
    BY Zenon
  <2>2. \A i \in 0..j : LayerBody(f, i, a, first, pos, at, slot) = a
    <3>1. \A i \in 0..j : i = 0
      BY <1>6
    <3>. QED
      BY <3>1, Zenon DEF LayerBody
  <2>3. f = [i \in 0..j |-> LayerBody(f, i, a, first, pos, at, slot)]
    BY <2>1, <2>2, Zenon
  <2>. QED
    BY <1>5, <2>3, Zenon DEF LayersRun
<1>7. CASE j # 0
  <2>1. j - 1 \in Nat /\ j - 1 \notin S
    <3>1. j - 1 \in Nat /\ ~(j <= j - 1)
      BY <1>4, <1>7
    <3>. QED
      BY <1>3, <3>1, Zenon
  <2>2. PICK g : LayersRun(g, j - 1, a, first, pos, at, slot)
    BY <1>1, <2>1, Zenon
  <2>3. PICK f : f = [i \in 0..j |-> IF i < j THEN g[i] ELSE LayerBody(g, i, a, first, pos, at, slot)]
    BY Zenon
  <2>4. ASSUME NEW i \in 0..j
        PROVE  f[i] = LayerBody(f, i, a, first, pos, at, slot)
    <3>1. f[i] = LayerBody(g, i, a, first, pos, at, slot)
      <4>1. CASE i < j
        <5>1. i \in 0..(j - 1)
          BY <1>4, <4>1
        <5>2. g[i] = LayerBody(g, i, a, first, pos, at, slot)
          BY <2>2, <5>1, Zenon DEF LayersRun
        <5>. QED
          BY <2>3, <4>1, <5>2, Zenon
      <4>2. CASE ~(i < j)
        BY <2>3, <4>2, Zenon
      <4>. QED
        BY <4>1, <4>2, Zenon
    <3>2. CASE i = 0
      BY <3>1, <3>2, Zenon DEF LayerBody
    <3>3. CASE i # 0
      <4>1. i - 1 \in 0..j /\ i - 1 < j
        BY <1>4, <3>3
      <4>2. f[i - 1] = g[i - 1]
        BY <2>3, <4>1, Zenon
      <4>. QED
        BY <3>1, <4>2, Zenon DEF LayerBody
    <3>. QED
      BY <3>2, <3>3, Zenon
  <2>5. DOMAIN f = 0..j /\ f = [i \in 0..j |-> f[i]]
    BY <2>3
  <2>6. f = [i \in 0..j |-> LayerBody(f, i, a, first, pos, at, slot)]
    BY <2>4, <2>5, Zenon
  <2>. QED
    BY <1>5, <2>6, Zenon DEF LayersRun
<1>. QED
  BY <1>6, <1>7, Zenon

\* The k layers from first on, in the order of their runs.
Layered(run, k, first, kv, x, pos, at, slot, ran) ==
    /\ run[0] = [slots |-> kv.slots, x |-> x, ok |-> TRUE]
    /\ \A i \in 1..k : run[i] =
          IF ~run[i - 1].ok THEN run[i - 1]
          ELSE BlockForward(run[i - 1], first + i - 1, pos, at, slot)
    /\ ran = [kv |-> [slots |-> run[k].slots,
                      tokens |-> IF run[k].ok THEN pos + Len(x) ELSE kv.tokens],
              x |-> run[k].x, ok |-> run[k].ok]

LEMMA ForwardUnfolds ==
    ASSUME NEW n, NEW kv, NEW x, NEW pos, NEW at, NEW slot,
           NEW k \in Nat, k = stages[n].end - stages[n].start
    PROVE  \E run : Layered(run, k, stages[n].start, kv, x, pos, at, slot,
                            ForwardHidden(n, kv, x, pos, at, slot))
<1>1. stages[n].end - stages[n].start \in Nat
  BY Zenon
<1> DEFINE Runs(f) == LayersRun(f, stages[n].end - stages[n].start,
                [slots |-> kv.slots, x |-> x, ok |-> TRUE], stages[n].start, pos, at, slot)
<1>2. PICK run : Runs(run) /\ run = CHOOSE f : Runs(f)
  <2>1. \E f : Runs(f)
    BY <1>1, LayersExist, Zenon
  <2>. HIDE DEF Runs
  <2>2. Runs(CHOOSE f : Runs(f))
    BY <2>1, Zenon
  <2>. QED
    BY <2>2, Zenon
<1>3. ForwardHidden(n, kv, x, pos, at, slot) =
        [kv |-> [slots |-> run[stages[n].end - stages[n].start].slots,
                 tokens |-> IF run[stages[n].end - stages[n].start].ok THEN pos + Len(x) ELSE kv.tokens],
         x |-> run[stages[n].end - stages[n].start].x, ok |-> run[stages[n].end - stages[n].start].ok]
  BY <1>2, Zenon DEF ForwardHidden, LayerBody, LayersRun
<1>4. \A i \in 0..k :
        run[i] = LayerBody(run, i, [slots |-> kv.slots, x |-> x, ok |-> TRUE], stages[n].start, pos, at, slot)
  <2>1. Runs(run)
    BY <1>2, Zenon
  <2>. QED
    BY <2>1, Zenon DEF LayersRun
<1>5. run[0] = [slots |-> kv.slots, x |-> x, ok |-> TRUE]
  <2>1. 0 \in 0..k
    OBVIOUS
  <2>. QED
    BY <1>4, <2>1, Zenon DEF LayerBody
<1>6. ASSUME NEW i \in 1..k
      PROVE  run[i] = IF ~run[i - 1].ok THEN run[i - 1]
                      ELSE BlockForward(run[i - 1], stages[n].start + i - 1, pos, at, slot)
  <2>1. i \in 0..k /\ i # 0
    OBVIOUS
  <2>. QED
    BY <1>4, <2>1, Zenon DEF LayerBody
<1>. QED
  BY <1>3, <1>5, <1>6, Zenon DEF Layered

\* Stage n is about to run on the tokens d, its cache kv holding g.
StageReady(n, kv, g, d, h, x) ==
    /\ stages[n] \in LayerRanges /\ stages[n].start <= stages[n].end
    /\ d # <<>> /\ h = g \o d
    /\ GoodKv(stages[n], kv, g) /\ x = Fresh(stages[n].start, h, Len(g))

\* The first i layers of stage n have run.
RanUpTo(a, r, i, g, h, at) ==
    /\ a.ok \in BOOLEAN
    /\ a.ok => /\ a.x = Fresh(r.start + i, h, Len(g)) /\ DOMAIN a.slots = LayersOf(r)
               /\ \A l \in LayersOf(r) :
                    a.slots[l] = IF l < r.start + i THEN Cached(l, h) ELSE Cached(l, g)
    /\ at \notin LayersOf(r) /\ Len(h) <= ContextLength => a.ok

LEMMA LayerKeeps ==
    ASSUME NEW r \in LayerRanges, NEW i \in Nat, r.start + i < r.end,
           NEW g \in History, NEW d \in History, NEW h, NEW at, NEW slot, NEW a, NEW b,
           d # <<>> /\ h = g \o d, RanUpTo(a, r, i, g, h, at),
           b = IF ~a.ok THEN a ELSE BlockForward(a, r.start + (i + 1) - 1, Len(g), at, slot)
    PROVE  RanUpTo(b, r, i + 1, g, h, at)
<1>1. CASE ~a.ok
  <2>1. b = a
    BY <1>1, Zenon
  <2>. QED
    BY <1>1, <2>1, Zenon DEF RanUpTo
<1>2. CASE a.ok
  <2>1. PICK l \in Nat : l = r.start + i
    BY DEF LayerRanges
  <2>2. r.start + (i + 1) - 1 = l /\ r.start + (i + 1) = l + 1 /\ l \in LayersOf(r) /\ ~(l < l)
    BY <2>1 DEF LayerRanges, LayersOf
  <2>3. b = BlockForward(a, l, Len(g), at, slot)
    BY <1>2, <2>2, Zenon
  <2>4. /\ a.x = Fresh(l, h, Len(g)) /\ DOMAIN a.slots = LayersOf(r)
        /\ \A q \in LayersOf(r) : a.slots[q] = IF q < l THEN Cached(q, h) ELSE Cached(q, g)
    BY <1>2, <2>1, Zenon DEF RanUpTo
  <2>5. Ready(a, l, g, d, h)
    BY <2>2, <2>4, Zenon DEF Ready
  <2>6. /\ DOMAIN b.slots = DOMAIN a.slots /\ b.ok \in BOOLEAN
        /\ b.ok => /\ b.x = Fresh(l + 1, h, Len(g))
                   /\ b.slots = [a.slots EXCEPT ![l] = Cached(l, h)]
        /\ at # l /\ Len(h) <= ContextLength => b.ok
    <3>1. LayerRan(b, a, l, g, h, at)
      BY <2>3, <2>5, BlockRuns, Zenon
    <3>. QED
      BY <3>1, Zenon DEF LayerRan
  <2>7. ASSUME b.ok, NEW q \in LayersOf(r)
        PROVE  b.slots[q] = IF q < l + 1 THEN Cached(q, h) ELSE Cached(q, g)
    <3>1. b.slots[q] = IF q = l THEN Cached(l, h) ELSE a.slots[q]
      BY <2>2, <2>4, <2>6, <2>7, Zenon
    <3>2. q \in Int
      BY DEF LayersOf, LayerRanges
    <3>3. CASE q = l
      <4>1. q < l + 1
        BY <3>3
      <4>. QED
        BY <3>1, <3>3, <4>1, Zenon
    <3>4. CASE q # l
      <4>1. q < l + 1 <=> q < l
        BY <3>2, <3>4
      <4>. QED
        BY <2>4, <3>1, <3>4, <4>1, Zenon
    <3>. QED
      BY <3>3, <3>4, Zenon
  <2>8. at \notin LayersOf(r) => at # l
    BY <2>2, Zenon
  <2>. QED
    BY <2>2, <2>4, <2>6, <2>7, <2>8, Zenon DEF RanUpTo
<1>. QED
  BY <1>1, <1>2, Zenon

StageRan(ran, r, g, h, at) ==
    /\ ran.ok \in BOOLEAN
    /\ ran.ok => GoodKv(r, ran.kv, h) /\ ran.x = Fresh(r.end, h, Len(g))
    /\ at \notin LayersOf(r) /\ Len(h) <= ContextLength => ran.ok

\* A stage that does not fail has the tokens d too, and gives their hidden
\* states to the next one; within the context it fails only if a layer does.
LEMMA StageRuns ==
    ASSUME NEW n, NEW kv, NEW g \in History, NEW d \in History, NEW h, NEW x,
           NEW at, NEW slot, NEW ran, StageReady(n, kv, g, d, h, x),
           ran = ForwardHidden(n, kv, x, Len(g), at, slot)
    PROVE  StageRan(ran, stages[n], g, h, at)
<1>1. PICK r : r = stages[n]
  BY Zenon
<1>2. /\ r \in LayerRanges /\ r.start <= r.end /\ d # <<>> /\ h = g \o d
      /\ GoodKv(r, kv, g) /\ x = Fresh(r.start, h, Len(g))
  BY <1>1, Zenon DEF StageReady
<1>3. PICK k \in Nat : k = r.end - r.start /\ r.start + k = r.end
  <2>1. r.start \in Nat /\ r.end \in Nat /\ r.start <= r.end
    BY <1>2 DEF LayerRanges
  <2>. QED
    BY <2>1
<1>4. PICK run : Layered(run, k, r.start, kv, x, Len(g), at, slot, ran)
  <2>1. k = stages[n].end - stages[n].start
    BY <1>1, <1>3, Zenon
  <2>. QED
    BY <1>1, <2>1, ForwardUnfolds, Zenon
<1>5. RanUpTo(run[0], r, 0, g, h, at)
  <2>1. run[0].slots = kv.slots /\ run[0].x = x /\ run[0].ok = TRUE
    BY <1>4 DEF Layered
  <2>2. r.start + 0 = r.start /\ \A l \in LayersOf(r) : ~(l < r.start + 0)
    BY <1>2 DEF LayerRanges, LayersOf
  <2>. QED
    BY <1>2, <2>1, <2>2, Zenon DEF RanUpTo, GoodKv
<1>6. \A i \in 0..k : RanUpTo(run[i], r, i, g, h, at)
  <2>1. PICK S : S = {i \in 0..k : ~RanUpTo(run[i], r, i, g, h, at)}
    BY Zenon
  <2>2. SUFFICES ASSUME S # {} PROVE FALSE
    BY <2>1, Zenon
  <2>3. PICK j \in S : \A m \in S : j <= m
    <3>1. S \in SUBSET Nat
      BY <2>1
    <3>. QED
      BY <2>2, <3>1, Least, Zenon
  <2>4. j \in 0..k /\ ~RanUpTo(run[j], r, j, g, h, at)
    BY <2>1, Zenon
  <2>5. j # 0
    BY <1>5, <2>4, Zenon
  <2>6. PICK i \in Nat : i = j - 1 /\ i + 1 = j /\ i \in 0..k /\ ~(j <= i) /\ i < k /\ j \in 1..k
    BY <2>4, <2>5
  <2>7. RanUpTo(run[i], r, i, g, h, at)
    BY <2>1, <2>3, <2>6, Zenon
  <2>8. r.start + i < r.end
    BY <1>2, <1>3, <2>6 DEF LayerRanges
  <2>9. run[j] = IF ~run[i].ok THEN run[i]
                 ELSE BlockForward(run[i], r.start + (i + 1) - 1, Len(g), at, slot)
    BY <1>4, <2>6, Zenon DEF Layered
  <2>10. RanUpTo(run[j], r, i + 1, g, h, at)
    BY <1>2, <2>7, <2>8, <2>9, LayerKeeps, Zenon
  <2>. QED
    BY <2>4, <2>6, <2>10, Zenon
<1>7. RanUpTo(run[k], r, k, g, h, at)
  <2>1. k \in 0..k
    OBVIOUS
  <2>. QED
    BY <1>6, <2>1, Zenon
<1>8. ran.ok = run[k].ok /\ ran.x = run[k].x /\ ran.kv.slots = run[k].slots
      /\ ran.kv.tokens = IF run[k].ok THEN Len(g) + Len(x) ELSE kv.tokens
  BY <1>4 DEF Layered
<1>9. ASSUME ran.ok PROVE GoodKv(r, ran.kv, h)
  <2>1. Len(g) + Len(x) = Len(h)
    <3>1. PICK a \in Nat, b \in Nat : a = Len(g) /\ b = Len(h) /\ a <= b
      <4>1. h \in History /\ Len(h) = Len(g) + Len(d)
        BY <1>2, <1>3, CachedGrows, Zenon
      <4>. QED
        BY <4>1 DEF History
    <3>2. h \in History /\ r.start \in Nat
      <4>1. h \in History
        BY <1>2, <1>3, CachedGrows, Zenon
      <4>. QED
        BY <1>2, <4>1 DEF LayerRanges
    <3>3. Len(x) = b - a
      BY <1>2, <3>1, <3>2, FreshType, ZenonT(60)
    <3>. QED
      BY <3>1, <3>3
  <2>2. \A l \in LayersOf(r) : l < r.start + k
    BY <1>2, <1>3 DEF LayerRanges, LayersOf
  <2>3. DOMAIN run[k].slots = LayersOf(r)
        /\ \A l \in LayersOf(r) : run[k].slots[l] = Cached(l, h)
    BY <1>7, <1>8, <1>9, <2>2, Zenon DEF RanUpTo
  <2>. QED
    BY <1>8, <1>9, <2>1, <2>3, Zenon DEF GoodKv
<1>. QED
  BY <1>1, <1>3, <1>7, <1>8, <1>9, Zenon DEF RanUpTo, StageRan

-----------------------------------------------------------------------------
(* The stock model.                                                        *)
LEMMA EmbedCached == ASSUME NEW h \in History PROVE EmbedTokens(h) = Cached(0, h)
<1>1. DOMAIN h = 1..Len(h)
  BY DEF History
<1>. QED
  BY <1>1, Zenon DEF EmbedTokens, Cached, Input

LEMMA EmbedFresh ==
    ASSUME NEW g \in History, NEW d \in History
    PROVE  EmbedTokens(d) = Fresh(0, g \o d, Len(g))
<1>1. PICK n \in Nat, m \in Nat : n = Len(g) /\ m = Len(d)
  BY DEF History
<1>2. PICK h : h = g \o d
  BY Zenon
<1>3. Len(h) = n + m /\ \A i \in 1..(n + m) : h[i] = IF i <= n THEN g[i] ELSE d[i - n]
  BY <1>1, <1>2, ConcatProperties, Zenon DEF History
<1>4. \A i \in 1..m : h[n + i] = d[i]
  <2>1. \A i \in 1..m : n + i \in 1..(n + m) /\ ~(n + i <= n) /\ (n + i) - n = i
    OBVIOUS
  <2>. QED
    BY <1>3, <2>1, Zenon
<1>5. DOMAIN d = 1..m
  BY <1>1 DEF History
<1>6. Len(h) - n = m
  BY <1>3
<1>7. EmbedTokens(d) = Fresh(0, h, n)
  BY <1>4, <1>5, <1>6, Zenon DEF EmbedTokens, Fresh, Input
<1>. QED
  BY <1>1, <1>2, <1>7, Zenon

\* The model holds h, and its answer follows from h.
StockHolds(out, h) == out.cache = EmbedTokens(h) /\ out.x = h

LEMMA StockStarts ==
    ASSUME NEW c, NEW d \in History, NEW out, out = StockForward(c, d, 0)
    PROVE  StockHolds(out, d)
<1>1. Attend(0, EmbedTokens(d)) = d
  <2>1. 0 \in Nat
    OBVIOUS
  <2>. QED
    BY <2>1, EmbedCached, AttendCached, Zenon
<1>2. out = [cache |-> EmbedTokens(d), x |-> Attend(0, EmbedTokens(d)), ok |-> TRUE]
  BY Zenon DEF StockForward
<1>. QED
  BY <1>1, <1>2 DEF StockHolds

LEMMA StockGoesOn ==
    ASSUME NEW g \in History, NEW d \in History, NEW pos \in Nat, pos # 0,
           NEW out, out = StockForward(EmbedTokens(g), d, pos), NEW goal, goal = g \o d
    PROVE  StockHolds(out, goal)
<1>1. 0 \in Nat
  OBVIOUS
<1>2. PICK h : h = g \o d /\ h \in History
  BY <1>1, CachedGrows, Zenon
<1>3. EmbedTokens(g) \o EmbedTokens(d) = EmbedTokens(h)
  <2>1. Cached(0, g) \o Fresh(0, g \o d, Len(g)) = Cached(0, g \o d)
    BY <1>1, CachedGrows, Zenon
  <2>2. EmbedTokens(g) = Cached(0, g) /\ EmbedTokens(h) = Cached(0, h)
    BY <1>2, EmbedCached, Zenon
  <2>3. EmbedTokens(d) = Fresh(0, g \o d, Len(g))
    BY EmbedFresh, Zenon
  <2>. QED
    BY <1>2, <2>1, <2>2, <2>3, Zenon
<1>4. Attend(0, EmbedTokens(h)) = h
  BY <1>1, <1>2, EmbedCached, AttendCached, Zenon
<1>5. PICK ok : out = [cache |-> EmbedTokens(h), x |-> h, ok |-> ok]
  BY <1>3, <1>4, Zenon DEF StockForward
<1>. QED
  BY <1>2, <1>5 DEF StockHolds

StockBody(f, i, c, tokens, pos) ==
    IF i = 0 THEN [cache |-> c, x |-> <<>>, ok |-> TRUE]
    ELSE StockForward(f[i - 1].cache, <<tokens[i]>>, pos + i - 1)

TokensRun(f, k, c, tokens, pos) == f = [i \in 0..k |-> StockBody(f, i, c, tokens, pos)]

LEMMA TokensRunExists ==
    ASSUME NEW c, NEW tokens, NEW pos, NEW k \in Nat
    PROVE  \E f : TokensRun(f, k, c, tokens, pos)
<1>1. PICK S : S = {j \in Nat : ~\E f : TokensRun(f, j, c, tokens, pos)}
  BY Zenon
<1>2. SUFFICES ASSUME k \in S PROVE FALSE
  BY <1>1, Zenon
<1>3. PICK j \in S : \A m \in S : j <= m
  <2>1. S \in SUBSET Nat /\ S # {}
    BY <1>1, <1>2
  <2>. QED
    BY <2>1, Least, Zenon
<1>4. j \in Nat
  BY <1>1
<1>5. ~\E f : TokensRun(f, j, c, tokens, pos)
  BY <1>1, Zenon
<1>6. CASE j = 0
  <2>1. PICK f : f = [i \in 0..j |-> [cache |-> c, x |-> <<>>, ok |-> TRUE]]
    BY Zenon
  <2>2. \A i \in 0..j : StockBody(f, i, c, tokens, pos) = [cache |-> c, x |-> <<>>, ok |-> TRUE]
    <3>1. \A i \in 0..j : i = 0
      BY <1>6
    <3>. QED
      BY <3>1, Zenon DEF StockBody
  <2>3. f = [i \in 0..j |-> StockBody(f, i, c, tokens, pos)]
    BY <2>1, <2>2, Zenon
  <2>. QED
    BY <1>5, <2>3, Zenon DEF TokensRun
<1>7. CASE j # 0
  <2>1. j - 1 \in Nat /\ j - 1 \notin S
    <3>1. j - 1 \in Nat /\ ~(j <= j - 1)
      BY <1>4, <1>7
    <3>. QED
      BY <1>3, <3>1, Zenon
  <2>2. PICK g : TokensRun(g, j - 1, c, tokens, pos)
    BY <1>1, <2>1, Zenon
  <2>3. PICK f : f = [i \in 0..j |-> IF i < j THEN g[i] ELSE StockBody(g, i, c, tokens, pos)]
    BY Zenon
  <2>4. ASSUME NEW i \in 0..j PROVE f[i] = StockBody(f, i, c, tokens, pos)
    <3>1. f[i] = StockBody(g, i, c, tokens, pos)
      <4>1. CASE i < j
        <5>1. i \in 0..(j - 1)
          BY <1>4, <4>1
        <5>2. g[i] = StockBody(g, i, c, tokens, pos)
          BY <2>2, <5>1, Zenon DEF TokensRun
        <5>. QED
          BY <2>3, <4>1, <5>2, Zenon
      <4>2. CASE ~(i < j)
        BY <2>3, <4>2, Zenon
      <4>. QED
        BY <4>1, <4>2, Zenon
    <3>2. CASE i = 0
      BY <3>1, <3>2, Zenon DEF StockBody
    <3>3. CASE i # 0
      <4>1. i - 1 \in 0..j /\ i - 1 < j
        BY <1>4, <3>3
      <4>2. f[i - 1] = g[i - 1]
        BY <2>3, <4>1, Zenon
      <4>. QED
        BY <3>1, <4>2, Zenon DEF StockBody
    <3>. QED
      BY <3>2, <3>3, Zenon
  <2>5. DOMAIN f = 0..j /\ f = [i \in 0..j |-> f[i]]
    BY <2>3
  <2>6. f = [i \in 0..j |-> StockBody(f, i, c, tokens, pos)]
    BY <2>4, <2>5, Zenon
  <2>. QED
    BY <1>5, <2>6, Zenon DEF TokensRun
<1>. QED
  BY <1>6, <1>7, Zenon

LEMMA StockGoesOnAfter ==
    ASSUME NEW g \in History, NEW p \in History, NEW w \in History, NEW pos \in Nat, pos # 0,
           NEW q, q = g \o p, NEW out, out = StockForward(EmbedTokens(q), w, pos),
           NEW e, e = p \o w, NEW h, h = g \o e
    PROVE  StockHolds(out, h)
<1>1. Associates(g, p, w)
  BY ConcatAssociative, Zenon DEF History
<1>2. h = q \o w
  BY <1>1, Zenon DEF Associates
<1>3. q \in History
  BY ConcatProperties, Zenon DEF History
<1>. QED
  BY <1>2, <1>3, StockGoesOn, Zenon

\* The tokens d, fed one by one to a stock model that holds g, leave it holding
\* both.
LEMMA TokensRunOn ==
    ASSUME NEW g \in History, NEW d \in History, g # <<>> /\ d # <<>>,
           NEW out, out = TokenByToken(EmbedTokens(g), d, Len(g), Len(d))
    PROVE  StockHolds(out, g \o d)
<1>1. PICK n \in Nat, k \in Nat : n = Len(g) /\ k = Len(d) /\ n > 0 /\ k > 0
  BY Nonempty DEF History
<1> DEFINE Runs(f) == TokensRun(f, Len(d), EmbedTokens(g), d, Len(g))
<1>2. PICK run : Runs(run) /\ run = CHOOSE f : Runs(f)
  <2>1. \E f : Runs(f)
    BY <1>1, TokensRunExists, Zenon
  <2>. HIDE DEF Runs
  <2>2. Runs(CHOOSE f : Runs(f))
    BY <2>1, Zenon
  <2>. QED
    BY <2>2, Zenon
<1>3. out = run[Len(d)]
  BY <1>2, Zenon DEF TokenByToken, StockBody, TokensRun
<1>4. \A i \in 0..k : run[i] = StockBody(run, i, EmbedTokens(g), d, n)
  <2>1. Runs(run)
    BY <1>2, Zenon
  <2>. QED
    BY <1>1, <2>1, Zenon DEF TokensRun
<1> HIDE DEF Runs
<1> DEFINE Fed(i) == \E p \in History :
                        /\ Len(p) = i /\ (\A j \in 1..i : p[j] = d[j])
                        /\ run[i].cache = EmbedTokens(g \o p) /\ (i # 0 => run[i].x = g \o p)
<1>5. Fed(0)
  <2>1. 0 \in 0..k
    OBVIOUS
  <2>2. run[0] = [cache |-> EmbedTokens(g), x |-> <<>>, ok |-> TRUE]
    BY <1>4, <2>1, Zenon DEF StockBody
  <2>3. run[0].cache = EmbedTokens(g)
    BY <2>2
  <2>4. <<>> \in History /\ Len(<<>>) = 0 /\ g \o <<>> = g /\ \A j \in 1..0 : FALSE
    BY DEF History
  <2>. QED
    BY <2>3, <2>4, Zenon
<1>6. ASSUME NEW i \in 0..k, NEW j \in 0..k, j = i + 1, Fed(i) PROVE Fed(j)
  <2>1. PICK p \in History :
          /\ Len(p) = i /\ (\A q \in 1..i : p[q] = d[q]) /\ run[i].cache = EmbedTokens(g \o p)
    BY <1>6, Zenon
  <2>2. j # 0 /\ j - 1 = i /\ n + j - 1 \in Nat /\ n + j - 1 # 0 /\ j \in 1..k /\ i \in Nat
    BY <1>1, <1>6
  <2>3. PICK t \in Tokens : t = d[j]
    BY <1>1, <2>2 DEF History
  <2>4. PICK w : w = <<t>>
    BY Zenon
  <2>5. w \in History
    BY <2>4 DEF History
  <2>7. PICK gp : gp = g \o p
    BY Zenon
  <2>8. run[j] = StockForward(EmbedTokens(gp), w, n + j - 1)
    BY <1>4, <2>1, <2>2, <2>3, <2>4, <2>7, Zenon DEF StockBody
  <2>9. PICK e, h : e = p \o w /\ h = g \o e
    BY Zenon
  <2>10. e \in History /\ Len(e) = j /\ \A q \in 1..j : e[q] = d[q]
    <3>1. e \in Seq(Tokens) /\ Len(e) = i + 1 /\ \A q \in 1..(i + 1) : e[q] = IF q <= i THEN p[q] ELSE t
      BY <2>1, <2>2, <2>4, <2>9 DEF History
    <3>2. \A q \in 1..j : q \in 1..(i + 1) /\ (q <= i => q \in 1..i) /\ (~(q <= i) => q = j)
      BY <1>6, <2>2
    <3>3. \A q \in 1..j : e[q] = d[q]
      BY <2>1, <2>3, <3>1, <3>2, Zenon
    <3>. QED
      BY <1>6, <3>1, <3>3, Zenon DEF History
  <2>11. StockHolds(run[j], h)
    BY <2>2, <2>5, <2>7, <2>8, <2>9, StockGoesOnAfter, Zenon
  <2>. QED
    BY <2>9, <2>10, <2>11, Zenon DEF StockHolds
<1>7. Fed(k)
  <2>. HIDE DEF Fed
  <2>1. PICK S : S = {i \in 0..k : ~Fed(i)}
    BY Zenon
  <2>2. SUFFICES ASSUME S # {} PROVE FALSE
    <3>1. k \in 0..k
      OBVIOUS
    <3>. QED
      BY <2>1, <3>1, Zenon
  <2>3. PICK j \in S : \A m \in S : j <= m
    <3>1. S \in SUBSET Nat
      BY <2>1
    <3>. QED
      BY <2>2, <3>1, Least, Zenon
  <2>4. j \in 0..k /\ ~Fed(j)
    BY <2>1, Zenon
  <2>5. j # 0
    BY <1>5, <2>4, Zenon
  <2>6. PICK i \in 0..k : j = i + 1 /\ ~(j <= i)
    <3>1. j - 1 \in 0..k /\ j = (j - 1) + 1 /\ ~(j <= j - 1)
      BY <2>4, <2>5
    <3>. QED
      BY <3>1, Zenon
  <2>7. Fed(i)
    BY <2>1, <2>3, <2>6, Zenon
  <2>. QED
    BY <1>6, <2>4, <2>6, <2>7, Zenon
<1>8. PICK p \in History : /\ Len(p) = k /\ (\A j \in 1..k : p[j] = d[j])
                           /\ run[k].cache = EmbedTokens(g \o p) /\ run[k].x = g \o p
  <2>1. k # 0
    BY <1>1
  <2>. QED
    BY <1>7, <2>1, Zenon
<1>9. p = d
  BY <1>1, <1>8, SeqEqual, Zenon DEF History
<1>. QED
  BY <1>1, <1>3, <1>8, <1>9, Zenon DEF StockHolds

-----------------------------------------------------------------------------
(* What the scheduler asks for.                                            *)
\* The scheduler may feed d to s, and ask for logits.
Asks(s, d, want) ==
    /\ d \in History /\ d # <<>> /\ Len(d) <= MaxSeqLen /\ want \in BOOLEAN
    /\ ~want => Len(fed[s]) + Len(d) < Len(Prompt[s])

LEMMA ChunkShape ==
    ASSUME Shape, NEW s \in Seqs, Len(fed[s]) < Len(Prompt[s])
    PROVE  Asks(s, NextChunk(s), LastChunk(s))
<1>1. PICK p \in Seq(Tokens), g \in Seq(Tokens) : p = Prompt[s] /\ g = fed[s]
  BY RuntimeConstants, Zenon DEF Shape
<1>2. PICK n \in Nat, m \in Nat : n = Len(p) /\ m = Len(g) /\ m < n /\ n < MaxSeqLen
  BY <1>1, RuntimeConstants
<1>3. PICK e \in Nat : /\ e = IF m + ChunkLen >= n THEN n ELSE m + ChunkLen
                       /\ m < e /\ e <= n /\ (~(m + ChunkLen >= n) => e < n)
  <2>1. ChunkLen \in Nat \ {0}
    BY RuntimeConstants, Zenon
  <2>. QED
    BY <1>2, <2>1
<1>4. NextChunk(s) = SubSeq(p, m + 1, e) /\ (LastChunk(s) <=> m + ChunkLen >= n)
  BY <1>1, <1>2, <1>3, Zenon DEF NextChunk, LastChunk
<1>5. PICK d \in Seq(Tokens) : d = SubSeq(p, m + 1, e) /\ Len(d) = e - m
  <2>1. m < e /\ e <= Len(p)
    BY <1>2, <1>3
  <2>2. SubSeq(p, m + 1, e) \in Seq(Tokens) /\ Len(SubSeq(p, m + 1, e)) = e - m
    BY <2>1, Segment
  <2>. QED
    BY <2>2, Zenon
<1>6. d # <<>>
  <2>1. Len(d) > 0
    BY <1>3, <1>5
  <2>. QED
    BY <2>1, Nonempty, Zenon
<1>7. m + Len(d) = e
  BY <1>3, <1>5
<1>8. e < MaxSeqLen
  BY <1>2, <1>3, RuntimeConstants
<1>9. Len(fed[s]) + Len(NextChunk(s)) = e
  BY <1>1, <1>2, <1>4, <1>5, <1>7, Zenon
<1>10. Len(d) <= MaxSeqLen /\ LastChunk(s) \in BOOLEAN
  BY <1>2, <1>7, <1>8, RuntimeConstants DEF LastChunk
<1>. QED
  BY <1>1, <1>2, <1>3, <1>4, <1>5, <1>6, <1>9, <1>10, Zenon DEF History, Asks

LEMMA PrefillStarts ==
    ASSUME Shape, Phases, NEW s \in Seqs, MayPrefill(s)
    PROVE  Asks(s, NextChunk(s), LastChunk(s)) /\ broken = {} /\ call = <<>> /\ kind \in Kinds
<1>1. phase[s] = "prefill" \/ phase[s] = "waiting"
  BY Zenon DEF MayPrefill
<1>2. CASE phase[s] = "waiting"
  <2>1. fed[s] = <<>> /\ Len(Prompt[s]) > 0
    BY <1>2, RuntimeConstants, Nonempty, Zenon DEF Phases
  <2>. QED
    BY <2>1, ChunkShape, Zenon DEF MayPrefill, Free, Kinds
<1>. QED
  BY <1>1, <1>2, ChunkShape, Zenon DEF MayPrefill, Free, Kinds, Phases

LEMMA DecodeStarts ==
    ASSUME Phases, MayDecode, NEW s \in Decoding
    PROVE  s \in Seqs /\ fed[s] # <<>> /\ Len(fed[s]) < MaxSeqLen
BY Zenon DEF MayDecode, Phases, Decoding

-----------------------------------------------------------------------------
(* Caches that are put back and taken out.                                 *)
LEMMA NewKvGood == ASSUME NEW n PROVE GoodKv(stages[n], NewKv(n), <<>>)
<1>1. ASSUME NEW l PROVE Cached(l, <<>>) = <<>>
  BY DEF Cached
<1>2. PICK kv : kv = NewKv(n)
  BY Zenon
<1>3. kv.tokens = 0 /\ kv.slots = [l \in LayersOf(stages[n]) |-> <<>>]
  BY <1>2 DEF NewKv
<1>4. Len(<<>>) = 0
  OBVIOUS
<1>. QED
  BY <1>1, <1>2, <1>3, <1>4, Zenon DEF GoodKv

\* K with the cache kv for s.
Given(K, s, kv, M) ==
    /\ s \in DOMAIN M /\ M[s] = kv
    /\ \A q \in DOMAIN K : q # s => q \in DOMAIN M /\ M[q] = K[q]

LEMMA PutGives == ASSUME NEW n, NEW s, NEW kv PROVE Given(kvs[n], s, kv, Put(n, s, kv))
BY Zenon DEF Put, Given

LEMMA GivenHolds ==
    ASSUME NEW K, NEW s, NEW kv, NEW M, Given(K, s, kv, M), NEW r, NEW h, GoodKv(r, kv, h)
    PROVE  Holds(r, M, s, h)
BY Zenon DEF Given, Holds

LEMMA GivenKeeps ==
    ASSUME NEW K, NEW s, NEW kv, NEW M, Given(K, s, kv, M), NEW r, NEW h,
           NEW q, q # s, Holds(r, K, q, h)
    PROVE  Holds(r, M, q, h)
BY Zenon DEF Given, Holds

LEMMA WithoutHolds ==
    ASSUME NEW K, NEW s, NEW q, q # s, NEW r, NEW h, Holds(r, K, q, h)
    PROVE  Holds(r, Without(K, s), q, h)
BY Zenon DEF Without, Holds

\* The last position of the tokens, past the first layer, is all of them.
LEMMA FreshLast ==
    ASSUME NEW g \in History, NEW d \in History, d # <<>>, NEW h, h = g \o d,
           NEW l \in Nat, l # 0
    PROVE  LastOf(Fresh(l, h, Len(g))) = h
<1>1. PICK n \in Nat, m \in Nat : n = Len(g) /\ m = Len(d) /\ m > 0
  BY Nonempty DEF History
<1>2. h \in History /\ Len(h) = n + m
  BY <1>1, ConcatProperties, Zenon DEF History
<1>3. n <= Len(h) /\ Len(h) - n = m /\ m \in 1..(Len(h) - n) /\ n + m = Len(h)
  BY <1>1, <1>2
<1>4. /\ Len(Fresh(l, h, n)) = m
      /\ Fresh(l, h, n)[m] = Input(l, h, n + m)
  <2>1. Len(Fresh(l, h, n)) = Len(h) - n
    BY <1>2, <1>3, FreshType, Zenon
  <2>2. \A i \in 1..(Len(h) - n) : Fresh(l, h, n)[i] = Input(l, h, n + i)
    BY <1>2, <1>3, FreshType, ZenonT(60)
  <2>. QED
    BY <1>3, <2>1, <2>2, Zenon
<1>5. Input(l, h, n + m) = h
  BY <1>2, <1>3, PrefixFull, Zenon DEF Input, History
<1>. QED
  BY <1>1, <1>4, <1>5, Zenon DEF LastOf

-----------------------------------------------------------------------------
(* The view of the scheduler, and the contract.                            *)
Viewed ==
    fed \in [Seqs -> Seq(Tokens)] /\ phase \in [Seqs -> Phase] /\ broken \subseteq Seqs /\ Phases

LEMMA FailedView ==
    ASSUME Viewed, NEW S \in SUBSET Seqs, Failed(S), kind' = kind
    PROVE  Viewed' /\ \A s \in Seqs : fed'[s] = IF s \in S THEN <<>> ELSE fed[s]
<1>1. fed' = [s \in Seqs |-> IF s \in S THEN <<>> ELSE fed[s]]
  BY Zenon DEF Failed
<1>2. phase' = [s \in Seqs |-> IF s \in S THEN "broken" ELSE phase[s]]
  BY Zenon DEF Failed
<1>3. <<>> \in Seq(Tokens) /\ "broken" \in Phase
  BY DEF Phase
<1>4. fed' \in [Seqs -> Seq(Tokens)] /\ phase' \in [Seqs -> Phase] /\ broken' \subseteq Seqs
  <2>1. \A s \in Seqs : fed[s] \in Seq(Tokens) /\ phase[s] \in Phase
    BY Zenon DEF Viewed
  <2>2. broken' \subseteq Seqs
    BY Zenon DEF Viewed, Failed
  <2>3. fed' \in [Seqs -> Seq(Tokens)]
    BY <1>1, <1>3, <2>1, Zenon
  <2>4. phase' \in [Seqs -> Phase]
    BY <1>2, <1>3, <2>1, Zenon
  <2>. QED
    BY <2>2, <2>3, <2>4, Zenon
<1>5. ASSUME NEW s \in Seqs
      PROVE  /\ s \in S => fed'[s] = <<>> /\ phase'[s] = "broken"
             /\ s \notin S => fed'[s] = fed[s] /\ phase'[s] = phase[s]
  BY <1>1, <1>2, Zenon
<1>6. "broken" # "prefill" /\ "broken" # "decode"
  OBVIOUS
<1>7. Phases'
  BY <1>5, <1>6, Zenon DEF Viewed, Phases
<1>. QED
  BY <1>1, <1>4, <1>7, Zenon DEF Viewed

LEMMA AnsweredView ==
    ASSUME Viewed, NEW S \in SUBSET Seqs, NEW tokens, NEW want, NEW x,
           Answered(S, tokens, want, x), kind' = kind, kind # "none",
           \A s \in S : Asks(s, tokens[s], want)
    PROVE  /\ Viewed' /\ broken' = broken
           /\ \A s \in Seqs : fed'[s] = IF s \in S THEN fed[s] \o tokens[s] ELSE fed[s]
<1>1. fed' = [s \in Seqs |-> IF s \in S THEN fed[s] \o tokens[s] ELSE fed[s]]
  BY Zenon DEF Answered
<1>2. phase' = [s \in Seqs |-> IF s \notin S THEN phase[s]
                               ELSE IF want THEN "decode" ELSE "prefill"]
  BY Zenon DEF Answered
<1>3. "decode" \in Phase /\ "prefill" \in Phase /\ "decode" # "prefill"
      /\ "waiting" # "decode" /\ "waiting" # "prefill"
  BY DEF Phase
<1>4. ASSUME NEW s \in S
      PROVE  /\ fed[s] \o tokens[s] \in Seq(Tokens)
             /\ Len(fed[s] \o tokens[s]) = Len(fed[s]) + Len(tokens[s])
             /\ fed[s] \o tokens[s] # <<>>
  <2>1. PICK g \in Seq(Tokens), d \in Seq(Tokens) : g = fed[s] /\ d = tokens[s] /\ d # <<>>
    BY Zenon DEF Viewed, History, Asks
  <2>2. PICK h \in Seq(Tokens) : h = g \o d /\ Len(h) = Len(g) + Len(d)
    BY ConcatProperties, Zenon
  <2>3. Len(h) > 0
    <3>1. Len(d) > 0
      BY <2>1, Nonempty, Zenon
    <3>. QED
      BY <2>2, <3>1
  <2>. QED
    BY <2>1, <2>2, <2>3, Nonempty, Zenon
<1>5. fed' \in [Seqs -> Seq(Tokens)] /\ phase' \in [Seqs -> Phase] /\ broken' = broken
  <2>1. \A s \in Seqs : fed[s] \in Seq(Tokens) /\ phase[s] \in Phase
    BY Zenon DEF Viewed
  <2>2. broken' = broken
    BY Zenon DEF Answered
  <2>3. fed' \in [Seqs -> Seq(Tokens)]
    BY <1>1, <1>4, <2>1, Zenon
  <2>4. phase' \in [Seqs -> Phase]
    BY <1>2, <1>3, <2>1, Zenon
  <2>. QED
    BY <2>2, <2>3, <2>4, Zenon
<1>6. ASSUME NEW s \in Seqs
      PROVE  /\ s \in S => /\ fed'[s] = fed[s] \o tokens[s]
                           /\ (want /\ phase'[s] = "decode") \/ (~want /\ phase'[s] = "prefill")
             /\ s \notin S => fed'[s] = fed[s] /\ phase'[s] = phase[s]
  BY <1>1, <1>2, Zenon
<1>7. Phases'
  <2>. SUFFICES ASSUME NEW s \in Seqs
                PROVE  /\ kind' = "none" \/ phase'[s] = "waiting" => fed'[s] = <<>>
                       /\ phase'[s] = "prefill" => Len(fed'[s]) < Len(Prompt[s])
                       /\ phase'[s] = "decode" => fed'[s] # <<>>
    BY Zenon DEF Phases
  <2>1. CASE s \in S
    BY <1>3, <1>4, <1>6, <2>1, Zenon DEF Asks
  <2>2. CASE s \notin S
    BY <1>6, <2>2, Zenon DEF Viewed, Phases
  <2>. QED
    BY <2>1, <2>2, Zenon
<1>. QED
  BY <1>1, <1>5, <1>7, Zenon DEF Viewed

LEMMA HistoryIsChunk ==
    ASSUME NEW d \in History, Len(d) <= MaxSeqLen PROVE d \in Contract!Chunks
<1>1. Len(d) \in 0..MaxSeqLen /\ d \in [1..Len(d) -> Tokens]
  BY RuntimeConstants DEF History
<1>. QED
  BY <1>1, Zenon DEF Contract!Chunks

\* A call that failed is a call of the contract that failed.
LEMMA FailedStep ==
    ASSUME NEW S \in SUBSET Seqs, S # {}, broken = {}, Failed(S)
    PROVE  Contract!Next
<1>1. Contract!Fail(S)
  BY Zenon DEF Failed, Contract!Fail, Nothing, Contract!Nothing
<1>2. Contract!Decode(S)
  BY <1>1, Zenon DEF Contract!Decode
<1>. QED
  BY <1>2, Zenon DEF Contract!Next

\* An answer that follows from the tokens fed is one the contract allows.
LEMMA AnsweredStep ==
    ASSUME Viewed, NEW s \in Seqs, NEW d \in History, Len(d) <= MaxSeqLen,
           NEW want \in BOOLEAN, NEW x, broken = {},
           Answered({s}, Only(s, d), want, Only(s, x)),
           want => LastOf(x) = fed[s] \o d
    PROVE  Contract!Next
<1>1. d \in Contract!Chunks
  BY HistoryIsChunk, Zenon
<1>2. PICK held, tokens : /\ held = [q \in {s} |-> IF FALSE THEN <<>> ELSE fed[s]]
                          /\ tokens = [q \in {s} |-> d]
  BY Zenon
<1>3. held[s] = fed[s] /\ tokens[s] = d /\ Only(s, d)[s] = d /\ Only(s, x)[s] = x
  BY <1>2, Zenon DEF Only
<1>4. fed' = [q \in Seqs |-> IF q \in {s} THEN held[q] \o tokens[q] ELSE fed[q]]
  <2>1. fed' = [q \in Seqs |-> IF q \in {s} THEN fed[q] \o Only(s, d)[q] ELSE fed[q]]
    BY Zenon DEF Answered
  <2>2. \A q \in Seqs : (IF q \in {s} THEN fed[q] \o Only(s, d)[q] ELSE fed[q])
                        = (IF q \in {s} THEN held[q] \o tokens[q] ELSE fed[q])
    BY <1>3, Zenon
  <2>. QED
    BY <2>1, <2>2
<1>5. fed'[s] = fed[s] \o d
  BY <1>3, <1>4, Zenon
<1>6. answer' = [ok |-> TRUE,
                 logits |-> IF want THEN [q \in {s} |-> fed'[q]] ELSE Contract!Nothing]
  <2>1. answer' = [ok |-> TRUE,
                   logits |-> IF want THEN [q \in {s} |-> LastOf(Only(s, x)[q])] ELSE Nothing]
    BY Zenon DEF Answered
  <2>2. want => [q \in {s} |-> LastOf(Only(s, x)[q])] = [q \in {s} |-> fed'[q]]
    BY <1>3, <1>5, Zenon
  <2>. QED
    BY <2>1, <2>2, Zenon DEF Nothing, Contract!Nothing
<1>7. broken' = broken \ {s}
  BY Zenon DEF Answered
<1>8. Contract!Feed({s}, held, tokens, want)
  BY <1>4, <1>6, <1>7, Zenon DEF Contract!Feed
<1>9. Contract!Prefill(s)
  <2>1. FALSE \in BOOLEAN /\ s \notin broken
    OBVIOUS
  <2>. QED
    BY <1>1, <1>2, <1>8, <2>1, Zenon DEF Contract!Prefill
<1>. QED
  BY <1>9, Zenon DEF Contract!Next

LEMMA AnsweredBatch ==
    ASSUME Viewed, NEW S \in SUBSET Seqs, S # {}, broken = {}, NEW tok \in [S -> Tokens], NEW x,
           Answered(S, [s \in S |-> <<tok[s]>>], TRUE, x),
           \A s \in S : LastOf(x[s]) = fed[s] \o <<tok[s]>>
    PROVE  Contract!Next
<1>1. PICK tokens : tokens = [s \in S |-> <<tok[s]>>]
  BY Zenon
<1>2. fed' = [q \in Seqs |-> IF q \in S THEN fed[q] \o tokens[q] ELSE fed[q]]
  BY <1>1, Zenon DEF Answered
<1>3. \A s \in S : fed'[s] = LastOf(x[s])
  BY <1>1, <1>2, Zenon
<1>4. answer' = [ok |-> TRUE,
                 logits |-> IF TRUE THEN [s \in S |-> fed'[s]] ELSE Contract!Nothing]
  <2>1. answer' = [ok |-> TRUE, logits |-> [s \in S |-> LastOf(x[s])]]
    BY Zenon DEF Answered
  <2>2. [s \in S |-> LastOf(x[s])] = [s \in S |-> fed'[s]]
    BY <1>3, Zenon
  <2>. QED
    BY <2>1, <2>2, Zenon
<1>5. broken' = broken \ S
  BY Zenon DEF Answered
<1>6. Contract!Feed(S, fed, [s \in S |-> <<tok[s]>>], TRUE)
  BY <1>1, <1>2, <1>4, <1>5, Zenon DEF Contract!Feed
<1>7. Contract!Decode(S)
  BY <1>6, Zenon DEF Contract!Decode
<1>. QED
  BY <1>7, Zenon DEF Contract!Next

-----------------------------------------------------------------------------
(* The stage of this process.                                              *)
LEMMA Ranges ==
    ASSUME Shape, Tiled, kind \in Kinds, NEW n \in 1..N
    PROVE  /\ stages[n] \in LayerRanges /\ stages[n].start < stages[n].end
           /\ stages[n].start \in Nat /\ stages[n].end \in Nat /\ stages[n].end # 0
<1>1. PICK r : r = stages[n] /\ r \in LayerRanges /\ r.start < r.end
  <2>1. stages[n] \in LayerRanges
    BY DEF Shape, N
  <2>. QED
    BY <2>1, Zenon DEF Tiled
<1>2. r.start \in Nat /\ r.end \in Nat /\ r.end # 0 /\ r.start <= r.end
  BY <1>1 DEF LayerRanges
<1>. QED
  BY <1>1, <1>2, Zenon

\* The stage runs on the tokens that follow those of the sequence, at 0 on a new
\* cache.
LEMMA StageGoesOn ==
    ASSUME Shape, Tiled, kind \in Kinds, NEW n \in 1..N, NEW s \in Seqs, NEW d \in History,
           d # <<>>, fed[s] # <<>> => Holds(stages[n], kvs[n], s, fed[s]), NEW h, h = fed[s] \o d,
           NEW kv, kv = IF Len(fed[s]) = 0 THEN NewKv(n) ELSE KvOf(n, s),
           NEW x, x = Fresh(stages[n].start, h, Len(fed[s])), NEW at, NEW slot
    PROVE  /\ kv.tokens = Len(fed[s])
           /\ StageRan(ForwardHidden(n, kv, x, Len(fed[s]), at, slot), stages[n], fed[s], h, at)
<1>1. PICK g \in History : g = fed[s]
  BY Zenon DEF Shape, History
<1>2. GoodKv(stages[n], kv, g)
  <2>1. CASE g = <<>>
    <3>1. Len(g) = 0
      BY <2>1
    <3>. QED
      BY <1>1, <2>1, <3>1, NewKvGood, Zenon
  <2>2. CASE g # <<>>
    <3>1. Len(g) # 0
      BY <2>2, Nonempty DEF History
    <3>. QED
      BY <1>1, <2>2, <3>1, Zenon DEF KvOf, Holds
  <2>. QED
    BY <2>1, <2>2, Zenon
<1>3. stages[n] \in LayerRanges /\ stages[n].start <= stages[n].end
  BY Ranges
<1>4. StageReady(n, kv, g, d, h, x)
  BY <1>1, <1>2, <1>3, Zenon DEF StageReady
<1>. QED
  BY <1>1, <1>2, <1>4, StageRuns, Zenon DEF GoodKv

LEMMA LocalRuns ==
    ASSUME Shape, Tiled, kind \in Kinds, NEW s \in Seqs, NEW d \in History, d # <<>>,
           fed[s] # <<>> => Holds(stages[1], kvs[1], s, fed[s]), NEW h, h = fed[s] \o d,
           NEW kv, kv = IF Len(fed[s]) = 0 THEN NewKv(1) ELSE KvOf(1, s), NEW at, NEW slot
    PROVE  /\ kv.tokens = Len(fed[s])
           /\ StageRan(ForwardHidden(1, kv, EmbedTokens(d), Len(fed[s]), at, slot),
                       stages[1], fed[s], h, at)
<1>1. stages[1].start = 0 /\ 1 \in 1..N
  BY DEF Tiled, Shape, N
<1>2. EmbedTokens(d) = Fresh(stages[1].start, h, Len(fed[s]))
  BY <1>1, EmbedFresh, Zenon DEF Shape, History
<1>. QED
  BY <1>1, <1>2, StageGoesOn, Zenon

\* What the head reads from the last hidden state of stage n.
LEMMA StageAnswers ==
    ASSUME Shape, Tiled, kind \in Kinds, NEW n \in 1..N, NEW s \in Seqs, NEW d \in History,
           d # <<>>, NEW h, h = fed[s] \o d
    PROVE  LastOf(Fresh(stages[n].end, h, Len(fed[s]))) = h
<1>1. PICK l \in Nat : l = stages[n].end /\ l # 0
  BY Ranges, Zenon
<1>2. PICK g \in History : g = fed[s]
  BY Zenon DEF Shape, History
<1>. QED
  BY <1>1, <1>2, FreshLast, ZenonT(60)

LEMMA Framed ==
    ASSUME Shape, Tiled, Viewed', kind' = kind, stages' = stages,
           DOMAIN kvs' = DOMAIN kvs, DOMAIN link' = DOMAIN link,
           DOMAIN flight' = DOMAIN flight, DOMAIN reply' = DOMAIN reply
    PROVE  Shape' /\ Tiled' /\ Phases'
<1>1. N' = N
  BY Zenon DEF N
<1>2. Shape'
  BY <1>1, Zenon DEF Shape, Viewed
<1>3. Tiled'
  BY <1>1, Zenon DEF Tiled
<1>. QED
  BY <1>2, <1>3, Zenon DEF Viewed

LEMMA ShapeViews == ASSUME Shape, Phases PROVE Viewed
BY Zenon DEF Shape, Viewed

\* The sequence s now holds h, the others what they held.
After(s, h) == fed'[s] = h /\ \A q \in Seqs : q # s => fed'[q] = fed[q]

LEMMA FailedOne ==
    ASSUME Viewed, NEW s \in Seqs, broken = {}, Failed({s}), kind' = kind
    PROVE  Viewed' /\ After(s, <<>>) /\ Contract!Next
<1>1. {s} \in SUBSET Seqs /\ {s} # {}
  OBVIOUS
<1>2. Viewed' /\ \A q \in Seqs : fed'[q] = IF q \in {s} THEN <<>> ELSE fed[q]
  BY <1>1, FailedView, Zenon
<1>. QED
  BY <1>1, <1>2, FailedStep, Zenon DEF After

LEMMA AnsweredOne ==
    ASSUME Viewed, NEW s \in Seqs, NEW d, NEW want, Asks(s, d, want), NEW x, broken = {},
           Answered({s}, Only(s, d), want, Only(s, x)), kind' = kind, kind # "none",
           NEW h, h = fed[s] \o d, LastOf(x) = h
    PROVE  Viewed' /\ broken' = broken /\ After(s, h) /\ Contract!Next
<1>1. {s} \in SUBSET Seqs /\ Only(s, d)[s] = d
  BY DEF Only
<1>2. PICK S, tokens, y : S = {s} /\ tokens = Only(s, d) /\ y = Only(s, x)
  BY Zenon
<1>3. S \in SUBSET Seqs /\ Answered(S, tokens, want, y) /\ \A q \in S : Asks(q, tokens[q], want)
  BY <1>1, <1>2, Zenon
<1>4. /\ Viewed' /\ broken' = broken
      /\ \A q \in Seqs : fed'[q] = IF q \in S THEN fed[q] \o tokens[q] ELSE fed[q]
  BY <1>3, AnsweredView, Zenon
<1>5. After(s, h)
  BY <1>1, <1>2, <1>4, Zenon DEF After
<1>6. Contract!Next
  BY AnsweredStep, Zenon DEF Asks
<1>. QED
  BY <1>4, <1>5, <1>6, Zenon

LEMMA BatchedPrefillKeeps ==
    ASSUME RuntimeInv, NEW s \in Seqs, NEW at, NEW slot, BatchedPrefill(s, at, slot)
    PROVE  RuntimeInv' /\ Contract!Next
<1>1. /\ Shape /\ Tiled /\ Phases /\ Batched /\ kind = "batched" /\ kind \in Kinds /\ MayPrefill(s)
      /\ UNCHANGED <<kind, stages, inner, resident, link, flight, reply, call>>
  BY Zenon DEF RuntimeInv, BatchedPrefill, Kinds, pipes
<1>2. Asks(s, NextChunk(s), LastChunk(s)) /\ broken = {} /\ call = <<>>
  BY <1>1, PrefillStarts, Zenon
<1>3. PICK d \in History : d = NextChunk(s) /\ d # <<>>
  BY <1>2, Zenon DEF Asks
<1>4. PICK h : h = fed[s] \o d
  BY Zenon
<1>5. PICK kv, ran : /\ kv = IF Len(fed[s]) = 0 THEN NewKv(1) ELSE KvOf(1, s)
                     /\ ran = ForwardHidden(1, kv, EmbedTokens(d), Len(fed[s]), at, slot)
  BY Zenon
<1>6. kv.tokens = Len(fed[s]) /\ StageRan(ran, stages[1], fed[s], h, at)
  BY <1>1, <1>3, <1>4, <1>5, LocalRuns, Zenon DEF Batched
<1>7. /\ kvs' = [kvs EXCEPT ![1] = Put(1, s, ran.kv)]
      /\ IF ran.ok THEN Answered({s}, Only(s, d), LastChunk(s), Only(s, ran.x)) ELSE Failed({s})
  BY <1>3, <1>4, <1>5, <1>6, Zenon DEF BatchedPrefill
<1>8. Viewed /\ kind # "none" /\ 1 \in 1..N
  <2>1. 1 \in 1..N
    BY <1>1 DEF Shape, Tiled, N
  <2>. QED
    BY <1>1, <2>1, ShapeViews
<1>9. /\ Viewed' /\ Contract!Next /\ After(s, IF ran.ok THEN h ELSE <<>>)
      /\ ran.ok => GoodKv(stages[1], ran.kv, h)
  <2>1. CASE ran.ok
    <3>1. GoodKv(stages[1], ran.kv, h) /\ ran.x = Fresh(stages[1].end, h, Len(fed[s]))
      BY <1>6, <2>1, Zenon DEF StageRan
    <3>2. LastOf(Fresh(stages[1].end, h, Len(fed[s]))) = h
      BY <1>1, <1>3, <1>4, <1>8, StageAnswers, ZenonT(60)
    <3>3. Asks(s, d, LastChunk(s)) /\ Answered({s}, Only(s, d), LastChunk(s), Only(s, ran.x))
      BY <1>2, <1>3, <1>7, <2>1, Zenon
    <3>4. Viewed' /\ After(s, h) /\ Contract!Next
      BY <1>1, <1>2, <1>4, <1>8, <3>1, <3>2, <3>3, AnsweredOne, Zenon
    <3>. QED
      BY <2>1, <3>1, <3>4, Zenon
  <2>2. CASE ~ran.ok
    BY <1>1, <1>2, <1>7, <1>8, <2>2, FailedOne, Zenon
  <2>. QED
    BY <2>1, <2>2, Zenon
<1>10. DOMAIN kvs' = DOMAIN kvs /\ Given(kvs[1], s, ran.kv, kvs'[1])
  <2>1. 1 \in DOMAIN kvs
    BY <1>1, <1>8, Zenon DEF Shape
  <2>2. DOMAIN kvs' = DOMAIN kvs /\ kvs'[1] = Put(1, s, ran.kv)
    BY <1>7, <2>1, Zenon
  <2>. QED
    BY <2>2, PutGives, Zenon
<1>11. Shape' /\ Tiled' /\ Phases'
  BY <1>1, <1>9, <1>10, Framed, Zenon
<1>12. Batched'
  <2>. SUFFICES ASSUME NEW q \in Seqs, fed'[q] # <<>> PROVE Holds(stages[1], kvs'[1], q, fed'[q])
    BY <1>1, Zenon DEF Batched
  <2>1. CASE q = s
    <3>1. ran.ok /\ fed'[q] = h
      BY <1>9, <2>1, Zenon DEF After
    <3>. QED
      BY <1>9, <1>10, <2>1, <3>1, GivenHolds, Zenon
  <2>2. CASE q # s
    <3>1. fed'[q] = fed[q] /\ Holds(stages[1], kvs[1], q, fed[q])
      BY <1>1, <1>9, <2>2, Zenon DEF After, Batched
    <3>. QED
      BY <1>10, <2>2, <3>1, GivenKeeps, ZenonT(60)
  <2>. QED
    BY <2>1, <2>2, Zenon
<1>13. RuntimeInv'
  BY <1>1, <1>2, <1>11, <1>12 DEF RuntimeInv, Sequential, Calling, Pipelined
<1>. QED
  BY <1>9, <1>13, Zenon

LEMMA OneToken ==
    ASSUME NEW t \in Tokens PROVE <<t>> \in History /\ <<t>> # <<>> /\ Len(<<t>>) = 1
BY DEF History

LEMMA DecodeRuns ==
    ASSUME Shape, Tiled, Phases, Batched, kind = "batched", MayDecode, NEW s \in Decoding,
           NEW d \in History, d # <<>>, Len(d) = 1, NEW slot, NEW ran,
           ran = ForwardHidden(1, kvs[1][s], EmbedTokens(d), kvs[1][s].tokens, NoLayer, slot),
           NEW h, h = fed[s] \o d
    PROVE  GoodKv(stages[1], ran.kv, h) /\ LastOf(ran.x) = h
<1>1. s \in Seqs /\ fed[s] # <<>> /\ Len(fed[s]) < MaxSeqLen /\ kind \in Kinds
  BY DecodeStarts, Zenon DEF Kinds
<1>2. Holds(stages[1], kvs[1], s, fed[s])
  BY <1>1, Zenon DEF Batched
<1>3. kvs[1][s] = KvOf(1, s) /\ kvs[1][s].tokens = Len(fed[s])
  BY <1>2, Zenon DEF Holds, KvOf, GoodKv
<1>4. PICK g \in History, n \in Nat : g = fed[s] /\ n = Len(g) /\ n # 0 /\ n < MaxSeqLen
  <2>1. PICK g \in History : g = fed[s]
    BY <1>1, Zenon DEF Shape, History
  <2>2. Len(g) \in Nat /\ Len(g) # 0
    BY <1>1, <2>1, Nonempty DEF History
  <2>. QED
    BY <1>1, <2>1, <2>2, Zenon
<1>5. PICK kv : kv = IF Len(fed[s]) = 0 THEN NewKv(1) ELSE KvOf(1, s)
  BY Zenon
<1>6. ran = ForwardHidden(1, kv, EmbedTokens(d), Len(fed[s]), NoLayer, slot)
  BY <1>3, <1>4, <1>5, Zenon
<1>7. StageRan(ran, stages[1], fed[s], h, NoLayer)
  <2>1. StageRan(ForwardHidden(1, kv, EmbedTokens(d), Len(fed[s]), NoLayer, slot),
                 stages[1], fed[s], h, NoLayer)
    BY <1>1, <1>2, <1>5, LocalRuns, Zenon
  <2>. QED
    BY <1>6, <2>1, Zenon
<1>8. NoLayer \notin LayersOf(stages[1]) /\ 1 \in 1..N
  <2>1. stages[1].end = NLayers /\ 1 \in 1..N
    BY DEF Tiled, Shape, N
  <2>. QED
    BY <2>1, RuntimeConstants DEF NoLayer, LayersOf
<1>9. Len(h) <= ContextLength
  <2>1. Len(g \o d) = Len(g) + Len(d)
    BY ConcatProperties, Zenon DEF History
  <2>2. Len(h) = n + 1
    BY <1>4, <2>1, Zenon
  <2>. QED
    BY <1>4, <2>2, RuntimeConstants
<1>10. GoodKv(stages[1], ran.kv, h) /\ ran.x = Fresh(stages[1].end, h, Len(fed[s]))
  BY <1>7, <1>8, <1>9, Zenon DEF StageRan
<1>11. LastOf(Fresh(stages[1].end, h, Len(fed[s]))) = h
  BY <1>1, <1>8, StageAnswers, Zenon
<1>. QED
  BY <1>10, <1>11, Zenon

LEMMA BatchedDecodeKeeps ==
    ASSUME RuntimeInv, NEW tok \in [Decoding -> Tokens], NEW at, NEW slot,
           BatchedDecode(tok, at, slot)
    PROVE  RuntimeInv' /\ Contract!Next
<1>1. /\ Shape /\ Tiled /\ Phases /\ Batched /\ kind = "batched" /\ kind \in Kinds /\ MayDecode
      /\ UNCHANGED <<kind, stages, inner, resident, link, flight, reply, call>>
  BY Zenon DEF RuntimeInv, BatchedDecode, Kinds, pipes
<1>2. PICK S, ran : /\ S = Decoding
                    /\ ran = [s \in S |-> ForwardHidden(1, kvs[1][s], EmbedTokens(<<tok[s]>>),
                                                        kvs[1][s].tokens, at, slot[s])]
  BY Zenon
<1>3. /\ kvs' = [kvs EXCEPT ![1] = [s \in DOMAIN kvs[1] \cup S |->
                                      IF s \in S THEN ran[s].kv ELSE kvs[1][s]]]
      /\ IF at = NoLayer
           THEN Answered(S, [s \in S |-> <<tok[s]>>], TRUE, [s \in S |-> ran[s].x])
           ELSE Failed(S)
  BY <1>2, Zenon DEF BatchedDecode
<1>4. broken = {} /\ call = <<>> /\ S \in SUBSET Seqs /\ S # {} /\ Viewed /\ kind # "none"
  <2>1. S \in SUBSET Seqs /\ kind # "none"
    BY <1>1, <1>2 DEF Decoding
  <2>. QED
    BY <1>1, <1>2, <2>1, ShapeViews, Zenon DEF MayDecode, Free
<1>5. ASSUME at = NoLayer, NEW s \in S, NEW h, h = fed[s] \o <<tok[s]>>
      PROVE  GoodKv(stages[1], ran[s].kv, h) /\ LastOf(ran[s].x) = h
  <2>1. PICK d \in History : d = <<tok[s]>> /\ d # <<>> /\ Len(d) = 1
    BY <1>2, OneToken, Zenon
  <2>2. ran[s] = ForwardHidden(1, kvs[1][s], EmbedTokens(d), kvs[1][s].tokens, NoLayer, slot[s])
    BY <1>2, <1>5, <2>1, Zenon
  <2>3. h = fed[s] \o d
    BY <1>5, <2>1, Zenon
  <2>. QED
    BY <1>1, <1>2, <2>1, <2>2, <2>3, DecodeRuns, Zenon
<1>6. /\ Viewed' /\ Contract!Next
      /\ \A q \in Seqs : fed'[q] = IF q \notin S THEN fed[q]
                                   ELSE IF at = NoLayer THEN fed[q] \o <<tok[q]>> ELSE <<>>
  <2>1. CASE at = NoLayer
    <3>1. PICK tokens, x : tokens = [s \in S |-> <<tok[s]>>] /\ x = [s \in S |-> ran[s].x]
      BY Zenon
    <3>2. Answered(S, tokens, TRUE, x)
      BY <1>3, <2>1, <3>1, Zenon
    <3>3. ASSUME NEW s \in S PROVE Asks(s, tokens[s], TRUE)
      <4>1. PICK t \in Tokens : tokens[s] = <<t>>
        BY <1>2, <3>1, Zenon
      <4>2. <<t>> \in Seq(Tokens) /\ <<t>> # <<>> /\ Len(<<t>>) = 1 /\ 1 <= MaxSeqLen
        BY RuntimeConstants
      <4>. QED
        BY <4>1, <4>2, Zenon DEF Asks, History
    <3>4. /\ Viewed'
          /\ \A q \in Seqs : fed'[q] = IF q \in S THEN fed[q] \o tokens[q] ELSE fed[q]
      BY <1>1, <1>4, <3>2, <3>3, AnsweredView, Zenon
    <3>5. \A s \in S : LastOf(x[s]) = fed[s] \o <<tok[s]>>
      BY <1>5, <2>1, <3>1, Zenon
    <3>6. Contract!Next
      BY <1>2, <1>4, <3>1, <3>2, <3>5, AnsweredBatch, ZenonT(60)
    <3>. QED
      BY <2>1, <3>1, <3>4, <3>6, Zenon
  <2>2. CASE at # NoLayer
    <3>1. Failed(S)
      BY <1>3, <2>2, Zenon
    <3>2. Viewed' /\ \A q \in Seqs : fed'[q] = IF q \in S THEN <<>> ELSE fed[q]
      BY <1>1, <1>4, <3>1, FailedView, Zenon
    <3>. QED
      BY <1>4, <2>2, <3>1, <3>2, FailedStep, Zenon
  <2>. QED
    BY <2>1, <2>2, Zenon
<1>7. PICK M : M = [s \in DOMAIN kvs[1] \cup S |-> IF s \in S THEN ran[s].kv ELSE kvs[1][s]]
  BY Zenon
<1>8. 1 \in DOMAIN kvs /\ DOMAIN kvs' = DOMAIN kvs /\ kvs'[1] = M
  <2>1. 1 \in DOMAIN kvs
    BY <1>1 DEF Shape, Tiled, N
  <2>. QED
    BY <1>3, <1>7, <2>1, Zenon
<1>9. Shape' /\ Tiled' /\ Phases'
  BY <1>1, <1>6, <1>8, Framed, Zenon
<1>10. Batched'
  <2>. SUFFICES ASSUME NEW q \in Seqs, fed'[q] # <<>> PROVE Holds(stages[1], M, q, fed'[q])
    BY <1>1, <1>8, Zenon DEF Batched
  <2>1. CASE q \in S
    <3>1. at = NoLayer /\ fed'[q] = fed[q] \o <<tok[q]>>
      BY <1>6, <2>1, Zenon
    <3>2. GoodKv(stages[1], ran[q].kv, fed'[q])
      BY <1>5, <2>1, <3>1, Zenon
    <3>. QED
      BY <1>7, <2>1, <3>2, Zenon DEF Holds
  <2>2. CASE q \notin S
    <3>1. fed'[q] = fed[q] /\ Holds(stages[1], kvs[1], q, fed[q])
      BY <1>1, <1>6, <2>2, Zenon DEF Batched
    <3>. QED
      BY <1>7, <2>2, <3>1, Zenon DEF Holds
  <2>. QED
    BY <2>1, <2>2, Zenon
<1>11. RuntimeInv'
  BY <1>1, <1>4, <1>9, <1>10 DEF RuntimeInv, Sequential, Calling, Pipelined
<1>. QED
  BY <1>6, <1>11, Zenon

-----------------------------------------------------------------------------
(* SequentialModel.                                                        *)

\* The stock model holds h for s, if anything.
Resident(s, h) == resident' = <<[seq |-> s, n |-> Len(h)]>> /\ inner' = EmbedTokens(h)

LEMMA ResidentSeq ==
    ASSUME NEW s, NEW n, NEW r, r = <<[seq |-> s, n |-> n]>>
    PROVE  r # <<>> /\ r[1].seq = s /\ r[1].n = n
OBVIOUS

\* A call on s that leaves the caches of another sequence alone.
LEMMA SequentialEnds ==
    ASSUME RuntimeInv, kind = "sequential", NEW s \in Seqs, NEW h,
           UNCHANGED <<kind, stages, kvs, link, flight, reply, call>>,
           Viewed', After(s, h),
           \/ Resident(s, h)
           \/ h = <<>> /\ UNCHANGED <<inner, resident>>
           \/ h = <<>> /\ \E n : resident' = <<[seq |-> s, n |-> n]>>
    PROVE  RuntimeInv'
<1>1. Shape /\ Tiled /\ Sequential /\ Calling /\ DOMAIN kvs' = DOMAIN kvs
  BY Zenon DEF RuntimeInv
<1>2. Shape' /\ Tiled' /\ Phases'
  BY <1>1, Framed, Zenon
<1>3. Sequential'
  <2>. SUFFICES ASSUME NEW q \in Seqs, fed'[q] # <<>>, resident' # <<>>, resident'[1].seq = q
                PROVE  /\ resident' = <<[seq |-> q, n |-> Len(fed'[q])]>>
                       /\ inner' = EmbedTokens(fed'[q])
    BY Zenon DEF Sequential
  <2>1. CASE Resident(s, h)
    <3>1. q = s
      BY <2>1, ResidentSeq, Zenon DEF Resident
    <3>. QED
      BY <2>1, <3>1, Zenon DEF Resident, After
  <2>2. CASE h = <<>> /\ UNCHANGED <<inner, resident>>
    <3>1. q # s /\ fed'[q] = fed[q]
      BY <2>2, Zenon DEF After
    <3>. QED
      BY <1>1, <2>2, <3>1, Zenon DEF Sequential
  <2>3. CASE h = <<>> /\ \E n : resident' = <<[seq |-> s, n |-> n]>>
    <3>1. q = s
      BY <2>3, ResidentSeq, ZenonT(60)
    <3>. QED
      BY <2>3, <3>1, Zenon DEF After
  <2>. QED
    BY <2>1, <2>2, <2>3, Zenon
<1>4. call = <<>>
  BY <1>1 DEF Calling
<1>. QED
  BY <1>2, <1>3, <1>4 DEF RuntimeInv, Batched, Calling, Pipelined

\* What the stock model holds and answers once it has run on all of d.
LEMMA SequentialRuns ==
    ASSUME Shape, Sequential, kind = "sequential", NEW s \in Seqs, NEW d \in History, d # <<>>,
           NEW h, h = fed[s] \o d, NEW now,
           now = IF Len(fed[s]) = 0 THEN <<[seq |-> s, n |-> 0]>> ELSE resident,
           now = <<[seq |-> s, n |-> Len(fed[s])]>>, NEW ran,
           ran = IF Len(fed[s]) = 0 THEN StockForward(inner, d, 0)
                                    ELSE TokenByToken(inner, d, Len(fed[s]), Len(d))
    PROVE  StockHolds(ran, h) /\ Len(h) = Len(fed[s]) + Len(d)
<1>1. PICK g \in History : g = fed[s]
  BY Zenon DEF Shape, History
<1>2. Len(h) = Len(fed[s]) + Len(d)
  BY <1>1, ConcatProperties, Zenon DEF History
<1>3. CASE g = <<>>
  <2>1. Len(g) = 0 /\ g \o d = d
    BY <1>3 DEF History
  <2>2. ran = StockForward(inner, d, 0) /\ h = d
    BY <1>1, <2>1, Zenon
  <2>. QED
    BY <1>2, <2>2, StockStarts, Zenon
<1>4. CASE g # <<>>
  <2>1. Len(g) # 0
    BY <1>4, Nonempty DEF History
  <2>2. resident = <<[seq |-> s, n |-> Len(fed[s])]>>
    BY <1>1, <2>1, Zenon
  <2>3. resident # <<>> /\ resident[1].seq = s
    BY <2>2, ResidentSeq, Zenon
  <2>4. inner = EmbedTokens(g)
    BY <1>1, <1>4, <2>3, Zenon DEF Sequential
  <2>5. ran = TokenByToken(EmbedTokens(g), d, Len(g), Len(d))
    BY <1>1, <2>1, <2>4, Zenon
  <2>6. StockHolds(ran, g \o d)
    BY <1>4, <2>5, TokensRunOn, Zenon
  <2>. QED
    BY <1>1, <1>2, <2>6, Zenon
<1>. QED
  BY <1>3, <1>4, Zenon

LEMMA LastOfOne == ASSUME NEW x, NEW y, y = <<x>> PROVE LastOf(y) = x
BY DEF LastOf

LEMMA SequentialPrefillKeeps ==
    ASSUME RuntimeInv, NEW s \in Seqs, NEW upto, SequentialPrefill(s, upto)
    PROVE  RuntimeInv' /\ Contract!Next
<1>1. /\ Shape /\ Tiled /\ Phases /\ Sequential /\ kind = "sequential" /\ MayPrefill(s)
      /\ UNCHANGED <<kind, stages, kvs, link, flight, reply, call>>
  BY Zenon DEF RuntimeInv, SequentialPrefill, pipes
<1>2. Asks(s, NextChunk(s), LastChunk(s)) /\ broken = {}
  BY <1>1, PrefillStarts, Zenon
<1>3. PICK d \in History : d = NextChunk(s) /\ d # <<>>
  BY <1>2, Zenon DEF Asks
<1>4. PICK now : now = IF Len(fed[s]) = 0 THEN <<[seq |-> s, n |-> 0]>> ELSE resident
  BY Zenon
<1>5. PICK ran : ran = IF Len(fed[s]) = 0 THEN StockForward(inner, d, 0)
                                          ELSE TokenByToken(inner, d, Len(fed[s]), upto)
  BY Zenon
<1>6. PICK here : here = <<[seq |-> s, n |-> Len(fed[s])]>>
  BY Zenon
<1>7. IF now # here
        THEN resident' = now /\ UNCHANGED inner /\ Failed({s})
        ELSE /\ inner' = ran.cache
             /\ IF upto = Len(d) /\ ran.ok
                  THEN /\ resident' = <<[seq |-> s, n |-> Len(fed[s]) + Len(d)]>>
                       /\ Answered({s}, Only(s, d), LastChunk(s), Only(s, <<ran.x>>))
                  ELSE resident' = now /\ Failed({s})
  BY <1>3, <1>4, <1>5, <1>6, Zenon DEF SequentialPrefill
<1>8. Viewed /\ kind # "none"
  BY <1>1, ShapeViews
<1>9. CASE now # here
  <2>1. resident' = now /\ UNCHANGED inner /\ Failed({s})
    BY <1>7, <1>9, Zenon
  <2>2. Viewed' /\ After(s, <<>>) /\ Contract!Next
    BY <1>1, <1>2, <1>8, <2>1, FailedOne, Zenon
  <2>3. now = resident
    BY <1>4, <1>6, <1>9, Zenon
  <2>. QED
    BY <1>1, <2>1, <2>2, <2>3, SequentialEnds, Zenon
<1>10. CASE now = here /\ ~(upto = Len(d) /\ ran.ok)
  <2>1. resident' = here /\ Failed({s})
    BY <1>7, <1>10, Zenon
  <2>2. Viewed' /\ After(s, <<>>) /\ Contract!Next
    BY <1>1, <1>2, <1>8, <2>1, FailedOne, Zenon
  <2>3. \E n : resident' = <<[seq |-> s, n |-> n]>>
    BY <1>6, <2>1, Zenon
  <2>. QED
    BY <1>1, <2>2, <2>3, SequentialEnds, Zenon
<1>11. CASE now = here /\ upto = Len(d) /\ ran.ok
  <2>1. /\ resident' = <<[seq |-> s, n |-> Len(fed[s]) + Len(d)]>> /\ inner' = ran.cache
        /\ Answered({s}, Only(s, d), LastChunk(s), Only(s, <<ran.x>>))
    BY <1>7, <1>11, Zenon
  <2>2. PICK h : h = fed[s] \o d
    BY Zenon
  <2>3. StockHolds(ran, h) /\ Len(h) = Len(fed[s]) + Len(d)
    BY <1>1, <1>3, <1>4, <1>5, <1>6, <1>11, <2>2, SequentialRuns, Zenon
  <2>4. PICK x : x = <<ran.x>> /\ LastOf(x) = h
    BY <2>3, LastOfOne, Zenon DEF StockHolds
  <2>5. Viewed' /\ After(s, h) /\ Contract!Next
    BY <1>1, <1>2, <1>3, <1>8, <2>1, <2>2, <2>4, AnsweredOne, Zenon
  <2>6. Resident(s, h)
    BY <2>1, <2>3, Zenon DEF Resident, StockHolds
  <2>. QED
    BY <1>1, <2>5, <2>6, SequentialEnds, Zenon
<1>. QED
  BY <1>9, <1>10, <1>11, Zenon

LEMMA SequentialDecodeKeeps ==
    ASSUME RuntimeInv, NEW tok \in Tokens, NEW fails, SequentialDecode(tok, fails)
    PROVE  RuntimeInv' /\ Contract!Next
<1>1. /\ Shape /\ Tiled /\ Phases /\ Sequential /\ kind = "sequential" /\ MayDecode
      /\ UNCHANGED <<kind, stages, kvs, link, flight, reply, call>>
  BY Zenon DEF RuntimeInv, SequentialDecode, pipes
<1>2. PICK s \in Decoding : s = CHOOSE q \in Decoding : TRUE
  BY <1>1, Zenon DEF MayDecode
<1>3. s \in Seqs /\ fed[s] # <<>> /\ broken = {} /\ Viewed /\ kind # "none"
  <2>1. kind # "none"
    BY <1>1
  <2>. QED
    BY <1>1, <2>1, DecodeStarts, ShapeViews, Zenon DEF MayDecode, Free
<1>4. PICK d \in History : d = <<tok>> /\ d # <<>> /\ Len(d) = 1
  BY OneToken, Zenon
<1>5. PICK ran : ran = StockForward(inner, d, resident[1].n)
  BY Zenon
<1>6. IF resident = <<>> \/ resident[1].seq # s
        THEN UNCHANGED <<inner, resident>> /\ Failed({s})
        ELSE /\ inner' = ran.cache
             /\ IF fails
                  THEN UNCHANGED resident /\ Failed({s})
                  ELSE /\ resident' = <<[seq |-> s, n |-> resident[1].n + 1]>>
                       /\ Answered({s}, Only(s, d), TRUE, Only(s, <<ran.x>>))
  BY <1>2, <1>4, <1>5, Zenon DEF SequentialDecode
<1>7. CASE resident = <<>> \/ resident[1].seq # s
  <2>1. Viewed' /\ After(s, <<>>) /\ Contract!Next
    BY <1>1, <1>3, <1>6, <1>7, FailedOne, Zenon
  <2>2. UNCHANGED <<inner, resident>>
    BY <1>6, <1>7, Zenon
  <2>. QED
    BY <1>1, <1>3, <2>1, <2>2, SequentialEnds, Zenon
<1>8. CASE resident # <<>> /\ resident[1].seq = s
  <2>1. PICK g \in History : g = fed[s] /\ Len(g) \in Nat /\ Len(g) # 0
    <3>1. PICK g \in History : g = fed[s]
      BY <1>1, <1>3, Zenon DEF Shape, History
    <3>2. Len(g) \in Nat /\ Len(g) # 0
      BY <1>3, <3>1, Nonempty DEF History
    <3>. QED
      BY <3>1, <3>2, Zenon
  <2>2. resident = <<[seq |-> s, n |-> Len(g)]>> /\ inner = EmbedTokens(g)
    BY <1>1, <1>3, <1>8, <2>1, Zenon DEF Sequential
  <2>3. resident[1].n = Len(g)
    BY <2>2, ResidentSeq, Zenon
  <2>4. CASE fails
    <3>1. UNCHANGED resident /\ Failed({s})
      BY <1>6, <1>8, <2>4, Zenon
    <3>2. Viewed' /\ After(s, <<>>) /\ Contract!Next
      BY <1>1, <1>3, <3>1, FailedOne, Zenon
    <3>3. \E n : resident' = <<[seq |-> s, n |-> n]>>
      BY <2>2, <3>1, Zenon
    <3>. QED
      BY <1>1, <1>3, <3>2, <3>3, SequentialEnds, Zenon
  <2>5. CASE ~fails
    <3>1. /\ resident' = <<[seq |-> s, n |-> Len(g) + 1]>> /\ inner' = ran.cache
          /\ Answered({s}, Only(s, d), TRUE, Only(s, <<ran.x>>))
      <4>1. /\ resident' = <<[seq |-> s, n |-> resident[1].n + 1]>> /\ inner' = ran.cache
            /\ Answered({s}, Only(s, d), TRUE, Only(s, <<ran.x>>))
        BY <1>6, <1>8, <2>5, Zenon
      <4>. QED
        BY <2>3, <4>1, Zenon
    <3>2. PICK h : h = g \o d
      BY Zenon
    <3>3. ran = StockForward(EmbedTokens(g), d, Len(g))
      BY <1>5, <2>2, <2>3, Zenon
    <3>4. StockHolds(ran, h)
      BY <2>1, <3>2, <3>3, StockGoesOn, Zenon
    <3>5. Len(h) = Len(g) + 1
      <4>1. Len(g \o d) = Len(g) + Len(d)
        BY ConcatProperties, Zenon DEF History
      <4>. QED
        BY <1>4, <3>2, <4>1, Zenon
    <3>6. PICK x : x = <<ran.x>> /\ LastOf(x) = h
      BY <3>4, LastOfOne, Zenon DEF StockHolds
    <3>7. Asks(s, d, TRUE)
      <4>1. 1 <= MaxSeqLen
        BY RuntimeConstants
      <4>. QED
        BY <1>4, <4>1, Zenon DEF Asks
    <3>8. h = fed[s] \o d
      BY <2>1, <3>2, Zenon
    <3>9. Viewed' /\ After(s, h) /\ Contract!Next
      BY <1>1, <1>3, <3>1, <3>6, <3>7, <3>8, AnsweredOne, ZenonT(60)
    <3>10. Resident(s, h)
      BY <3>1, <3>4, <3>5, Zenon DEF Resident, StockHolds
    <3>. QED
      BY <1>1, <1>3, <3>9, <3>10, SequentialEnds, Zenon
  <2>. QED
    BY <2>4, <2>5, Zenon
<1>. QED
  BY <1>7, <1>8, Zenon

-----------------------------------------------------------------------------
(* PipelinedModel.                                                         *)

\* No stream that is up has a chunk left, and no answer is left.
Quiet == \A m \in 1..N : (Up(m) => flight[m] = <<>>) /\ reply'[m] = <<>>

\* The caches of the sequences other than s.
Others(s) == \A m \in 1..N, q \in Seqs :
    Up(m) /\ q # s /\ fed[q] # <<>> => Holds(stages[m], kvs'[m], q, fed[q])

\* The stages before n hold h for s, the others what s was fed before the call.
Halfway(s, h, n) ==
    \A m \in 1..N : Up(m) =>
        /\ m < n => Holds(stages[m], kvs'[m], s, h)
        /\ ~(m < n) /\ fed[s] # <<>> => Holds(stages[m], kvs'[m], s, fed[s])

\* The step leaves the shape of the pipeline alone.
SamePipeline ==
    /\ kind = "pipelined" /\ UNCHANGED <<kind, stages, link>>
    /\ DOMAIN kvs' = DOMAIN kvs /\ DOMAIN flight' = DOMAIN flight /\ DOMAIN reply' = DOMAIN reply

LEMMA SameStages == ASSUME SamePipeline PROVE N' = N /\ \A m : Up(m)' <=> Up(m)
BY Zenon DEF SamePipeline, N, Up

LEMMA CallEnds ==
    ASSUME Shape, Tiled, SamePipeline, flight' = flight, call' = <<>>, Quiet,
           NEW s \in Seqs, NEW h, Others(s), Viewed', After(s, h),
           h # <<>> => \A m \in 1..N : Up(m) => Holds(stages[m], kvs'[m], s, h)
    PROVE  RuntimeInv'
<1>1. /\ N' = N /\ (\A m : Up(m)' <=> Up(m)) /\ kind' = "pipelined" /\ stages' = stages
      /\ flight' = flight /\ call' = <<>>
  BY SameStages, Zenon DEF SamePipeline
<1>2. Shape' /\ Tiled' /\ Phases'
  BY Framed, Zenon DEF SamePipeline
<1>3. Streams'
  BY <1>1, Zenon DEF Quiet, Streams, StreamAt
<1>4. ASSUME NEW m \in 1..N, NEW q \in Seqs, Up(m) PROVE StageInv(m, q)'
  <2>1. ~Passed(m, q)' /\ ~Reached(m, q)'
    BY <1>1, Zenon DEF Passed, Reached
  <2>2. ASSUME fed'[q] # <<>> PROVE Holds(stages[m], kvs'[m], q, fed'[q])
    <3>1. CASE q = s
      BY <1>4, <2>2, <3>1, Zenon DEF After
    <3>2. CASE q # s
      BY <1>4, <2>2, <3>2, Zenon DEF After, Others
    <3>. QED
      BY <3>1, <3>2, Zenon
  <2>. QED
    BY <1>1, <2>1, <2>2, Zenon DEF StageInv
<1>5. Pipelined'
  BY <1>1, <1>3, <1>4, Zenon DEF Pipelined
<1>6. Batched' /\ Sequential' /\ Calling'
  BY <1>1 DEF Batched, Sequential, Calling
<1>. QED
  BY <1>2, <1>5, <1>6, Zenon DEF RuntimeInv

LEMMA CallGoesOn ==
    ASSUME Shape, Tiled, Phases, SamePipeline, UNCHANGED <<phase, fed, broken>>, broken = {},
           Quiet, NEW c, Asked(c), NEW n \in 2..N, link[n] = "up",
           NEW h, h = fed[c.seq] \o c.tokens, Others(c.seq), Halfway(c.seq, h, n),
           call' = <<[c EXCEPT !.stage = n]>>, NEW x,
           x = Fresh(stages[n].start, h, Len(fed[c.seq])),
           flight' = [flight EXCEPT ![n] =
                         <<[seq |-> c.seq, pos |-> c.pos, wire |-> EncodeActivation(x)]>>]
    PROVE  RuntimeInv'
<1>1. /\ N' = N /\ (\A m : Up(m)' <=> Up(m)) /\ kind' = "pipelined" /\ stages' = stages
      /\ fed' = fed /\ broken' = {}
  BY SameStages, Zenon DEF SamePipeline
<1>2. Shape' /\ Tiled' /\ Phases'
  <2>1. Viewed'
    BY <1>1, ShapeViews DEF Viewed, Phases, SamePipeline
  <2>. QED
    BY <2>1, Framed, Zenon DEF SamePipeline
<1>3. PICK s, e : s \in Seqs /\ s = c.seq /\ e = [c EXCEPT !.stage = n] /\ c \in CallRecord
  <2>1. c \in CallRecord /\ c.seq \in Seqs
    BY DEF Asked, CallRecord
  <2>. QED
    BY <2>1, Zenon
<1>4. /\ e \in CallRecord /\ e.seq = s /\ e.tokens = c.tokens /\ e.pos = c.pos
      /\ e.want = c.want /\ e.stage = n
  BY <1>3 DEF CallRecord
<1>5. call' # <<>> /\ call'[1] = e /\ call' = <<call'[1]>>
  <2>1. call' = <<e>>
    BY <1>3, Zenon
  <2>. QED
    BY <2>1
<1>6. Calling'
  <2>1. Asked(e)'
    BY <1>1, <1>3, <1>4, Zenon DEF Asked
  <2>. QED
    BY <1>1, <1>4, <1>5, <2>1, Zenon DEF Calling
<1>7. /\ \A m \in 1..N : m # n => flight'[m] = flight[m]
      /\ flight'[n] = <<[seq |-> s, pos |-> c.pos, wire |-> EncodeActivation(x)]>>
  <2>1. DOMAIN flight = 1..N /\ n \in 1..N
    BY DEF Shape, N
  <2>. QED
    BY <1>3, <2>1, Zenon
<1>8. Streams'
  BY <1>1, <1>4, <1>5, <1>7, ZenonT(60) DEF Quiet, Streams, StreamAt
<1>9. Goal(s)' = h
  BY <1>1, <1>3, <1>4, <1>5, Zenon DEF Goal
<1>10. flight'[n] = <<Chunk(n, s)'>>
  BY <1>1, <1>3, <1>7, <1>9, Zenon DEF Chunk, Asked
<1>11. ASSUME NEW m \in 1..N, NEW q \in Seqs, Up(m) PROVE StageInv(m, q)'
  <2>1. CASE q = s
    <3>1. (Passed(m, q)' <=> m < n) /\ (Reached(m, q)' <=> m = n)
      BY <1>4, <1>5, <2>1, Zenon DEF Passed, Reached
    <3>2. reply'[m] = <<>>
      BY Zenon DEF Quiet
    <3>. QED
      BY <1>1, <1>3, <1>9, <1>10, <1>11, <2>1, <3>1, <3>2, ZenonT(60) DEF StageInv, Halfway
  <2>2. CASE q # s
    <3>1. ~Passed(m, q)' /\ ~Reached(m, q)'
      BY <1>4, <1>5, <2>2, Zenon DEF Passed, Reached
    <3>. QED
      BY <1>1, <1>3, <1>11, <2>2, <3>1, ZenonT(60) DEF StageInv, Others
  <2>. QED
    BY <2>1, <2>2, Zenon
<1>12. Pipelined'
  BY <1>1, <1>8, <1>11, ZenonT(60) DEF Pipelined
<1>13. Batched' /\ Sequential'
  BY <1>1 DEF Batched, Sequential
<1>. QED
  BY <1>2, <1>6, <1>12, <1>13, Zenon DEF RuntimeInv

Stutter == UNCHANGED <<fed, broken, answer>>

\* forward_remote, from the stage before n on.
LEMMA ForwardKeeps ==
    ASSUME Shape, Tiled, Phases, kind = "pipelined", UNCHANGED <<kind, stages, link>>,
           DOMAIN kvs' = DOMAIN kvs, DOMAIN reply' = DOMAIN reply, broken = {}, Quiet,
           NEW c, Asked(c), NEW n \in 2..(N + 1), NEW h, h = fed[c.seq] \o c.tokens,
           Others(c.seq), Halfway(c.seq, h, n),
           NEW x, x = Fresh(stages[n - 1].end, h, Len(fed[c.seq])), Forward(c, n, x)
    PROVE  RuntimeInv' /\ (Contract!Next \/ Stutter)
<1>1. PICK s \in Seqs : s = c.seq /\ c.tokens \in History /\ c.tokens # <<>>
  <2>1. c.seq \in Seqs /\ c.tokens \in Seq(Tokens)
    BY DEF Asked, CallRecord
  <2>. QED
    BY <2>1, ZenonT(60) DEF Asked, History
<1>2. Asks(s, c.tokens, c.want)
  <2>1. c.want \in BOOLEAN
    BY DEF Asked, CallRecord
  <2>. QED
    BY <1>1, <2>1, ZenonT(60) DEF Asked, Asks
<1>3. Viewed /\ kind # "none" /\ kind \in Kinds /\ N \in Nat
  <2>1. kind # "none" /\ kind \in Kinds /\ N \in Nat
    BY DEF Kinds, Shape, N
  <2>. QED
    BY <2>1, ShapeViews, ZenonT(60)
<1>4. CASE n > N
  <2>1. call' = <<>> /\ Answered({s}, Only(s, c.tokens), c.want, Only(s, x)) /\ flight' = flight
    BY <1>1, <1>4, ZenonT(60) DEF Forward
  <2>2. n - 1 \in 1..N /\ \A m \in 1..N : m < n
    BY <1>3, <1>4
  <2>3. LastOf(x) = h
    BY <1>1, <1>3, <2>2, StageAnswers, Zenon
  <2>4. Viewed' /\ After(s, h) /\ Contract!Next
    BY <1>1, <1>2, <1>3, <2>1, <2>3, AnsweredOne, ZenonT(60)
  <2>5. \A m \in 1..N : Up(m) => Holds(stages[m], kvs'[m], s, h)
    BY <1>1, <2>2, Zenon DEF Halfway
  <2>6. SamePipeline
    BY <2>1, Zenon DEF SamePipeline
  <2>7. RuntimeInv'
    BY <1>1, <2>1, <2>4, <2>5, <2>6, CallEnds, ZenonT(60)
  <2>. QED
    BY <2>4, <2>7, Zenon
<1>5. CASE ~(n > N) /\ link[n] # "up"
  <2>1. call' = <<>> /\ Failed({s}) /\ flight' = flight
    BY <1>1, <1>5, Zenon DEF Forward, ReturnError
  <2>2. Viewed' /\ After(s, <<>>) /\ Contract!Next
    BY <1>3, <2>1, FailedOne, ZenonT(60)
  <2>3. SamePipeline
    BY <2>1, Zenon DEF SamePipeline
  <2>4. RuntimeInv'
    BY <1>1, <2>1, <2>2, <2>3, CallEnds, ZenonT(60)
  <2>. QED
    BY <2>2, <2>4, Zenon
<1>6. CASE ~(n > N) /\ link[n] = "up"
  <2>1. n \in 2..N /\ n - 1 \in 1..N /\ n - 1 < N /\ (n - 1) + 1 = n
    BY <1>3, <1>6
  <2>2. stages[n].start = stages[n - 1].end
    BY <1>3, <2>1, Zenon DEF Tiled
  <2>3. /\ call' = <<[c EXCEPT !.stage = n]>>
        /\ flight' = [flight EXCEPT ![n] =
                         <<[seq |-> c.seq, pos |-> c.pos, wire |-> EncodeActivation(x)]>>]
        /\ UNCHANGED <<phase, fed, broken, answer>>
    BY <1>6, Zenon DEF Forward, view
  <2>4. SamePipeline
    BY <2>3, Zenon DEF SamePipeline
  <2>5. RuntimeInv'
    BY <1>6, <2>1, <2>2, <2>3, <2>4, CallGoesOn, ZenonT(60)
  <2>. QED
    BY <2>3, <2>5, ZenonT(60) DEF Stutter
<1>. QED
  BY <1>4, <1>5, <1>6, ZenonT(60)

\* Between two calls, no stream carries anything.
LEMMA IdleQuiet ==
    ASSUME Shape, Pipelined, kind = "pipelined", call = <<>>, reply' = reply PROVE Quiet
BY Zenon DEF Pipelined, Streams, StreamAt, Quiet

\* Between two calls, every stage that is up holds what the sequences were fed.
LEMMA IdleHolds ==
    ASSUME Pipelined, kind = "pipelined", NEW m \in 1..N, Up(m), NEW q \in Seqs, fed[q] # <<>>,
           call = <<>> \/ call[1].seq # q
    PROVE  Holds(stages[m], kvs[m], q, fed[q])
<1>1. StageInv(m, q)
  BY Zenon DEF Pipelined
<1>2. ~Passed(m, q) /\ ~Reached(m, q)
  BY Zenon DEF Passed, Reached
<1>. QED
  BY <1>1, <1>2, Zenon DEF StageInv

LEMMA BeginCallKeeps ==
    ASSUME RuntimeInv, NEW s \in Seqs, NEW d, NEW want, Asks(s, d, want), broken = {},
           call = <<>>, NEW at, NEW slot, BeginCall(s, d, want, at, slot)
    PROVE  RuntimeInv' /\ (Contract!Next \/ Stutter)
<1>1. /\ Shape /\ Tiled /\ Phases /\ Pipelined /\ kind = "pipelined" /\ kind \in Kinds
      /\ UNCHANGED <<kind, stages, link, reply>>
  BY Zenon DEF RuntimeInv, BeginCall, Kinds
<1>2. 1 \in 1..N /\ 2 \in 2..(N + 1) /\ Up(1) /\ Viewed /\ d \in History /\ d # <<>>
  <2>1. 1 \in 1..N /\ 2 \in 2..(N + 1)
    BY <1>1 DEF Shape, Tiled, N
  <2>. QED
    BY <1>1, <2>1, ShapeViews, ZenonT(60) DEF Up, Asks
<1>3. \A m \in 1..N, q \in Seqs : Up(m) /\ fed[q] # <<>> => Holds(stages[m], kvs[m], q, fed[q])
  BY <1>1, IdleHolds, Zenon
<1>4. fed[s] # <<>> => Holds(stages[1], kvs[1], s, fed[s])
  BY <1>2, <1>3, Zenon
<1>5. PICK pos : /\ pos = IF phase[s] = "decode" THEN KvOf(1, s).tokens ELSE Len(fed[s])
                 /\ pos = Len(fed[s])
  <2>1. CASE phase[s] = "decode"
    <3>1. fed[s] # <<>>
      BY <1>1, <2>1, Zenon DEF Phases
    <3>. QED
      BY <1>4, <2>1, <3>1, Zenon DEF KvOf, Holds, GoodKv
  <2>. QED
    BY <2>1, Zenon
<1>6. PICK h : h = fed[s] \o d
  BY Zenon
<1>7. PICK kv : kv = IF Len(fed[s]) = 0 THEN NewKv(1) ELSE KvOf(1, s)
  BY Zenon
<1>8. PICK ran : ran = ForwardHidden(1, kv, EmbedTokens(d), Len(fed[s]), at, slot)
  BY Zenon
<1>9. kv.tokens = Len(fed[s]) /\ StageRan(ran, stages[1], fed[s], h, at)
  BY <1>1, <1>2, <1>4, <1>6, <1>7, <1>8, LocalRuns, ZenonT(60)
<1>10. PICK c : c = [seq |-> s, tokens |-> d, pos |-> Len(fed[s]), want |-> want, stage |-> 1]
  BY Zenon
<1>11. /\ kvs' = [kvs EXCEPT ![1] = Put(1, s, ran.kv)]
       /\ IF ran.ok THEN Forward(c, 2, ran.x) ELSE ReturnError(s) /\ UNCHANGED flight
  BY <1>5, <1>7, <1>8, <1>9, <1>10, ZenonT(60) DEF BeginCall
<1>12. /\ DOMAIN kvs' = DOMAIN kvs /\ Given(kvs[1], s, ran.kv, kvs'[1])
       /\ \A m \in 1..N : m # 1 => kvs'[m] = kvs[m]
  <2>1. 1 \in DOMAIN kvs /\ DOMAIN kvs = 1..N
    BY <1>1, <1>2, Zenon DEF Shape
  <2>2. DOMAIN kvs' = DOMAIN kvs /\ \A m \in 1..N : m # 1 => kvs'[m] = kvs[m]
    BY <1>11, <2>1, Zenon
  <2>3. kvs'[1] = Put(1, s, ran.kv)
    BY <1>11, <2>1, Zenon
  <2>4. Given(kvs[1], s, ran.kv, kvs'[1])
    BY <2>3, PutGives, Zenon
  <2>. QED
    BY <2>2, <2>4, Zenon
<1>13. Others(s)
  <2>. SUFFICES ASSUME NEW m \in 1..N, NEW q \in Seqs, Up(m), q # s, fed[q] # <<>>
                PROVE  Holds(stages[m], kvs'[m], q, fed[q])
    BY Zenon DEF Others
  <2>1. Holds(stages[m], kvs[m], q, fed[q])
    BY <1>3, Zenon
  <2>2. CASE m = 1
    <3>1. Given(kvs[1], s, ran.kv, kvs'[1]) /\ Holds(stages[1], kvs[1], q, fed[q])
      BY <1>12, <2>1, <2>2, Zenon
    <3>2. Holds(stages[1], kvs'[1], q, fed[q])
      BY <3>1, GivenKeeps, Zenon
    <3>. QED
      BY <2>2, <3>2, Zenon
  <2>3. CASE m # 1
    BY <1>12, <2>1, <2>3, Zenon
  <2>. QED
    BY <2>2, <2>3, Zenon
<1>14. Quiet
  BY <1>1, IdleQuiet, Zenon
<1>15. CASE ran.ok
  <2>1. GoodKv(stages[1], ran.kv, h) /\ ran.x = Fresh(stages[1].end, h, Len(fed[s]))
    BY <1>9, <1>15, Zenon DEF StageRan
  <2>2. Halfway(s, h, 2)
    <3>. SUFFICES ASSUME NEW m \in 1..N, Up(m)
                  PROVE  /\ m < 2 => Holds(stages[m], kvs'[m], s, h)
                         /\ ~(m < 2) /\ fed[s] # <<>> => Holds(stages[m], kvs'[m], s, fed[s])
      BY Zenon DEF Halfway
    <3>1. m < 2 <=> m = 1
      OBVIOUS
    <3>2. Holds(stages[1], kvs'[1], s, h)
      BY <1>12, <2>1, GivenHolds, Zenon
    <3>. QED
      BY <1>3, <1>12, <3>1, <3>2, Zenon
  <2>3. /\ c.seq = s /\ c.tokens = d /\ c.pos = Len(fed[s]) /\ c.want = want
        /\ c \in CallRecord /\ Asked(c)
    <3>1. c.seq = s /\ c.tokens = d /\ c.pos = Len(fed[s]) /\ c.want = want
      BY <1>10
    <3>2. c \in CallRecord
      <4>1. Len(fed[s]) \in Nat /\ d \in Seq(Tokens) /\ want \in BOOLEAN
        BY <1>1, <1>2 DEF Shape, Asks, History
      <4>. QED
        BY <1>10, <4>1 DEF CallRecord
    <3>. QED
      BY <3>1, <3>2, Zenon DEF Asked, Asks
  <2>4. PICK x : x = ran.x /\ x = Fresh(stages[2 - 1].end, h, Len(fed[c.seq]))
    <3>1. 2 - 1 = 1
      OBVIOUS
    <3>. QED
      BY <2>1, <2>3, <3>1, Zenon
  <2>5. Forward(c, 2, x) /\ h = fed[c.seq] \o c.tokens
    BY <1>6, <1>11, <1>15, <2>3, <2>4, ZenonT(60)
  <2>6. Others(c.seq) /\ Halfway(c.seq, h, 2)
    BY <1>13, <2>2, <2>3, ZenonT(60)
  <2>. QED
    BY <1>1, <1>2, <1>12, <1>14, <2>3, <2>4, <2>5, <2>6, ForwardKeeps, ZenonT(60)
<1>16. CASE ~ran.ok
  <2>1. call' = <<>> /\ Failed({s}) /\ flight' = flight
    BY <1>11, <1>16, Zenon DEF ReturnError
  <2>2. Viewed' /\ After(s, <<>>) /\ Contract!Next
    BY <1>1, <1>2, <2>1, FailedOne, Zenon
  <2>3. SamePipeline
    BY <1>1, <1>12, <2>1, Zenon DEF SamePipeline
  <2>4. RuntimeInv'
    BY <1>1, <1>13, <1>14, <2>1, <2>2, <2>3, CallEnds, ZenonT(60)
  <2>. QED
    BY <2>2, <2>4, Zenon
<1>. QED
  BY <1>15, <1>16, Zenon

LEMMA PipelinedPrefillKeeps ==
    ASSUME RuntimeInv, NEW s \in Seqs, NEW at, NEW slot, PipelinedPrefill(s, at, slot)
    PROVE  RuntimeInv' /\ (Contract!Next \/ Stutter)
<1>1. MayPrefill(s) /\ BeginCall(s, NextChunk(s), LastChunk(s), at, slot)
  BY Zenon DEF PipelinedPrefill
<1>2. Asks(s, NextChunk(s), LastChunk(s)) /\ broken = {} /\ call = <<>>
  BY <1>1, PrefillStarts, Zenon DEF RuntimeInv
<1>. QED
  BY <1>1, <1>2, BeginCallKeeps, Zenon

LEMMA PipelinedDecodeKeeps ==
    ASSUME RuntimeInv, NEW s \in Seqs, NEW tok \in Tokens, NEW at, NEW slot,
           PipelinedDecode(s, tok, at, slot)
    PROVE  RuntimeInv' /\ (Contract!Next \/ Stutter)
<1>1. broken = {} /\ call = <<>>
  BY Zenon DEF PipelinedDecode, MayDecode, Free
<1>2. PICK d \in History : d = <<tok>> /\ d # <<>> /\ Len(d) = 1
  BY OneToken, Zenon
<1>3. BeginCall(s, d, TRUE, at, slot)
  BY <1>2, Zenon DEF PipelinedDecode
<1>4. Asks(s, d, TRUE)
  <2>1. 1 <= MaxSeqLen
    BY RuntimeConstants
  <2>. QED
    BY <1>2, <2>1, Zenon DEF Asks
<1>. QED
  BY <1>1, <1>3, <1>4, BeginCallKeeps, Zenon

\* During a call, no stream but the call's carries anything.
LEMMA CallQuiet ==
    ASSUME Shape, Calling, Pipelined, call # <<>>, NEW n, n = call[1].stage,
           \A m \in 1..N : m # n => reply'[m] = reply[m],
           reply'[n] = <<>>, Up(n) => flight[n] = <<>>
    PROVE  Quiet
<1>1. kind = "pipelined" /\ Streams
  BY Zenon DEF Calling, Pipelined
<1>2. ASSUME NEW m \in 1..N PROVE (Up(m) => flight[m] = <<>>) /\ reply'[m] = <<>>
  <2>1. CASE m = n
    BY <2>1, Zenon
  <2>2. CASE m # n
    BY <1>1, <2>2, Zenon DEF Streams, StreamAt
  <2>. QED
    BY <2>1, <2>2, Zenon
<1>. QED
  BY <1>2, Zenon DEF Quiet

LEMMA CallOthers ==
    ASSUME Calling, Pipelined, call # <<>>, NEW s, s = call[1].seq, kvs' = kvs
    PROVE  Others(s)
<1>. SUFFICES ASSUME NEW m \in 1..N, NEW q \in Seqs, Up(m), q # s, fed[q] # <<>>
              PROVE  Holds(stages[m], kvs'[m], q, fed[q])
  BY Zenon DEF Others
<1>1. kind = "pipelined"
  BY Zenon DEF Calling
<1>. QED
  BY <1>1, IdleHolds, Zenon

\* The call fails.
LEMMA ErrorKeeps ==
    ASSUME RuntimeInv, call # <<>>, NEW s, s = call[1].seq, ReturnError(s), Quiet, kvs' = kvs,
           UNCHANGED <<kind, stages, link, flight>>, DOMAIN reply' = DOMAIN reply
    PROVE  RuntimeInv' /\ Contract!Next
<1>1. Shape /\ Tiled /\ Phases /\ Calling /\ Pipelined /\ kind = "pipelined" /\ broken = {}
  BY Zenon DEF RuntimeInv, Calling
<1>2. s \in Seqs /\ Viewed /\ Others(s)
  <2>1. s \in Seqs
    BY <1>1 DEF Calling, Asked, CallRecord
  <2>. QED
    BY <1>1, <2>1, ShapeViews, CallOthers, Zenon
<1>3. call' = <<>> /\ Failed({s})
  BY Zenon DEF ReturnError
<1>4. Viewed' /\ After(s, <<>>) /\ Contract!Next
  BY <1>1, <1>2, <1>3, FailedOne, Zenon
<1>5. SamePipeline
  BY <1>1, Zenon DEF SamePipeline
<1>6. RuntimeInv'
  BY <1>1, <1>2, <1>3, <1>4, <1>5, CallEnds, ZenonT(60)
<1>. QED
  BY <1>4, <1>6, Zenon

LEMMA StreamEndedKeeps ==
    ASSUME RuntimeInv, NEW n \in Workers, StreamEnded(n) PROVE RuntimeInv' /\ Contract!Next
<1>1. /\ Shape /\ Calling /\ Pipelined /\ call # <<>> /\ call[1].stage = n /\ ReturnError(call[1].seq)
      /\ link[n] # "up" /\ reply[n] = <<>>
      /\ UNCHANGED <<kind, stages, kvs, link, flight, reply>>
  BY Zenon DEF RuntimeInv, StreamEnded, local, pipes
<1>2. ~Up(n)
  BY <1>1 DEF Up, Workers
<1>3. Quiet
  BY <1>1, <1>2, CallQuiet, Zenon
<1>. QED
  BY <1>1, <1>3, ErrorKeeps, Zenon

LEMMA ReceiveKeeps ==
    ASSUME RuntimeInv, NEW n \in Workers, Receive(n)
    PROVE  RuntimeInv' /\ (Contract!Next \/ Stutter)
<1>1. PICK c : c = call[1]
  BY Zenon
<1>2. /\ Shape /\ Tiled /\ Phases /\ Calling /\ Pipelined /\ call # <<>> /\ c.stage = n
      /\ reply[n] # <<>> /\ reply' = [reply EXCEPT ![n] = <<>>]
      /\ IF reply[n][1].ok /\ DecodeActivation(reply[n][1].wire)
           THEN Forward(c, n + 1, reply[n][1].wire.data)
           ELSE ReturnError(c.seq) /\ UNCHANGED flight
      /\ UNCHANGED <<kind, stages, kvs, link>>
  BY <1>1, Zenon DEF RuntimeInv, Receive, local
<1>3. /\ kind = "pipelined" /\ broken = {} /\ Asked(c) /\ Streams
      /\ \A m \in 1..N, q \in Seqs : Up(m) => StageInv(m, q)
  BY <1>1, <1>2, Zenon DEF Calling, Pipelined
<1>4. n \in 1..N /\ n + 1 \in 2..(N + 1) /\ (n + 1) - 1 = n /\ \A m \in 1..N : m < n + 1 <=> m < n \/ m = n
  BY <1>2 DEF Workers, Shape, N
<1>5. DOMAIN reply' = DOMAIN reply /\ reply'[n] = <<>> /\ \A m \in 1..N : m # n => reply'[m] = reply[m]
  BY <1>2, <1>4, Zenon DEF Shape
<1>6. Up(n) /\ flight[n] = <<>>
  BY <1>2, <1>3, <1>4, Zenon DEF Streams, StreamAt
<1>7. Quiet
  BY <1>1, <1>2, <1>5, <1>6, CallQuiet, ZenonT(60)
<1>8. CASE reply[n][1].ok /\ DecodeActivation(reply[n][1].wire)
  <2>1. PICK s \in Seqs : s = c.seq
    BY <1>3 DEF Asked, CallRecord
  <2>2. StageInv(n, s) /\ Reached(n, s)
    BY <1>1, <1>2, <1>3, <1>4, <1>6, <2>1, ZenonT(60) DEF Reached
  <2>3. PICK h : h = fed[s] \o c.tokens /\ h = Goal(s)
    BY <1>1, Zenon DEF Goal
  <2>4. Holds(stages[n], kvs[n], s, h) /\ reply[n] = <<Result(n, s)>>
    BY <1>2, <1>8, <2>2, <2>3, Zenon DEF StageInv
  <2>5. PICK x : x = Fresh(stages[n].end, h, Len(fed[s])) /\ reply[n][1].wire.data = x
    <3>1. PICK x : x = Fresh(stages[n].end, Goal(s), Len(fed[s]))
      BY Zenon
    <3>2. reply[n] = <<[ok |-> TRUE, wire |-> [data |-> x, len |-> Len(x)]]>>
      BY <2>4, <3>1, Zenon DEF Result, EncodeActivation
    <3>3. reply[n][1].wire.data = x
      BY <3>2
    <3>. QED
      BY <2>3, <3>1, <3>3, Zenon
  <2>6. Halfway(s, h, n + 1)
    <3>. SUFFICES ASSUME NEW m \in 1..N, Up(m)
                  PROVE  /\ m < n + 1 => Holds(stages[m], kvs'[m], s, h)
                         /\ ~(m < n + 1) /\ fed[s] # <<>> => Holds(stages[m], kvs'[m], s, fed[s])
      BY Zenon DEF Halfway
    <3>1. StageInv(m, s)
      BY <1>3, Zenon
    <3>2. (Passed(m, s) <=> m < n) /\ (Reached(m, s) <=> m = n)
      BY <1>1, <1>2, <2>1, Zenon DEF Passed, Reached
    <3>3. CASE m < n
      BY <1>2, <1>4, <2>3, <3>1, <3>2, <3>3, ZenonT(60) DEF StageInv
    <3>4. CASE m = n
      BY <1>2, <1>4, <2>4, <3>4, Zenon
    <3>5. CASE ~(m < n) /\ m # n
      BY <1>2, <1>4, <3>1, <3>2, <3>5, Zenon DEF StageInv
    <3>. QED
      BY <3>3, <3>4, <3>5, Zenon
  <2>7. Others(c.seq) /\ Halfway(c.seq, h, n + 1) /\ h = fed[c.seq] \o c.tokens
    BY <1>1, <1>2, <2>1, <2>3, <2>6, CallOthers, Zenon
  <2>8. Forward(c, n + 1, x) /\ x = Fresh(stages[(n + 1) - 1].end, h, Len(fed[c.seq]))
    BY <1>2, <1>4, <1>8, <2>1, <2>5, ZenonT(60)
  <2>9. DOMAIN kvs' = DOMAIN kvs
    BY <1>2, Zenon
  <2>. QED
    BY <1>2, <1>3, <1>4, <1>5, <1>7, <2>7, <2>8, <2>9, ForwardKeeps, ZenonT(60)
<1>9. CASE ~(reply[n][1].ok /\ DecodeActivation(reply[n][1].wire))
  <2>1. ReturnError(c.seq) /\ UNCHANGED flight
    BY <1>2, <1>9, Zenon
  <2>. QED
    BY <1>1, <1>2, <1>5, <1>7, <2>1, ErrorKeeps, ZenonT(60)
<1>. QED
  BY <1>8, <1>9, Zenon

-----------------------------------------------------------------------------
(* The workers.                                                            *)

\* The step is one of stage n alone.
AtStage(n) ==
    /\ UNCHANGED <<kind, stages, inner, resident, call, phase, fed, broken>>
    /\ DOMAIN kvs' = DOMAIN kvs /\ DOMAIN link' = DOMAIN link
    /\ DOMAIN flight' = DOMAIN flight /\ DOMAIN reply' = DOMAIN reply
    /\ \A m \in 1..N : m # n => /\ kvs'[m] = kvs[m] /\ link'[m] = link[m]
                                /\ flight'[m] = flight[m] /\ reply'[m] = reply[m]

LEMMA StageInvStays ==
    ASSUME Shape, NEW n, AtStage(n), NEW m \in 1..N, m # n, NEW q, StageInv(m, q)
    PROVE  StageInv(m, q)'
<1>1. /\ UNCHANGED <<stages, call, fed>>
      /\ kvs'[m] = kvs[m] /\ link'[m] = link[m] /\ flight'[m] = flight[m] /\ reply'[m] = reply[m]
  BY Zenon DEF AtStage
<1>2. /\ Passed(m, q)' <=> Passed(m, q)
      /\ Reached(m, q)' <=> Reached(m, q)
  BY <1>1, Zenon DEF Passed, Reached
<1>3. Goal(q)' = Goal(q) /\ Chunk(m, q)' = Chunk(m, q) /\ Result(m, q)' = Result(m, q)
  BY <1>1, Zenon DEF Goal, Chunk, Result
<1>. QED
  BY <1>1, <1>2, <1>3, Zenon DEF StageInv

LEMMA AtStageKeeps ==
    ASSUME RuntimeInv, NEW n \in Workers, AtStage(n),
           kind = "pipelined" => StreamAt(n)' /\ (Up(n)' => \A q \in Seqs : StageInv(n, q)')
    PROVE  RuntimeInv'
<1>1. /\ Shape /\ Tiled /\ Phases /\ Batched /\ Sequential /\ Calling /\ Pipelined
      /\ UNCHANGED <<kind, stages, inner, resident, call, phase, fed, broken>> /\ N' = N
  BY Zenon DEF RuntimeInv, AtStage, N
<1>2. n # 1 /\ n \in 1..N
  BY <1>1 DEF Workers, Shape, N
<1>3. Shape' /\ Tiled' /\ Phases'
  <2>1. Viewed /\ fed' = fed /\ phase' = phase /\ broken' = broken /\ kind' = kind
    BY <1>1, ShapeViews, Zenon
  <2>2. Viewed'
    BY <2>1, Zenon DEF Viewed, Phases
  <2>. QED
    BY <1>1, <2>2, Framed, Zenon DEF AtStage
<1>4. Batched'
  <2>1. kind = "batched" => 1 \in 1..N /\ kvs'[1] = kvs[1]
    <3>1. kind = "batched" => 1 \in 1..N
      BY <1>1 DEF Tiled, Shape, N
    <3>. QED
      BY <1>2, <3>1, ZenonT(60) DEF AtStage
  <2>. QED
    BY <1>1, <2>1, Zenon DEF Batched
<1>5. Sequential' /\ Calling'
  <2>1. \A c : Asked(c)' <=> Asked(c)
    BY <1>1, Zenon DEF Asked
  <2>. QED
    BY <1>1, <2>1, Zenon DEF Sequential, Calling
<1>6. Pipelined'
  <2>. SUFFICES ASSUME kind = "pipelined", NEW m \in 1..N
                PROVE  StreamAt(m)' /\ (Up(m)' => \A q \in Seqs : StageInv(m, q)')
    BY <1>1, Zenon DEF Pipelined, Streams
  <2>1. CASE m = n
    BY <2>1, Zenon
  <2>2. CASE m # n
    <3>1. StreamAt(m) /\ (Up(m) => \A q \in Seqs : StageInv(m, q))
      BY <1>1, Zenon DEF Pipelined, Streams
    <3>2. /\ link'[m] = link[m] /\ flight'[m] = flight[m] /\ reply'[m] = reply[m]
          /\ (Up(m)' <=> Up(m))
      BY <2>2, Zenon DEF AtStage, Up
    <3>3. StreamAt(m)'
      BY <1>1, <3>1, <3>2, Zenon DEF StreamAt
    <3>. QED
      BY <1>1, <2>2, <3>1, <3>2, <3>3, StageInvStays, ZenonT(60)
  <2>. QED
    BY <2>1, <2>2, Zenon
<1>. QED
  BY <1>3, <1>4, <1>5, <1>6, Zenon DEF RuntimeInv

\* A stage whose stream is not up after the step is not asked any more.
LEMMA StageLost ==
    ASSUME RuntimeInv, NEW n \in Workers, AtStage(n), link'[n] # "up",
           kind = "pipelined" => reply'[n] = <<>>
    PROVE  RuntimeInv'
<1>1. ~Up(n)'
  BY DEF Workers, Up
<1>2. kind = "pipelined" => StreamAt(n)'
  BY <1>1, Zenon DEF StreamAt
<1>. QED
  BY <1>1, <1>2, AtStageKeeps, Zenon

LEMMA FaultKeeps ==
    ASSUME RuntimeInv, NEW n \in Workers, WorkerPanics(n) \/ LinkFails(n) \/ WorkerRestarts(n)
    PROVE  RuntimeInv' /\ Stutter
<1>1. n \in 1..N /\ DOMAIN kvs = 1..N /\ DOMAIN link = 1..N /\ DOMAIN flight = 1..N /\ DOMAIN reply = 1..N
  BY DEF RuntimeInv, Shape, Workers, N
<1>2. CASE WorkerPanics(n)
  <2>1. /\ flight[n] # <<>> /\ link' = [link EXCEPT ![n] = "poisoned"]
        /\ flight' = [flight EXCEPT ![n] = <<>>] /\ reply' = reply
        /\ UNCHANGED <<kind, stages, inner, resident, call, phase, fed, broken, answer>>
    BY <1>2, Zenon DEF WorkerPanics, view
  <2>2. PICK K : kvs' = [kvs EXCEPT ![n] = K]
    BY <1>2, Zenon DEF WorkerPanics
  <2>3. AtStage(n)
    BY <1>1, <2>1, <2>2, ZenonT(60) DEF AtStage
  <2>4. link'[n] # "up"
    BY <1>1, <2>1
  <2>5. kind = "pipelined" => reply'[n] = <<>>
    BY <1>1, <2>1, Zenon DEF RuntimeInv, Pipelined, Streams, StreamAt
  <2>. QED
    BY <2>1, <2>3, <2>4, <2>5, StageLost, Zenon DEF Stutter
<1>3. CASE LinkFails(n)
  <2>1. /\ link' = [link EXCEPT ![n] = "closed"] /\ reply' = [reply EXCEPT ![n] = <<>>]
        /\ UNCHANGED <<kind, stages, kvs, inner, resident, flight, call, phase, fed, broken, answer>>
    BY <1>3, Zenon DEF LinkFails, view, local
  <2>2. AtStage(n)
    BY <1>1, <2>1, Zenon DEF AtStage
  <2>3. link'[n] # "up" /\ reply'[n] = <<>>
    BY <1>1, <2>1
  <2>. QED
    BY <2>1, <2>2, <2>3, StageLost, Zenon DEF Stutter
<1>4. CASE WorkerRestarts(n)
  <2>1. /\ link' = [link EXCEPT ![n] = "closed"] /\ reply' = [reply EXCEPT ![n] = <<>>]
        /\ flight' = [flight EXCEPT ![n] = <<>>] /\ kvs' = [kvs EXCEPT ![n] = Nothing]
        /\ UNCHANGED <<kind, stages, inner, resident, call, phase, fed, broken, answer>>
    BY <1>4, Zenon DEF WorkerRestarts, view
  <2>2. AtStage(n)
    BY <1>1, <2>1, Zenon DEF AtStage
  <2>3. link'[n] # "up" /\ reply'[n] = <<>>
    BY <1>1, <2>1
  <2>. QED
    BY <2>1, <2>2, <2>3, StageLost, Zenon DEF Stutter
<1>. QED
  BY <1>2, <1>3, <1>4, Zenon

\* A worker whose stream is up runs the chunk of the call.
LEMMA StepRuns ==
    ASSUME Shape, Tiled, kind = "pipelined", NEW n \in 1..N, Up(n), NEW s \in Seqs,
           StageInv(n, s), Reached(n, s), flight[n] # <<>>, Asked(call[1]),
           NEW at, NEW slot, NEW ran, ran = Step(n, flight[n][1], at, slot)
    PROVE  /\ flight[n][1].seq = s
           /\ StageRan(ran, stages[n], fed[s], Goal(s), at)
<1>1. PICK x, h : /\ x = Fresh(stages[n].start, h, Len(fed[s]))
                  /\ h = Goal(s)
  BY Zenon
<1>2. PICK chunk : /\ chunk = [seq |-> s, pos |-> Len(fed[s]),
                               wire |-> [data |-> x, len |-> Len(x)]]
                   /\ flight[n] = <<chunk>>
  BY <1>1, ZenonT(60) DEF StageInv, Chunk, EncodeActivation
<1>3. /\ flight[n][1] = chunk /\ chunk.seq = s /\ chunk.pos = Len(fed[s])
      /\ chunk.wire.data = x /\ chunk.wire.len = Len(x)
  BY <1>2
<1>4. PICK d \in History : d = call[1].tokens /\ d # <<>> /\ h = fed[s] \o d
  <2>1. call[1].tokens \in Seq(Tokens)
    BY DEF Asked, CallRecord
  <2>. QED
    BY <1>1, <2>1, ZenonT(60) DEF Asked, Goal, History
<1>5. PICK kv : kv = IF Len(fed[s]) = 0 THEN NewKv(n) ELSE KvOf(n, s)
  BY Zenon
<1>6. fed[s] # <<>> => Holds(stages[n], kvs[n], s, fed[s])
  <2>1. ~Passed(n, s)
    <3>1. n = call[1].stage /\ ~(n < n)
      BY DEF Reached
    <3>. QED
      BY <3>1, Zenon DEF Passed
  <2>. QED
    BY <2>1, Zenon DEF StageInv
<1>7. kind \in Kinds
  BY DEF Kinds
<1>8. /\ kv.tokens = Len(fed[s])
      /\ StageRan(ForwardHidden(n, kv, x, Len(fed[s]), at, slot), stages[n], fed[s], h, at)
  BY <1>1, <1>4, <1>5, <1>6, <1>7, StageGoesOn, ZenonT(60)
<1>9. ran = ForwardHidden(n, kv, x, Len(fed[s]), at, slot)
  <2>1. ran = Step(n, chunk, at, slot) /\ DecodeActivation(chunk.wire)
    BY <1>3, Zenon DEF DecodeActivation
  <2>. QED
    BY <1>3, <1>5, <1>8, <2>1, Zenon DEF Step
<1>. QED
  BY <1>1, <1>3, <1>8, <1>9, ZenonT(60)

LEMMA WorkerStepKeeps ==
    ASSUME RuntimeInv, NEW n \in Workers, NEW at, NEW slot, WorkerStep(n, at, slot)
    PROVE  RuntimeInv' /\ Stutter
<1>1. n \in 1..N /\ DOMAIN kvs = 1..N /\ DOMAIN link = 1..N /\ DOMAIN flight = 1..N /\ DOMAIN reply = 1..N
  BY DEF RuntimeInv, Shape, Workers, N
<1>2. PICK s, ran : s = flight[n][1].seq /\ ran = Step(n, flight[n][1], at, slot)
  BY Zenon
<1>3. /\ flight[n] # <<>> /\ kvs' = [kvs EXCEPT ![n] = Put(n, s, ran.kv)]
      /\ flight' = [flight EXCEPT ![n] = <<>>]
      /\ reply' = IF link[n] = "up"
                    THEN [reply EXCEPT ![n] = <<[ok |-> ran.ok, wire |-> EncodeActivation(ran.x)]>>]
                    ELSE reply
      /\ UNCHANGED <<kind, stages, inner, resident, link, call, phase, fed, broken, answer>>
  BY <1>2, Zenon DEF WorkerStep, view
<1>4. AtStage(n)
  BY <1>1, <1>3, Zenon DEF AtStage
<1>5. Shape /\ Tiled /\ Calling /\ Pipelined
  BY Zenon DEF RuntimeInv
<1>6. CASE link[n] = "up" /\ kind = "pipelined"
  <2>1. /\ Up(n) /\ Up(n)' /\ flight'[n] = <<>> /\ kvs'[n] = Put(n, s, ran.kv)
        /\ reply'[n] = <<[ok |-> ran.ok, wire |-> EncodeActivation(ran.x)]>>
    BY <1>1, <1>3, <1>6, ZenonT(60) DEF Up
  <2>2. /\ StreamAt(n) /\ (\A q \in Seqs : StageInv(n, q)) /\ call # <<>> /\ call[1].stage = n
        /\ Asked(call[1])
    BY <1>1, <1>3, <1>5, <1>6, <2>1, ZenonT(60) DEF Pipelined, Streams, StreamAt, Calling
  <2>3. PICK t \in Seqs : t = call[1].seq /\ Reached(n, t)
    <3>1. call[1].seq \in Seqs
      BY <2>2 DEF Asked, CallRecord
    <3>. QED
      BY <2>2, <3>1, ZenonT(60) DEF Reached
  <2>4. s = t /\ StageRan(ran, stages[n], fed[t], Goal(t), at)
    BY <1>1, <1>2, <1>3, <1>5, <1>6, <2>1, <2>2, <2>3, StepRuns, ZenonT(60)
  <2>5. /\ UNCHANGED <<stages, call, fed>>
        /\ \A q : (Passed(n, q)' <=> Passed(n, q)) /\ (Reached(n, q)' <=> Reached(n, q))
        /\ \A q : Goal(q)' = Goal(q) /\ Result(n, q)' = Result(n, q)
    BY <1>3, Zenon DEF Passed, Reached, Goal, Result
  <2>6. StreamAt(n)'
    BY <1>3, <2>1, <2>2, ZenonT(60) DEF StreamAt
  <2>7. Given(kvs[n], s, ran.kv, kvs'[n])
    BY <2>1, PutGives, Zenon
  <2>8. ASSUME NEW q \in Seqs PROVE StageInv(n, q)'
    <3>1. CASE q = t
      <4>1. ~Passed(n, q) /\ Reached(n, q)
        <5>1. ~(n < call[1].stage)
          BY <2>2 DEF Workers
        <5>. QED
          BY <2>3, <3>1, <5>1, ZenonT(60) DEF Passed
      <4>2. ASSUME ran.ok
            PROVE  Holds(stages[n], kvs'[n], q, Goal(q)) /\ reply'[n] = <<Result(n, q)>>
        <5>1. GoodKv(stages[n], ran.kv, Goal(q)) /\ ran.x = Fresh(stages[n].end, Goal(q), Len(fed[q]))
          BY <2>4, <3>1, <4>2, Zenon DEF StageRan
        <5>2. Holds(stages[n], kvs'[n], q, Goal(q))
          BY <2>4, <2>7, <3>1, <5>1, GivenHolds, Zenon
        <5>3. ran.ok = TRUE
          BY <2>4, <4>2, ZenonT(60) DEF StageRan
        <5>. QED
          BY <2>1, <5>1, <5>2, <5>3, Zenon DEF Result
      <4>3. reply'[n][1].ok = ran.ok
        BY <2>1
      <4>. QED
        BY <2>1, <2>5, <4>1, <4>2, <4>3, ZenonT(60) DEF StageInv
    <3>2. CASE q # t
      <4>1. ~Passed(n, q) /\ ~Reached(n, q)
        BY <2>3, <3>2, Zenon DEF Passed, Reached
      <4>2. ASSUME fed[q] # <<>> PROVE Holds(stages[n], kvs'[n], q, fed[q])
        <5>1. Holds(stages[n], kvs[n], q, fed[q])
          BY <2>2, <4>1, <4>2, Zenon DEF StageInv
        <5>. QED
          BY <2>4, <2>7, <3>2, <5>1, GivenKeeps, ZenonT(60)
      <4>. QED
        BY <2>5, <4>1, <4>2, Zenon DEF StageInv
    <3>. QED
      BY <3>1, <3>2, Zenon
  <2>. QED
    BY <1>3, <1>4, <2>6, <2>8, AtStageKeeps, ZenonT(60) DEF Stutter
<1>7. CASE kind # "pipelined"
  BY <1>3, <1>4, <1>7, AtStageKeeps, Zenon DEF Stutter
<1>8. CASE link[n] # "up" /\ kind = "pipelined"
  <2>1. ~Up(n)
    BY <1>8 DEF Up, Workers
  <2>2. link'[n] # "up" /\ reply'[n] = <<>>
    BY <1>1, <1>3, <1>5, <1>8, <2>1, ZenonT(60) DEF Pipelined, Streams, StreamAt
  <2>. QED
    BY <1>3, <1>4, <2>2, StageLost, Zenon DEF Stutter
<1>. QED
  BY <1>6, <1>7, <1>8, ZenonT(60)

-----------------------------------------------------------------------------
(* Dropping a sequence.                                                    *)
LEMMA DropSeqKeeps ==
    ASSUME RuntimeInv, NEW s \in Seqs, NEW deaf, NEW after \in {"waiting", "finished"},
           DropSeq(s, deaf, after)
    PROVE  RuntimeInv' /\ Contract!Next
<1>1. /\ Shape /\ Tiled /\ Phases /\ Batched /\ Sequential /\ Pipelined /\ kind \in Kinds
      /\ call = <<>> /\ UNCHANGED <<kind, stages, inner, link, flight, reply, call, answer>>
      /\ kvs' = [n \in DOMAIN kvs |-> IF n \in deaf THEN kvs[n] ELSE Without(kvs[n], s)]
      /\ resident' = IF resident # <<>> /\ resident[1].seq = s THEN <<>> ELSE resident
      /\ phase' = [phase EXCEPT ![s] = after] /\ fed' = [fed EXCEPT ![s] = <<>>]
      /\ broken' = broken \ {s}
  BY Zenon DEF RuntimeInv, DropSeq, Kinds, pipes
<1>2. Contract!Next
  <2>1. Contract!Drop(s)
    BY <1>1, Zenon DEF Contract!Drop
  <2>. QED
    BY <2>1, Zenon DEF Contract!Next
<1>3. /\ fed \in [Seqs -> Seq(Tokens)] /\ phase \in [Seqs -> Phase] /\ broken \subseteq Seqs
      /\ DOMAIN kvs = 1..N
  BY <1>1, Zenon DEF Shape
<1>4. After(s, <<>>) /\ phase'[s] = after /\ \A q \in Seqs : q # s => phase'[q] = phase[q]
  BY <1>1, <1>3, Zenon DEF After
<1>5. after \in Phase /\ after # "prefill" /\ after # "decode" /\ <<>> \in Seq(Tokens)
  BY DEF Phase
<1>6. Viewed'
  <2>1. fed' \in [Seqs -> Seq(Tokens)] /\ phase' \in [Seqs -> Phase] /\ broken' \subseteq Seqs
    BY <1>1, <1>3, <1>5, Zenon
  <2>2. Phases'
    BY <1>1, <1>4, <1>5, Zenon DEF Phases, After
  <2>. QED
    BY <2>1, <2>2, Zenon DEF Viewed
<1>7. DOMAIN kvs' = DOMAIN kvs
  BY <1>1, Zenon
<1>8. Shape' /\ Tiled' /\ Phases'
  BY <1>1, <1>6, <1>7, Framed, Zenon
<1>9. ASSUME NEW m \in 1..N, NEW q \in Seqs, q # s, NEW h, Holds(stages[m], kvs[m], q, h)
      PROVE  Holds(stages[m], kvs'[m], q, h)
  <2>1. kvs'[m] = kvs[m] \/ kvs'[m] = Without(kvs[m], s)
    BY <1>1, <1>3, Zenon
  <2>2. Holds(stages[m], Without(kvs[m], s), q, h)
    BY <1>9, WithoutHolds, ZenonT(60)
  <2>. QED
    BY <1>9, <2>1, <2>2, Zenon
<1>10. CASE kind = "batched"
  <2>1. Batched'
    <3>. SUFFICES ASSUME NEW q \in Seqs, fed'[q] # <<>> PROVE Holds(stages[1], kvs'[1], q, fed'[q])
      BY <1>1, <1>10, Zenon DEF Batched
    <3>1. q # s /\ fed'[q] = fed[q] /\ Holds(stages[1], kvs[1], q, fed[q])
      BY <1>1, <1>4, <1>10, ZenonT(60) DEF After, Batched
    <3>2. 1 \in 1..N
      <4>1. N >= 1 /\ stages \in Seq(LayerRanges)
        BY <1>1, ZenonT(60) DEF Tiled, Shape
      <4>. QED
        BY <4>1 DEF N
    <3>. QED
      BY <1>9, <3>1, <3>2, Zenon
  <2>. QED
    BY <1>1, <1>2, <1>8, <1>10, <2>1 DEF RuntimeInv, Sequential, Calling, Pipelined
<1>11. CASE kind = "sequential"
  <2>1. Sequential'
    <3>. SUFFICES ASSUME NEW q \in Seqs, fed'[q] # <<>>, resident' # <<>>, resident'[1].seq = q
                  PROVE  /\ resident' = <<[seq |-> q, n |-> Len(fed'[q])]>>
                         /\ inner' = EmbedTokens(fed'[q])
      BY Zenon DEF Sequential
    <3>1. q # s /\ fed'[q] = fed[q] /\ resident' = resident
      BY <1>1, <1>4, Zenon DEF After
    <3>. QED
      BY <1>1, <1>11, <3>1, Zenon DEF Sequential
  <2>. QED
    BY <1>1, <1>2, <1>8, <1>11, <2>1 DEF RuntimeInv, Batched, Calling, Pipelined
<1>12. CASE kind = "pipelined"
  <2>1. SamePipeline
    BY <1>1, <1>7, <1>12, Zenon DEF SamePipeline
  <2>2. Quiet
    BY <1>1, <1>12, IdleQuiet, Zenon
  <2>3. Others(s)
    <3>. SUFFICES ASSUME NEW m \in 1..N, NEW q \in Seqs, Up(m), q # s, fed[q] # <<>>
                  PROVE  Holds(stages[m], kvs'[m], q, fed[q])
      BY Zenon DEF Others
    <3>1. Holds(stages[m], kvs[m], q, fed[q])
      BY <1>1, <1>12, IdleHolds, Zenon
    <3>. QED
      BY <1>9, <3>1, Zenon
  <2>4. RuntimeInv'
    BY <1>1, <1>4, <1>6, <2>1, <2>2, <2>3, CallEnds, ZenonT(60)
  <2>. QED
    BY <1>2, <2>4, Zenon
<1>. QED
  BY <1>1, <1>10, <1>11, <1>12, Zenon DEF Kinds

-----------------------------------------------------------------------------
(* Loading.                                                                *)
LEMMA OneItem ==
    ASSUME NEW X, NEW a \in X, NEW r, r = <<a>>
    PROVE  r \in Seq(X) /\ Len(r) = 1 /\ r[1] = a
OBVIOUS

LEMMA LoadedTiles ==
    ASSUME NEW arch, NEW ranges \in Seq(LayerRanges), NEW backend, NEW r,
           r = IF ranges = <<>> THEN <<LayerRange(0, NLayers)>> ELSE ranges,
           NEW k, k = Loaded(arch, ranges, backend)
    PROVE  /\ k \in Kinds \cup {"refused"} /\ r \in Seq(LayerRanges)
           /\ Len(r) = IF ranges = <<>> THEN 1 ELSE Len(ranges)
           /\ k \in Kinds =>
                /\ Len(r) >= 1 /\ r[1].start = 0
                /\ \A n \in 1..Len(r) : r[n].start < r[n].end
                /\ \A n \in 1..Len(r) : n < Len(r) => r[n + 1].start = r[n].end
           /\ k \in {"batched", "sequential"} => Len(r) = 1 /\ r[1].end = NLayers
<1>1. k \in Kinds \cup {"refused"}
  BY DEF Loaded, Kinds
<1>2. CASE ranges = <<>>
  <2>1. PICK e : e = LayerRange(0, NLayers)
    BY Zenon
  <2>2. e \in LayerRanges /\ e.start = 0 /\ e.end = NLayers /\ 0 < NLayers
    BY <2>1, RuntimeConstants DEF LayerRange, LayerRanges
  <2>3. r \in Seq(LayerRanges) /\ Len(r) = 1 /\ r[1] = e
    BY <1>2, <2>1, <2>2, OneItem, ZenonT(60)
  <2>4. 1 >= 1 /\ \A n \in 1..1 : n = 1 /\ ~(n < 1)
    OBVIOUS
  <2>. QED
    BY <1>1, <1>2, <2>2, <2>3, <2>4, ZenonT(60)
<1>3. CASE ranges # <<>>
  <2>1. r = ranges /\ Len(r) \in Nat /\ Len(r) >= 1
    BY <1>3, Nonempty
  <2>2. k \notin {"batched", "sequential"} /\ (k \in Kinds => Connects(arch, ranges))
    BY <1>3 DEF Loaded, Kinds
  <2>3. ASSUME Connects(arch, ranges)
        PROVE  /\ r[1].start = 0
               /\ \A n \in 1..Len(r) : r[n].start < r[n].end
               /\ \A n \in 1..Len(r) : n < Len(r) => r[n + 1].start = r[n].end
    <3>1. /\ r[1].start = 0 /\ r[1].end > 0
          /\ \A n \in 2..Len(r) : r[n].start < r[n].end
          /\ \A n \in 1..(Len(r) - 1) : r[n + 1].start = r[n].end
      BY <2>1, <2>3, Zenon DEF Connects, ConnectWorker, RunWorker, ValidateCoverage
    <3>2. r[1].start < r[1].end
      BY <2>1, <3>1 DEF LayerRanges
    <3>3. \A n \in 1..Len(r) : n = 1 \/ n \in 2..Len(r)
      BY <2>1
    <3>4. \A n \in 1..Len(r) : n < Len(r) => n \in 1..(Len(r) - 1)
      BY <2>1
    <3>. QED
      BY <3>1, <3>2, <3>3, <3>4, ZenonT(60)
  <2>. QED
    BY <1>1, <1>3, <2>1, <2>2, <2>3, ZenonT(60)
<1>. QED
  BY <1>2, <1>3, Zenon

LEMMA LoadKeeps ==
    ASSUME RuntimeInv, NEW arch, NEW ranges \in Slicings, NEW backend, Load(arch, ranges, backend)
    PROVE  RuntimeInv' /\ Stutter
<1>1. PICK n : n = IF ranges = <<>> THEN 1 ELSE Len(ranges)
  BY Zenon
<1>2. /\ Shape /\ Phases /\ Calling /\ kind = "none" /\ kind' = Loaded(arch, ranges, backend)
      /\ stages' = IF ranges = <<>> THEN <<LayerRange(0, NLayers)>> ELSE ranges
      /\ kvs' = [i \in 1..n |-> Nothing] /\ link' = [i \in 1..n |-> "up"]
      /\ flight' = [i \in 1..n |-> <<>>] /\ reply' = [i \in 1..n |-> <<>>]
      /\ UNCHANGED <<inner, resident, call, phase, fed, broken, answer>>
  BY <1>1, Zenon DEF RuntimeInv, Load, view
<1>3. ranges \in Seq(LayerRanges)
  BY RuntimeConstants, Zenon DEF LayerRanges
<1>4. PICK k, r : /\ k = Loaded(arch, ranges, backend)
                  /\ r = IF ranges = <<>> THEN <<LayerRange(0, NLayers)>> ELSE ranges
  BY Zenon
<1>5. /\ k = kind' /\ r = stages'
      /\ k \in Kinds \cup {"refused"} /\ r \in Seq(LayerRanges) /\ Len(r) = n
      /\ k \in Kinds =>
           /\ Len(r) >= 1 /\ r[1].start = 0
           /\ \A i \in 1..Len(r) : r[i].start < r[i].end
           /\ \A i \in 1..Len(r) : i < Len(r) => r[i + 1].start = r[i].end
      /\ k \in {"batched", "sequential"} => Len(r) = 1 /\ r[1].end = NLayers
  <2>1. k = kind' /\ r = stages'
    BY <1>2, <1>4, ZenonT(60)
  <2>2. /\ k \in Kinds \cup {"refused"} /\ r \in Seq(LayerRanges)
        /\ Len(r) = IF ranges = <<>> THEN 1 ELSE Len(ranges)
        /\ k \in Kinds =>
             /\ Len(r) >= 1 /\ r[1].start = 0
             /\ \A i \in 1..Len(r) : r[i].start < r[i].end
             /\ \A i \in 1..Len(r) : i < Len(r) => r[i + 1].start = r[i].end
        /\ k \in {"batched", "sequential"} => Len(r) = 1 /\ r[1].end = NLayers
    BY <1>3, <1>4, LoadedTiles
  <2>3. Len(r) = n
    BY <1>1, <2>2
  <2>. QED
    BY <2>1, <2>2, <2>3, Zenon
<1>6. N' = n /\ \A s \in Seqs : fed'[s] = <<>>
  BY <1>2, <1>5, Zenon DEF N, Phases
<1>7. kind' \in Kinds \cup {"refused"} /\ kind' # "none"
  BY <1>5 DEF Kinds
<1>8. Shape'
  <2>1. DOMAIN kvs' = 1..n /\ DOMAIN link' = 1..n /\ DOMAIN flight' = 1..n /\ DOMAIN reply' = 1..n
    BY <1>2, Zenon
  <2>. QED
    BY <1>2, <1>5, <1>6, <1>7, <2>1, ZenonT(60) DEF Shape
<1>9. Tiled'
  BY <1>5, <1>6, Zenon DEF Tiled
<1>10. Phases'
  BY <1>2, <1>6, <1>7, Zenon DEF Phases
<1>11. Batched' /\ Sequential'
  BY <1>6, Zenon DEF Batched, Sequential
<1>12. call' = <<>>
  BY <1>2 DEF Calling
<1>13. Pipelined'
  <2>1. Streams'
    BY <1>2, <1>6, Zenon DEF Streams, StreamAt
  <2>2. ASSUME NEW m, NEW q \in Seqs PROVE StageInv(m, q)'
    <3>1. ~Passed(m, q)' /\ ~Reached(m, q)'
      BY <1>12, Zenon DEF Passed, Reached
    <3>. QED
      BY <1>6, <3>1, Zenon DEF StageInv
  <2>. QED
    BY <2>1, <2>2, Zenon DEF Pipelined
<1>14. Calling'
  BY <1>12, Zenon DEF Calling
<1>15. Stutter
  BY <1>2, Zenon DEF Stutter
<1>. QED
  BY <1>8, <1>9, <1>10, <1>11, <1>13, <1>14, <1>15, ZenonT(60) DEF RuntimeInv

-----------------------------------------------------------------------------
(* The theorems.                                                           *)
LEMMA InitHolds == ASSUME Init PROVE RuntimeInv /\ Contract!Init
<1>1. /\ kind = "none" /\ stages = <<>> /\ kvs = <<>> /\ link = <<>> /\ flight = <<>>
      /\ reply = <<>> /\ call = <<>>
      /\ phase = [s \in Seqs |-> "waiting"] /\ fed = [s \in Seqs |-> <<>>]
      /\ broken = {} /\ answer = [ok |-> TRUE, logits |-> Nothing]
  BY Zenon DEF Init
<1>2. kind \notin Kinds /\ N = 0
  BY <1>1 DEF Kinds, N
<1>3. Shape
  <2>1. stages \in Seq(LayerRanges)
    BY <1>1
  <2>2. DOMAIN <<>> = 1..0
    OBVIOUS
  <2>3. fed \in [Seqs -> Seq(Tokens)] /\ phase \in [Seqs -> Phase]
    BY <1>1 DEF Phase
  <2>. QED
    BY <1>1, <1>2, <2>1, <2>2, <2>3, ZenonT(60) DEF Shape
<1>4. Phases
  BY <1>1 DEF Phases
<1>5. Tiled /\ Batched /\ Sequential /\ Pipelined
  BY <1>1, <1>2 DEF Tiled, Batched, Sequential, Pipelined, Kinds
<1>6. Calling
  BY <1>1, Zenon DEF Calling
<1>7. Contract!Init
  BY <1>1, Zenon DEF Contract!Init, Nothing, Contract!Nothing
<1>. QED
  BY <1>3, <1>4, <1>5, <1>6, <1>7, ZenonT(60) DEF RuntimeInv

LEMMA UnchangedKeeps == ASSUME RuntimeInv, UNCHANGED vars PROVE RuntimeInv' /\ Stutter
<1>1. /\ kind' = kind /\ stages' = stages /\ kvs' = kvs /\ inner' = inner /\ resident' = resident
      /\ link' = link /\ flight' = flight /\ reply' = reply /\ call' = call
      /\ phase' = phase /\ fed' = fed /\ broken' = broken /\ answer' = answer
  BY Zenon DEF vars, local, pipes, view
<1>2. N' = N
  BY <1>1, Zenon DEF N
<1>3. Shape'
  BY <1>1, <1>2, Zenon DEF RuntimeInv, Shape
<1>4. Tiled'
  BY <1>1, <1>2, Zenon DEF RuntimeInv, Tiled
<1>5. Phases'
  BY <1>1, Zenon DEF RuntimeInv, Phases
<1>6. Batched' /\ Sequential'
  BY <1>1, Zenon DEF RuntimeInv, Batched, Sequential
<1>7. Calling'
  BY <1>1, <1>2, Zenon DEF RuntimeInv, Calling, Asked
<1>8. Pipelined'
  <2>1. ASSUME NEW n PROVE StreamAt(n)' <=> StreamAt(n)
    BY <1>1, Zenon DEF StreamAt, Up
  <2>2. ASSUME NEW n, NEW s PROVE StageInv(n, s)' <=> StageInv(n, s)
    <3>1. (Passed(n, s)' <=> Passed(n, s)) /\ (Reached(n, s)' <=> Reached(n, s))
      BY <1>1, Zenon DEF Passed, Reached
    <3>2. Goal(s)' = Goal(s) /\ Chunk(n, s)' = Chunk(n, s) /\ Result(n, s)' = Result(n, s)
      BY <1>1, Zenon DEF Goal, Chunk, Result
    <3>. QED
      BY <1>1, <3>1, <3>2, Zenon DEF StageInv
  <2>. QED
    BY <1>1, <1>2, <2>1, <2>2, ZenonT(60) DEF RuntimeInv, Pipelined, Streams, Up
<1>. QED
  BY <1>1, <1>3, <1>4, <1>5, <1>6, <1>7, <1>8, ZenonT(60) DEF RuntimeInv, Stutter

LEMMA NextKeeps == ASSUME RuntimeInv, Next PROVE RuntimeInv' /\ (Contract!Next \/ Stutter)
<1>1. ASSUME NEW arch \in Archs, NEW ranges \in Slicings, NEW backend \in Backends,
             Load(arch, ranges, backend)
      PROVE  RuntimeInv' /\ Stutter
  BY <1>1, LoadKeeps, Zenon
<1>2. ASSUME LocalCall PROVE RuntimeInv' /\ (Contract!Next \/ Stutter)
  <2>1. ASSUME NEW s \in Seqs, NEW slot, NEW at,
               BatchedPrefill(s, at, slot) \/ PipelinedPrefill(s, at, slot)
        PROVE  RuntimeInv' /\ (Contract!Next \/ Stutter)
    BY <2>1, BatchedPrefillKeeps, PipelinedPrefillKeeps, Zenon
  <2>2. ASSUME NEW tok \in [Decoding -> Tokens], NEW slot, NEW at, BatchedDecode(tok, at, slot)
        PROVE  RuntimeInv' /\ Contract!Next
    BY <2>2, BatchedDecodeKeeps, Zenon
  <2>3. ASSUME NEW s \in Seqs, NEW upto, SequentialPrefill(s, upto)
        PROVE  RuntimeInv' /\ Contract!Next
    BY <2>3, SequentialPrefillKeeps, Zenon
  <2>4. ASSUME NEW tok \in Tokens, NEW fails, SequentialDecode(tok, fails)
        PROVE  RuntimeInv' /\ Contract!Next
    BY <2>4, SequentialDecodeKeeps, Zenon
  <2>5. ASSUME NEW s \in Seqs, NEW tok \in Tokens, NEW slot, NEW at, PipelinedDecode(s, tok, at, slot)
        PROVE  RuntimeInv' /\ (Contract!Next \/ Stutter)
    BY <2>5, PipelinedDecodeKeeps, Zenon
  <2>. QED
    BY <1>2, <2>1, <2>2, <2>3, <2>4, <2>5, ZenonT(60) DEF LocalCall
<1>3. ASSUME RemoteStep PROVE RuntimeInv' /\ (Contract!Next \/ Stutter)
  BY <1>3, WorkerStepKeeps, ReceiveKeeps, StreamEndedKeeps, Zenon DEF RemoteStep
<1>4. ASSUME Fault PROVE RuntimeInv' /\ Stutter
  BY <1>4, FaultKeeps, Zenon DEF Fault
<1>5. ASSUME NEW s \in Seqs, NEW deaf, NEW after \in {"waiting", "finished"}, DropSeq(s, deaf, after)
      PROVE  RuntimeInv' /\ Contract!Next
  BY <1>5, DropSeqKeeps, Zenon
<1>6. ASSUME Terminated PROVE UNCHANGED vars
  BY <1>6, Zenon DEF Terminated
<1>7. ASSUME Terminated PROVE RuntimeInv' /\ Stutter
  BY <1>6, <1>7, UnchangedKeeps, Zenon
<1>. QED
  BY <1>1, <1>2, <1>3, <1>4, <1>5, <1>7, ZenonT(60) DEF Next

LEMMA StutterIsUnchanged == ASSUME Stutter PROVE UNCHANGED Contract!vars
  BY Zenon DEF Stutter, Contract!vars

\* The invariant: whichever runtime the model was loaded into, every cache of
\* every stage holds what its sequence was fed, or the sequence is refused
\* until it starts again, across failed layers, lost links and restarts.
THEOREM RuntimeHolds == Spec => []RuntimeInv
<1>1. Init => RuntimeInv
  BY InitHolds, Zenon
<1>2. RuntimeInv /\ [Next]_vars => RuntimeInv'
  BY NextKeeps, UnchangedKeeps, Zenon
<1>. QED
  BY <1>1, <1>2, PTL DEF Spec

\* The batched runtime, the one-at-a-time adapter and the pipeline of stages
\* each implement the BatchModel trait: logits follow from exactly the tokens
\* their own sequence was fed since it started, and a call that cannot give
\* them fails and leaves the sequence to be started again.
THEOREM RuntimeIsBatchModel == Spec => ImplementsBatchModel
<1>1. Init => Contract!Init
  BY InitHolds, Zenon
<1>2. RuntimeInv /\ [Next]_vars => [Contract!Next]_(Contract!vars)
  BY NextKeeps, UnchangedKeeps, StutterIsUnchanged, Zenon
<1>. QED
  BY <1>1, <1>2, RuntimeHolds, PTL DEF Spec, ImplementsBatchModel, Contract!Spec

=============================================================================
