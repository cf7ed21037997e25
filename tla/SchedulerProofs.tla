--------------------------- MODULE SchedulerProofs ---------------------------
(***************************************************************************)
(* Proofs about Scheduler, for any requests, prompts, batch and chunk      *)
(* sizes and any pool: the pool's count is exact and no request is lost    *)
(* (Conserved), and the runtime is only asked for what it can do           *)
(* (RuntimeContract).                                                      *)
(*                                                                         *)
(* The first rests on the four places a request can be in being disjoint.  *)
(* The second needs to know, of a decoding sequence, that its KV is no     *)
(* longer than its tokens (after a preemption it is shorter), and, while   *)
(* room is made, which candidates already have theirs.                     *)
(***************************************************************************)
EXTENDS Scheduler, FiniteSetTheorems, SequenceTheorems, TLAPS

\* The larger steps need more time than the backends have by default.
USE SMTT(30), ZenonT(30)

Stages == {"drain", "admit", "prefill", "room", "decode", "emit", "fail"}
Fates == {"unsent", "open", "stop", "length", "error", "dropped"}

Shapes ==
    /\ at \in Stages /\ todo \in SUBSET Reqs
    /\ phase \in [Reqs -> {"prefill", "decode"}]
    /\ done \in [Reqs -> Nat] /\ generated \in [Reqs -> Nat]
    /\ kv \in [Reqs -> Nat] /\ held \in [Reqs -> Nat] /\ used \in Nat
    /\ fate \in [Reqs -> Fates]

\* A queue without repetitions.
Listed(s) == s \in Seq(Reqs) /\ IsInjective(s)

\* Where the requests are.
Placed ==
    /\ Listed(inbox) /\ Listed(waiting) /\ Listed(running)
    /\ Range(inbox) \cap Range(waiting) = {}
    /\ Range(inbox) \cap Range(running) = {}
    /\ Range(waiting) \cap Range(running) = {}
    /\ \A r \in Reqs :
          fate[r] = "open" <=> r \in Range(inbox) \cup Range(waiting) \cup Range(running)

\* The pool's count.
Counted ==
    /\ IsFiniteSet(BlocksOf(Reqs))
    /\ used = Cardinality(BlocksOf(Reqs)) /\ used <= TotalBlocks

\* A sequence that is not running has nothing and starts from nothing.
AtRest(r) ==
    /\ held[r] = 0 /\ kv[r] = 0
    /\ fate[r] \in {"unsent", "open"} => phase[r] = "prefill" /\ done[r] = 0
    /\ r \in Range(waiting) => PromptLen[r] > 0

\* A running one is within what it has reserved.
Ahead(r) == IF at = "emit" /\ r \in todo THEN 1 ELSE 0
Roomy(r) == at = "decode" \/ (at = "room" /\ r \notin todo)

InContract(r) ==
    /\ PromptLen[r] > 0
    /\ phase[r] = "prefill" => kv[r] = done[r] /\ done[r] < PromptLen[r]
    /\ phase[r] = "decode" =>
          /\ PromptLen[r] <= kv[r] /\ kv[r] <= PromptLen[r] + generated[r] + Ahead(r)
          /\ Roomy(r) => kv[r] + 1 <= held[r] * BlockTokens
    /\ kv[r] <= held[r] * BlockTokens
    /\ PromptLen[r] + 1 <= held[r] * BlockTokens

Holdings ==
    /\ \A r \in Reqs \ Range(running) : AtRest(r)
    /\ \A r \in Range(running) : InContract(r)

SchedInv == Shapes /\ Placed /\ Counted /\ Holdings

-----------------------------------------------------------------------------
(* Queues without repetitions.                                             *)
LEMMA ListedDomain ==
    ASSUME NEW s, Listed(s)
    PROVE  /\ Len(s) \in Nat /\ DOMAIN s = 1 .. Len(s)
           /\ \A i \in 1 .. Len(s) : s[i] \in Reqs /\ s[i] \in Range(s)
           /\ \A r \in Range(s) : \E i \in 1 .. Len(s) : s[i] = r
           /\ \A i, j \in 1 .. Len(s) : s[i] = s[j] => i = j
           /\ Range(s) \subseteq Reqs
BY DEF Listed, Range, IsInjective

LEMMA Member ==
    ASSUME SchedInv, NEW i \in DOMAIN running
    PROVE  running[i] \in Range(running) /\ running[i] \in Reqs
<1>1. Listed(running)
  BY Zenon DEF SchedInv, Placed
<1>. QED
  BY <1>1, ListedDomain, Zenon

LEMMA EmptyListed == Listed(<<>>) /\ Range(<<>>) = {}
<1>1. <<>> \in Seq(Reqs) /\ DOMAIN <<>> = {}
  OBVIOUS
<1>. QED
  BY <1>1, Zenon DEF Listed, Range, IsInjective

LEMMA Pushed ==
    ASSUME NEW s, Listed(s), NEW r \in Reqs, r \notin Range(s)
    PROVE  Listed(Append(s, r)) /\ Range(Append(s, r)) = Range(s) \cup {r}
<1>. DEFINE t == Append(s, r)
<1>1. /\ t \in Seq(Reqs) /\ Len(s) \in Nat /\ Len(t) = Len(s) + 1 /\ DOMAIN t = 1 .. Len(s) + 1
      /\ t[Len(s) + 1] = r /\ \A i \in 1 .. Len(s) : t[i] = s[i]
  BY ListedDomain DEF Listed
<1>2. \A i \in 1 .. Len(s) + 1 : i \in 1 .. Len(s) \/ i = Len(s) + 1
  BY <1>1
<1>3. Range(t) = Range(s) \cup {r}
  <2>1. Range(t) \subseteq Range(s) \cup {r}
    BY <1>1, <1>2, ListedDomain DEF Range
  <2>2. Range(s) \cup {r} \subseteq Range(t)
    <3>1. \A i \in 1 .. Len(s) : i \in DOMAIN t
      BY <1>1
    <3>2. Len(s) + 1 \in DOMAIN t
      BY <1>1
    <3>. QED
      BY <1>1, <3>1, <3>2, ListedDomain DEF Range
  <2>. QED
    BY <2>1, <2>2, Zenon
<1>4. \A i, j \in 1 .. Len(s) + 1 : t[i] = t[j] => i = j
  BY <1>1, <1>2, ListedDomain
<1>. QED
  BY <1>1, <1>3, <1>4, Zenon DEF Listed, IsInjective

LEMMA Popped ==
    ASSUME NEW s, Listed(s), s # <<>>
    PROVE  /\ Head(s) \in Range(s) /\ Listed(Tail(s)) /\ Range(Tail(s)) = Range(s) \ {Head(s)}
<1>. DEFINE t == Tail(s)
<1>1. /\ s \in Seq(Reqs) /\ Len(s) \in Nat \ {0} /\ t \in Seq(Reqs) /\ Len(t) = Len(s) - 1
      /\ DOMAIN t = 1 .. Len(s) - 1 /\ Head(s) = s[1]
      /\ \A i \in 1 .. Len(s) - 1 : t[i] = s[i + 1]
  BY DEF Listed
<1>2. \A i \in 1 .. Len(s) - 1 : i + 1 \in 1 .. Len(s) /\ i + 1 # 1
  BY <1>1
<1>3. \A i \in 1 .. Len(s) : i = 1 \/ (i - 1 \in 1 .. Len(s) - 1 /\ t[i - 1] = s[i])
  BY <1>1
<1>4. 1 \in 1 .. Len(s)
  BY <1>1
<1>5. Range(t) \subseteq Range(s) \ {Head(s)}
  BY <1>1, <1>2, <1>4, ListedDomain DEF Range
<1>6. Range(s) \ {Head(s)} \subseteq Range(t)
  <2>. SUFFICES ASSUME NEW r \in Range(s), r # Head(s) PROVE r \in Range(t)
    BY Zenon
  <2>1. PICK i \in 1 .. Len(s) : s[i] = r
    BY ListedDomain, Zenon
  <2>2. i - 1 \in DOMAIN t /\ t[i - 1] = r
    BY <1>1, <1>3, <2>1, Zenon
  <2>. QED
    BY <2>2, Zenon DEF Range
<1>7. \A i, j \in 1 .. Len(s) - 1 : t[i] = t[j] => i = j
  <2>. SUFFICES ASSUME NEW i \in 1 .. Len(s) - 1, NEW j \in 1 .. Len(s) - 1, t[i] = t[j] PROVE i = j
    BY Zenon
  <2>1. s[i + 1] = s[j + 1]
    BY <1>1, Zenon
  <2>2. i + 1 = j + 1
    BY <1>2, <2>1, ListedDomain
  <2>. QED
    BY <2>2
<1>. QED
  BY <1>1, <1>4, <1>5, <1>6, <1>7, ListedDomain DEF Listed, IsInjective

LEMMA PushedFront ==
    ASSUME NEW s, Listed(s), NEW r \in Reqs, r \notin Range(s)
    PROVE  Listed(<<r>> \o s) /\ Range(<<r>> \o s) = Range(s) \cup {r}
<1>. DEFINE t == <<r>> \o s
<1>1. /\ t \in Seq(Reqs) /\ Len(s) \in Nat /\ Len(t) = Len(s) + 1 /\ DOMAIN t = 1 .. Len(s) + 1
      /\ t[1] = r /\ \A i \in 1 .. Len(s) : t[i + 1] = s[i]
  BY ListedDomain DEF Listed
<1>2. \A i \in 1 .. Len(s) + 1 : i = 1 \/ (i - 1 \in 1 .. Len(s) /\ t[i] = s[i - 1])
  <2>. SUFFICES ASSUME NEW i \in 1 .. Len(s) + 1, i # 1
                PROVE  i - 1 \in 1 .. Len(s) /\ t[i] = s[i - 1]
    BY Zenon
  <2>1. i - 1 \in 1 .. Len(s) /\ (i - 1) + 1 = i
    BY <1>1
  <2>. QED
    BY <1>1, <2>1, Zenon
<1>3. \A i \in 1 .. Len(s) : i + 1 \in DOMAIN t
  BY <1>1
<1>4. 1 \in DOMAIN t
  BY <1>1
<1>5. Range(t) = Range(s) \cup {r}
  <2>1. Range(t) \subseteq Range(s) \cup {r}
    BY <1>1, <1>2, ListedDomain DEF Range
  <2>2. r \in Range(t)
    BY <1>1, <1>4, Zenon DEF Range
  <2>3. ASSUME NEW q \in Range(s) PROVE q \in Range(t)
    <3>1. PICK i \in 1 .. Len(s) : s[i] = q
      BY ListedDomain, Zenon
    <3>2. i + 1 \in DOMAIN t /\ t[i + 1] = q
      BY <1>1, <1>3, <3>1, Zenon
    <3>. QED
      BY <3>2, Zenon DEF Range
  <2>. QED
    BY <2>1, <2>2, <2>3, Zenon
<1>6. \A i, j \in 1 .. Len(s) + 1 : t[i] = t[j] => i = j
  <2>. SUFFICES ASSUME NEW i \in 1 .. Len(s) + 1, NEW j \in 1 .. Len(s) + 1, t[i] = t[j] PROVE i = j
    OBVIOUS
  <2>1. CASE i = 1 \/ j = 1
    BY <1>1, <1>2, <2>1, ListedDomain
  <2>2. CASE i # 1 /\ j # 1
    <3>1. i - 1 = j - 1
      BY <1>2, <2>2, ListedDomain
    <3>. QED
      BY <3>1
  <2>. QED
    BY <2>1, <2>2
<1>. QED
  BY <1>1, <1>5, <1>6 DEF Listed, IsInjective

LEMMA Removed ==
    ASSUME NEW s, Listed(s), NEW i \in DOMAIN s
    PROVE  /\ s[i] \in Range(s) /\ Listed(RemoveAt(s, i))
           /\ Range(RemoveAt(s, i)) = Range(s) \ {s[i]}
<1>. DEFINE t == RemoveAt(s, i)
            a == SubSeq(s, 1, i - 1)
            b == SubSeq(s, i + 1, Len(s))
<1>1. Len(s) \in Nat /\ i \in 1 .. Len(s) /\ s \in Seq(Reqs) /\ DOMAIN s = 1 .. Len(s)
  BY ListedDomain DEF Listed
<1>2. a \in Seq(Reqs) /\ Len(a) = i - 1 /\ \A k \in 1 .. i - 1 : a[k] = s[k]
  BY <1>1
<1>3. b \in Seq(Reqs) /\ Len(b) = Len(s) - i /\ \A k \in 1 .. Len(s) - i : b[k] = s[i + k]
  BY <1>1
<1>. HIDE DEF a, b
<1>4. t = a \o b
  BY Zenon DEF RemoveAt, a, b
<1>. HIDE DEF t
<1>c. /\ a \o b \in Seq(Reqs) /\ Len(a \o b) = Len(a) + Len(b)
      /\ \A k \in 1 .. Len(a) + Len(b) : (a \o b)[k] = IF k <= Len(a) THEN a[k] ELSE b[k - Len(a)]
  BY <1>2, <1>3, ConcatProperties, Zenon
<1>5. t \in Seq(Reqs) /\ Len(t) = Len(s) - 1 /\ DOMAIN t = 1 .. Len(s) - 1
  <2>1. t \in Seq(Reqs) /\ Len(t) = Len(s) - 1
    BY <1>1, <1>2, <1>3, <1>4, <1>c
  <2>. QED
    BY <2>1, LenProperties, Zenon
<1>d. \A k \in 1 .. Len(s) - 1 : t[k] = IF k <= i - 1 THEN a[k] ELSE b[k - (i - 1)]
  <2>1. Len(a) + Len(b) = Len(s) - 1
    BY <1>1, <1>2, <1>3
  <2>2. \A k \in 1 .. Len(a) + Len(b) : t[k] = IF k <= Len(a) THEN a[k] ELSE b[k - Len(a)]
    BY <1>4, <1>c, Zenon
  <2>. QED
    BY <1>2, <2>1, <2>2, Zenon
<1>6. \A k \in 1 .. i - 1 : k \in DOMAIN t /\ t[k] = s[k]
  BY <1>1, <1>2, <1>5, <1>d
<1>7. \A k \in i .. Len(s) - 1 : k \in DOMAIN t /\ t[k] = s[k + 1]
  <2>. SUFFICES ASSUME NEW k \in i .. Len(s) - 1 PROVE k \in DOMAIN t /\ t[k] = s[k + 1]
    OBVIOUS
  <2>1. k - (i - 1) \in 1 .. Len(s) - i /\ i + (k - (i - 1)) = k + 1
    BY <1>1
  <2>2. b[k - (i - 1)] = s[k + 1]
    BY <1>3, <2>1, Zenon
  <2>3. t[k] = b[k - (i - 1)]
    BY <1>1, <1>d
  <2>. QED
    BY <1>1, <1>5, <2>2, <2>3
<1>. DEFINE from(k) == IF k < i THEN k ELSE k + 1
<1>8. \A k \in 1 .. Len(s) - 1 : from(k) \in 1 .. Len(s) /\ from(k) # i /\ t[k] = s[from(k)]
  BY <1>1, <1>6, <1>7
<1>9. \A k, m \in 1 .. Len(s) - 1 : from(k) = from(m) => k = m
  BY <1>1
<1>10. \A k \in 1 .. Len(s) : k = i \/ \E m \in 1 .. Len(s) - 1 : from(m) = k
  <2>. SUFFICES ASSUME NEW k \in 1 .. Len(s), k # i PROVE \E m \in 1 .. Len(s) - 1 : from(m) = k
    BY Zenon
  <2>1. CASE k < i
    BY <1>1, <2>1
  <2>2. CASE k > i
    <3>1. k - 1 \in 1 .. Len(s) - 1 /\ from(k - 1) = k
      BY <1>1, <2>2
    <3>. QED
      BY <3>1, Zenon
  <2>. QED
    BY <1>1, <2>1, <2>2
<1>. HIDE DEF from
<1>L. /\ \A k \in 1 .. Len(s) : s[k] \in Range(s)
      /\ \A r \in Range(s) : \E k \in 1 .. Len(s) : s[k] = r
      /\ \A k, m \in 1 .. Len(s) : s[k] = s[m] => k = m
  BY ListedDomain, Zenon
<1>11. ASSUME NEW r \in Range(t) PROVE r \in Range(s) /\ r # s[i]
  <2>1. PICK k \in 1 .. Len(s) - 1 : t[k] = r
    BY <1>5, Zenon DEF Range
  <2>. QED
    BY <1>1, <1>8, <1>L, <2>1
<1>12. ASSUME NEW r \in Range(s), r # s[i] PROVE r \in Range(t)
  <2>1. PICK k \in 1 .. Len(s) : s[k] = r
    BY <1>L, Zenon
  <2>2. PICK m \in 1 .. Len(s) - 1 : from(m) = k
    BY <1>10, <2>1, <1>12
  <2>3. m \in DOMAIN t /\ t[m] = r
    BY <1>5, <1>8, <2>1, <2>2
  <2>. QED
    BY <2>3 DEF Range
<1>13. ASSUME NEW k \in 1 .. Len(s) - 1, NEW m \in 1 .. Len(s) - 1, t[k] = t[m] PROVE k = m
  <2>1. from(k) = from(m)
    BY <1>8, <1>13, <1>L
  <2>. QED
    BY <1>9, <2>1
<1>14. Listed(t)
  BY <1>5, <1>13, Zenon DEF Listed, IsInjective
<1>15. s[i] \in Range(s)
  BY <1>1, ListedDomain
<1>. QED
  BY <1>11, <1>12, <1>14, <1>15, Zenon DEF t

-----------------------------------------------------------------------------
(* The pool.                                                               *)
LEMMA BlocksForCovers ==
    ASSUME NEW n \in Nat
    PROVE  BlocksFor(n) \in Nat /\ n <= BlocksFor(n) * BlockTokens
BY SchedulerConstants DEF BlocksFor

\* A holder grows by the blocks after the last it held.
LEMMA Grown ==
    ASSUME held \in [Reqs -> Nat], IsFiniteSet(BlocksOf(Reqs)), NEW r \in Reqs, NEW n \in Nat,
           n >= held[r], held' = [held EXCEPT ![r] = n]
    PROVE  /\ IsFiniteSet(BlocksOf(Reqs))'
           /\ Cardinality(BlocksOf(Reqs))' = Cardinality(BlocksOf(Reqs)) + (n - held[r])
<1>. DEFINE B == BlocksOf(Reqs)
            I == held[r] + 1 .. n
            G == {r} \X I
<1>1. BlocksOf(Reqs)' = B \cup G
  <2>1. held[r] \in Nat /\ held' \in [Reqs -> Nat]
    BY Zenon
  <2>2. \A q \in Reqs, k \in Nat \ {0} :
           k <= held'[q] <=> k <= held[q] \/ (q = r /\ k \in I)
    BY <2>1
  <2>3. \A p : p \in B <=> \E q \in Reqs, k \in Nat \ {0} : p = <<q, k>> /\ k <= held[q]
    BY DEF BlocksOf
  <2>4. \A p : p \in BlocksOf(Reqs)' <=> \E q \in Reqs, k \in Nat \ {0} : p = <<q, k>> /\ k <= held'[q]
    BY <2>1 DEF BlocksOf
  <2>5. \A p : p \in G <=> \E q \in Reqs, k \in Nat \ {0} : p = <<q, k>> /\ q = r /\ k \in I
    BY <2>1
  <2>. HIDE DEF B, G, I
  <2>6. \A p : p \in BlocksOf(Reqs)' <=> p \in B \/ p \in G
    BY <2>2, <2>3, <2>4, <2>5
  <2>. QED
    BY <2>6
<1>2. B \cap G = {}
  BY DEF BlocksOf
<1>3. IsFiniteSet(I) /\ Cardinality(I) = n - held[r]
  <2>1. held[r] + 1 \in Int /\ n \in Int /\ held[r] \in Int
    OBVIOUS
  <2>2. IsFiniteSet(I) /\ Cardinality(I) = IF held[r] + 1 > n THEN 0 ELSE n - (held[r] + 1) + 1
    BY <2>1, FS_Interval, Zenon
  <2>. QED
    BY <2>1, <2>2
<1>4. IsFiniteSet({r}) /\ Cardinality({r}) = 1
  BY FS_Singleton, Zenon
<1>. HIDE DEF I
<1>5. IsFiniteSet(G) /\ Cardinality(G) = 1 * Cardinality(I)
  BY <1>3, <1>4, FS_Product, ZenonT(30)
<1>6. 1 * Cardinality(I) = n - held[r]
  BY <1>3
<1>7. IsFiniteSet(B)
  BY Zenon
<1>. HIDE DEF B, G
<1>8. /\ IsFiniteSet(B \cup G)
      /\ Cardinality(B \cup G) = Cardinality(B) + Cardinality(G) - Cardinality(B \cap G)
  BY <1>5, <1>7, FS_Union, Zenon
<1>9. Cardinality(B) \in Nat /\ Cardinality({}) = 0
  BY <1>7, FS_CardinalityType, FS_EmptySet
<1>10. Cardinality(B \cup G) = Cardinality(B) + (n - held[r])
  <2>1. Cardinality(B \cap G) = 0
    BY <1>2, <1>9
  <2>2. Cardinality(G) = n - held[r] /\ n - held[r] \in Int
    BY <1>5, <1>6
  <2>. QED
    BY <1>8, <1>9, <2>1, <2>2
<1>. QED
  BY <1>1, <1>8, <1>10 DEF B

\* A holder lets go of all it held.
LEMMA Shrunk ==
    ASSUME held \in [Reqs -> Nat], IsFiniteSet(BlocksOf(Reqs)), NEW r \in Reqs,
           held' = [held EXCEPT ![r] = 0]
    PROVE  /\ IsFiniteSet(BlocksOf(Reqs))'
           /\ Cardinality(BlocksOf(Reqs))' = Cardinality(BlocksOf(Reqs)) - held[r]
           /\ held[r] <= Cardinality(BlocksOf(Reqs))
<1>. DEFINE B == BlocksOf(Reqs)
            I == 1 .. held[r]
            G == {r} \X I
<1>0. held[r] \in Nat /\ held' \in [Reqs -> Nat]
  OBVIOUS
<1>1. BlocksOf(Reqs)' = B \ G
  <2>2. \A q \in Reqs, k \in Nat \ {0} :
           k <= held'[q] <=> k <= held[q] /\ ~(q = r /\ k \in I)
    BY <1>0
  <2>3. \A p : p \in B <=> \E q \in Reqs, k \in Nat \ {0} : p = <<q, k>> /\ k <= held[q]
    BY DEF BlocksOf
  <2>4. \A p : p \in BlocksOf(Reqs)' <=> \E q \in Reqs, k \in Nat \ {0} : p = <<q, k>> /\ k <= held'[q]
    BY <1>0 DEF BlocksOf
  <2>5. \A q, k : <<q, k>> \in G <=> q = r /\ k \in I
    BY Zenon
  <2>. HIDE DEF B, G, I
  <2>6. \A p : p \in BlocksOf(Reqs)' <=> p \in B /\ p \notin G
    BY <2>2, <2>3, <2>4, <2>5
  <2>. QED
    BY <2>6
<1>2. G \subseteq B
  BY DEF BlocksOf
<1>3. IsFiniteSet(I) /\ Cardinality(I) = held[r]
  BY <1>0, FS_Interval
<1>4. IsFiniteSet({r}) /\ Cardinality({r}) = 1
  BY FS_Singleton, Zenon
<1>. HIDE DEF I
<1>5. IsFiniteSet(G) /\ Cardinality(G) = 1 * Cardinality(I)
  BY <1>3, <1>4, FS_Product
<1>6. 1 * Cardinality(I) = held[r]
  BY <1>0, <1>3
<1>7. IsFiniteSet(B)
  OBVIOUS
<1>. HIDE DEF B, G
<1>8. B \cap G = G
  BY <1>2
<1>9. IsFiniteSet(B \ G) /\ Cardinality(B \ G) = Cardinality(B) - Cardinality(G)
  BY <1>7, <1>8, FS_Difference, ZenonT(30)
<1>10. Cardinality(G) <= Cardinality(B)
  BY <1>2, <1>7, FS_Subset
<1>. QED
  BY <1>1, <1>5, <1>6, <1>9, <1>10 DEF B

LEMMA Monotone ==
    ASSUME NEW a \in Nat, NEW b \in Nat, NEW d \in Nat, a <= b
    PROVE  a * d <= b * d
<1>1. PICK k \in Nat : b = a + k
  <2>1. b - a \in Nat /\ b = a + (b - a)
    OBVIOUS
  <2>. QED
    BY <2>1, Zenon
<1>2. b * d = a * d + k * d
  BY <1>1
<1>3. k * d \in Nat /\ a * d \in Nat
  OBVIOUS
<1>. QED
  BY <1>2, <1>3

LEMMA Reserved ==
    ASSUME held \in [Reqs -> Nat], used \in Nat, Counted, NEW r \in Reqs, NEW n \in Nat,
           CanReserve(r, n), Reserve(r, n)
    PROVE  /\ Counted' /\ used' \in Nat /\ held' \in [Reqs -> Nat]
           /\ held[r] * BlockTokens <= held'[r] * BlockTokens /\ n <= held'[r] * BlockTokens
           /\ \A q \in Reqs \ {r} : held'[q] = held[q]
<1>. DEFINE want == BlocksFor(n)
<1>1. want \in Nat /\ n <= want * BlockTokens
  BY BlocksForCovers
<1>2. held[r] \in Nat /\ BlockTokens \in Nat /\ TotalBlocks \in Nat
  BY SchedulerConstants
<1>. HIDE DEF want
<1>3. CASE want <= held[r]
  <2>1. held' = held /\ used' = used
    BY <1>3 DEF Reserve, want
  <2>2. Counted'
    BY <2>1 DEF Counted, BlocksOf
  <2>3. want * BlockTokens <= held[r] * BlockTokens
    BY <1>1, <1>2, <1>3, Monotone, Zenon
  <2>4. want * BlockTokens \in Nat /\ held[r] * BlockTokens \in Nat
    BY <1>1, <1>2
  <2>. QED
    BY <1>1, <2>1, <2>2, <2>3, <2>4
<1>4. CASE ~(want <= held[r])
  <2>1. /\ held' = [held EXCEPT ![r] = want] /\ used' = used + (want - held[r])
        /\ want - held[r] <= TotalBlocks - used
    BY <1>4 DEF Reserve, CanReserve, want
  <2>2. want >= held[r]
    BY <1>1, <1>2, <1>4
  <2>3. /\ IsFiniteSet(BlocksOf(Reqs))'
        /\ Cardinality(BlocksOf(Reqs))' = Cardinality(BlocksOf(Reqs)) + (want - held[r])
    BY <1>1, <2>1, <2>2, Grown, Zenon DEF Counted
  <2>4. used' \in Nat /\ used' <= TotalBlocks
    BY <1>1, <1>2, <2>1, <2>2
  <2>5. Counted'
    BY <2>1, <2>3, <2>4 DEF Counted
  <2>6. held[r] * BlockTokens <= want * BlockTokens
    BY <1>1, <1>2, <2>2, Monotone
  <2>7. held'[r] = want /\ held' \in [Reqs -> Nat] /\ \A q \in Reqs \ {r} : held'[q] = held[q]
    BY <1>1, <2>1
  <2>. QED
    BY <1>1, <2>4, <2>5, <2>6, <2>7
<1>. QED
  BY <1>3, <1>4, Zenon

LEMMA Released ==
    ASSUME held \in [Reqs -> Nat], used \in Nat, Counted, NEW r \in Reqs, Release(r)
    PROVE  /\ Counted' /\ used' \in Nat /\ held' \in [Reqs -> Nat]
           /\ held'[r] = 0 /\ \A q \in Reqs \ {r} : held'[q] = held[q]
<1>1. /\ IsFiniteSet(BlocksOf(Reqs))'
      /\ Cardinality(BlocksOf(Reqs))' = used - held[r] /\ held[r] <= used
  BY Shrunk, Zenon DEF Release, Counted
<1>2. held[r] \in Nat /\ TotalBlocks \in Nat /\ used' = used - held[r] /\ used <= TotalBlocks
  BY SchedulerConstants DEF Release, Counted
<1>3. used' \in Nat /\ used' <= TotalBlocks
  BY <1>1, <1>2
<1>4. Counted'
  BY <1>1, <1>2, <1>3 DEF Counted
<1>. QED
  BY <1>3, <1>4 DEF Release

LEMMA MinPair ==
    ASSUME NEW a \in Int, NEW b \in Int
    PROVE  Min({a, b}) = IF a <= b THEN a ELSE b
<1>. DEFINE m == IF a <= b THEN a ELSE b
<1>1. m \in {a, b} /\ \A y \in {a, b} : m <= y
  OBVIOUS
<1>2. \A x \in {a, b} : (\A y \in {a, b} : x <= y) => x = m
  OBVIOUS
<1>. QED
  BY <1>1, <1>2 DEF Min

-----------------------------------------------------------------------------
(* The steps, one lemma per action.                                        *)
\* Nothing that Holdings says of q depends on what the step changed.
SameFor(q) ==
    /\ kv'[q] = kv[q] /\ done'[q] = done[q] /\ generated'[q] = generated[q]
    /\ held'[q] = held[q] /\ phase'[q] = phase[q] /\ fate'[q] = fate[q]

LEMMA Untouched ==
    ASSUME NEW q, SameFor(q), q \in Range(waiting)' => q \in Range(waiting)
    PROVE  /\ AtRest(q) => AtRest(q)'
           /\ /\ InContract(q) /\ Ahead(q)' = Ahead(q)
              /\ Roomy(q)' => Roomy(q) \/ phase[q] = "prefill"
              => InContract(q)'
BY DEF AtRest, InContract, SameFor

LEMMA SubmitStep ==
    ASSUME SchedInv, NEW r \in Reqs, Submit(r)
    PROVE  SchedInv'
<1>1. /\ r \notin Range(inbox) /\ r \notin Range(waiting) /\ r \notin Range(running)
  BY DEF SchedInv, Placed, Submit
<1>2. Listed(inbox') /\ Range(inbox') = Range(inbox) \cup {r}
  BY <1>1, Pushed, Zenon DEF SchedInv, Placed, Submit
<1>3. /\ waiting' = waiting /\ running' = running /\ fate' = [fate EXCEPT ![r] = "open"]
      /\ fate \in [Reqs -> Fates] /\ fate[r] = "unsent"
  BY DEF SchedInv, Shapes, Submit
<1>4. Placed'
  BY <1>1, <1>2, <1>3 DEF SchedInv, Placed
<1>5. Shapes'
  BY <1>3 DEF SchedInv, Shapes, Submit, Fates
<1>6. Counted'
  BY DEF SchedInv, Counted, BlocksOf, Submit
<1>7. Holdings'
  BY <1>1, <1>3 DEF SchedInv, Holdings, AtRest, InContract, Ahead, Roomy, Submit
<1>. QED
  BY <1>4, <1>5, <1>6, <1>7, Zenon DEF SchedInv

LEMMA EnqueueStep ==
    ASSUME SchedInv, Enqueue
    PROVE  SchedInv'
<1>0. PICK r : r = Head(inbox)
  OBVIOUS
<1>1. r \in Range(inbox) /\ Listed(inbox') /\ Range(inbox') = Range(inbox) \ {r}
  BY <1>0, Popped, Zenon DEF SchedInv, Placed, Enqueue
<1>2. r \in Reqs /\ r \notin Range(waiting) /\ r \notin Range(running) /\ fate[r] = "open"
  BY <1>1, ListedDomain DEF SchedInv, Placed
<1>3. Counted'
  BY DEF SchedInv, Counted, BlocksOf, Enqueue
<1>4. PromptLen[r] \in Nat /\ running' = running
  BY <1>2, SchedulerConstants, Zenon DEF Enqueue
<1>5. CASE fate' = [fate EXCEPT ![r] = "error"] /\ waiting' = waiting
  <2>1. Placed'
    BY <1>1, <1>2, <1>4, <1>5 DEF SchedInv, Shapes, Placed
  <2>2. Shapes'
    <3>1. UNCHANGED <<at, todo, phase, done, generated, kv, held, used>>
      BY DEF Enqueue
    <3>2. fate' \in [Reqs -> Fates]
      BY <1>2, <1>5, Zenon DEF SchedInv, Shapes, Fates
    <3>. QED
      BY <3>1, <3>2 DEF SchedInv, Shapes
  <2>3. Holdings'
    BY <1>2, <1>5 DEF SchedInv, Shapes, Holdings, AtRest, InContract, Ahead, Roomy, Enqueue
  <2>. QED
    BY <1>3, <2>1, <2>2, <2>3 DEF SchedInv
<1>6. CASE waiting' = Append(waiting, r) /\ fate' = fate /\ PromptLen[r] # 0
  <2>0. Listed(waiting') /\ Range(waiting') = Range(waiting) \cup {r}
    BY <1>2, <1>6, Pushed DEF SchedInv, Placed
  <2>1. Placed'
    BY <1>1, <1>2, <1>4, <1>6, <2>0 DEF SchedInv, Shapes, Placed
  <2>2. Shapes'
    BY <1>6 DEF SchedInv, Shapes, Enqueue
  <2>3. Holdings'
    BY <1>2, <1>4, <1>6, <2>0 DEF SchedInv, Shapes, Holdings, AtRest, InContract, Ahead, Roomy, Enqueue
  <2>. QED
    BY <1>3, <2>1, <2>2, <2>3, Zenon DEF SchedInv
<1>. QED
  BY <1>0, <1>5, <1>6, Zenon DEF Enqueue

\* The steps that only move the engine on.
LEMMA MovedOn ==
    ASSUME SchedInv, UNCHANGED <<inbox, engine>>, at' \in Stages, todo' \in SUBSET Reqs,
           \A q \in Range(running) : Ahead(q)' = Ahead(q) /\ (Roomy(q)' => Roomy(q) \/ phase[q] = "prefill")
    PROVE  SchedInv'
<1>1. Shapes' /\ Placed' /\ Counted'
  BY DEF SchedInv, Shapes, Placed, Counted, BlocksOf, engine
<1>2. \A q \in Reqs : AtRest(q) => AtRest(q)'
  BY Zenon DEF AtRest, engine
<1>3. ASSUME NEW q \in Range(running), InContract(q) PROVE InContract(q)'
  <2>1. q \in Reqs /\ phase[q] \in {"prefill", "decode"}
    BY ListedDomain DEF SchedInv, Placed, Shapes
  <2>. QED
    BY <1>3, <2>1 DEF InContract, engine
<1>4. Holdings'
  BY <1>2, <1>3 DEF SchedInv, Holdings, engine
<1>. QED
  BY <1>1, <1>4 DEF SchedInv

LEMMA DrainedStep ==
    ASSUME SchedInv, Drained
    PROVE  SchedInv'
BY MovedOn DEF SchedInv, Shapes, Drained, Stages, Ahead, Roomy

LEMMA DisconnectStep ==
    ASSUME SchedInv, NEW r \in Reqs, Disconnect(r)
    PROVE  SchedInv'
BY MovedOn DEF SchedInv, Shapes, Disconnect, Ahead, Roomy

LEMMA AdmitDoneStep ==
    ASSUME SchedInv, AdmitDone
    PROVE  SchedInv'
BY MovedOn DEF SchedInv, Shapes, AdmitDone, Stages, Ahead, Roomy

LEMMA RoomDoneStep ==
    ASSUME SchedInv, RoomDone
    PROVE  SchedInv'
<1>1. /\ at = "room" /\ at' = "decode" /\ todo' = {} /\ UNCHANGED <<inbox, engine>>
      /\ todo \cap Range(running) = {}
  BY DEF RoomDone
<1>2. \A q \in Range(running) : Ahead(q)' = Ahead(q) /\ Roomy(q)
  BY <1>1 DEF Ahead, Roomy
<1>. QED
  BY <1>1, <1>2, MovedOn DEF Stages

LEMMA AdmitStep ==
    ASSUME SchedInv, Admit
    PROVE  SchedInv'
<1>0. PICK r : r = Head(waiting)
  BY Zenon
<1>. DEFINE n == PromptLen[r] + 1
<1>1. r \in Range(waiting) /\ Listed(waiting') /\ Range(waiting') = Range(waiting) \ {r}
  BY <1>0, Popped DEF SchedInv, Placed, Admit, MayAdmit
<1>2. r \in Reqs /\ r \notin Range(inbox) /\ r \notin Range(running) /\ fate[r] = "open"
  BY <1>1, ListedDomain DEF SchedInv, Placed
<1>3. Listed(running') /\ Range(running') = Range(running) \cup {r}
  BY <1>0, <1>2, Pushed DEF SchedInv, Placed, Admit
<1>4. n \in Nat /\ PromptLen[r] \in Nat
  BY <1>2, SchedulerConstants
<1>5. CanReserve(r, n) /\ Reserve(r, n)
  BY <1>0, Zenon DEF Admit, MayAdmit
<1>6. /\ at = "admit" /\ UNCHANGED <<at, inbox, todo, phase, done, generated, kv, fate>>
  BY DEF Admit
<1>7. held \in [Reqs -> Nat] /\ used \in Nat /\ Counted
  BY Zenon DEF SchedInv, Shapes
<1>. HIDE DEF n
<1>8. /\ Counted' /\ used' \in Nat /\ held' \in [Reqs -> Nat] /\ n <= held'[r] * BlockTokens
      /\ \A q \in Reqs \ {r} : held'[q] = held[q]
  BY <1>2, <1>4, <1>5, <1>7, Reserved
<1>9. Placed'
  BY <1>1, <1>2, <1>3, <1>6 DEF SchedInv, Placed
<1>10. Shapes'
  BY <1>6, <1>8 DEF SchedInv, Shapes
<1>11. InContract(r)'
  <2>1. AtRest(r)
    BY <1>2 DEF SchedInv, Holdings
  <2>2. phase'[r] = "prefill" /\ kv'[r] = 0 /\ done'[r] = 0 /\ PromptLen[r] > 0
    BY <1>1, <1>2, <1>6, <2>1, Zenon DEF AtRest
  <2>3. PromptLen[r] + 1 <= held'[r] * BlockTokens
    BY <1>8 DEF n
  <2>4. held'[r] * BlockTokens \in Nat
    BY <1>2, <1>8, SchedulerConstants
  <2>. QED
    BY <1>4, <2>2, <2>3, <2>4 DEF InContract
<1>12. Holdings'
  <2>1. ASSUME NEW q \in Reqs \ {r} PROVE SameFor(q) /\ Ahead(q)' = Ahead(q) /\ ~Roomy(q)'
    BY <1>6, <1>8 DEF SameFor, Ahead, Roomy
  <2>2. ASSUME NEW q \in Reqs \ Range(running)' PROVE AtRest(q)'
    BY <1>1, <1>3, <2>1, Untouched DEF SchedInv, Holdings
  <2>3. ASSUME NEW q \in Range(running)' PROVE InContract(q)'
    <3>1. q \in Reqs /\ (q = r \/ q \in Range(running))
      BY <1>2, <1>3, <2>3, ListedDomain
    <3>2. CASE q = r
      BY <1>11, <3>2
    <3>3. CASE q # r
      <4>1. q \in Range(running) /\ InContract(q)
        BY <3>1, <3>3 DEF SchedInv, Holdings
      <4>2. SameFor(q) /\ Ahead(q)' = Ahead(q) /\ ~Roomy(q)'
        BY <2>1, <3>1, <3>3
      <4>. QED
        BY <1>1, <4>1, <4>2, Untouched
    <3>. QED
      BY <3>2, <3>3
  <2>. QED
    BY <2>2, <2>3 DEF Holdings
<1>. QED
  BY <1>8, <1>9, <1>10, <1>12 DEF SchedInv

\* What finish, push_token and a failed runtime leave: the sequence still runs,
\* one token longer, or it is gone and answered.
Outcome(r, newKv) ==
    /\ Placed' /\ Counted' /\ used' \in Nat
    /\ held' \in [Reqs -> Nat] /\ kv' \in [Reqs -> Nat] /\ generated' \in [Reqs -> Nat]
    /\ fate' \in [Reqs -> Fates]
    /\ Range(running)' \subseteq Range(running) /\ Range(running) \subseteq Range(running)' \cup {r}
    /\ r \in Range(running)' =>
          held'[r] = held[r] /\ kv'[r] = newKv[r] /\ generated'[r] = generated[r] + 1
    /\ r \notin Range(running)' =>
          held'[r] = 0 /\ kv'[r] = 0 /\ fate'[r] \notin {"unsent", "open"}
    /\ \A q \in Reqs \ {r} : /\ held'[q] = held[q] /\ kv'[q] = kv[q]
                            /\ generated'[q] = generated[q] /\ fate'[q] = fate[q]

LEMMA Finished ==
    ASSUME SchedInv, NEW i \in DOMAIN running, NEW r, r = running[i],
           NEW last \in Fates \ {"unsent", "open"}, NEW newKv,
           Finish(i, last), inbox' = inbox, waiting' = waiting,
           kv' \in [Reqs -> Nat], kv'[r] = 0, generated' \in [Reqs -> Nat],
           \A q \in Reqs \ {r} : kv'[q] = kv[q] /\ generated'[q] = generated[q]
    PROVE  Outcome(r, newKv)
<1>1. r \in Range(running) /\ Listed(running') /\ Range(running') = Range(running) \ {r}
  BY Removed DEF SchedInv, Placed, Finish
<1>2. r \in Reqs /\ r \notin Range(inbox) /\ r \notin Range(waiting)
  BY <1>1, ListedDomain DEF SchedInv, Placed
<1>3. /\ Release(r) /\ fate' = [fate EXCEPT ![r] = last] /\ fate \in [Reqs -> Fates]
      /\ held \in [Reqs -> Nat] /\ used \in Nat
  BY DEF Finish, SchedInv, Shapes
<1>5. /\ Counted' /\ used' \in Nat /\ held' \in [Reqs -> Nat]
      /\ held'[r] = 0 /\ \A q \in Reqs \ {r} : held'[q] = held[q]
  BY <1>2, <1>3, Released DEF SchedInv
<1>6. fate' \in [Reqs -> Fates] /\ fate'[r] = last /\ \A q \in Reqs \ {r} : fate'[q] = fate[q]
  BY <1>2, <1>3
<1>7. Placed'
  <2>1. Placed /\ inbox' = inbox /\ waiting' = waiting
    BY DEF SchedInv
  <2>2. ASSUME NEW q \in Reqs
        PROVE  fate'[q] = "open" <=>
                 q \in Range(inbox') \cup Range(waiting') \cup Range(running')
    <3>1. CASE q = r
      BY <1>1, <1>2, <1>6, <2>1, <3>1
    <3>2. CASE q # r
      BY <1>1, <1>6, <2>1, <3>2 DEF Placed
    <3>. QED
      BY <3>1, <3>2, Zenon
  <2>3. /\ Listed(inbox') /\ Listed(waiting') /\ Listed(running')
        /\ Range(inbox') \cap Range(waiting') = {}
        /\ Range(inbox') \cap Range(running') = {}
        /\ Range(waiting') \cap Range(running') = {}
    BY <1>1, <2>1 DEF Placed
  <2>. QED
    BY <2>2, <2>3 DEF Placed
<1>. QED
  BY <1>1, <1>5, <1>6, <1>7 DEF Outcome

LEMMA FateKinds ==
    ASSUME NEW r, NEW s \in {"eos", "stop", "text", "unsendable", "garbled"}
    PROVE  /\ FateAfter(r, s) \in Fates \ {"unsent"}
           /\ FateAfter(r, s) = "open" => TokensAfter(r, s) = generated[r] + 1
BY Zenon DEF FateAfter, TokensAfter, Fates

LEMMA Sampled ==
    ASSUME NEW r, NEW s \in Samples(r)
    PROVE  s \in {"eos", "stop", "text", "unsendable", "garbled"}
BY DEF Samples

LEMMA TokenPushed ==
    ASSUME SchedInv, NEW i \in DOMAIN running, NEW r, r = running[i],
           NEW s \in Samples(r), NEW newKv \in [Reqs -> Nat],
           \A q \in Reqs \ {r} : newKv[q] = kv[q],
           PushToken(i, s, newKv), UNCHANGED <<inbox, waiting>>
    PROVE  Outcome(r, newKv)
<1>. DEFINE last == FateAfter(r, s)
<1>1. last \in Fates \ {"unsent"} /\ (last = "open" => TokensAfter(r, s) = generated[r] + 1)
  BY FateKinds, Sampled
<1>2. r \in Range(running) /\ r \in Reqs
  BY Member, Zenon
<1>3. generated \in [Reqs -> Nat] /\ generated' = [generated EXCEPT ![r] = TokensAfter(r, s)]
  BY DEF SchedInv, Shapes, PushToken
<1>4. TokensAfter(r, s) \in Nat
  BY <1>2, <1>3 DEF TokensAfter
<1>5. /\ generated' \in [Reqs -> Nat] /\ generated'[r] = TokensAfter(r, s)
      /\ \A q \in Reqs \ {r} : generated'[q] = generated[q]
  BY <1>2, <1>3, <1>4
<1>6. CASE last = "open"
  <2>1. kv' = newKv /\ UNCHANGED <<running, held, used, fate>>
    BY <1>6 DEF PushToken
  <2>2. Placed' /\ Counted'
    BY <2>1 DEF SchedInv, Placed, Counted, BlocksOf
  <2>. QED
    BY <1>1, <1>2, <1>5, <1>6, <2>1, <2>2 DEF Outcome, SchedInv, Shapes
<1>7. CASE last # "open"
  <2>1. kv' = [kv EXCEPT ![r] = 0] /\ Finish(i, last)
    BY <1>7 DEF PushToken
  <2>2. last \in Fates \ {"unsent", "open"}
    BY <1>1, <1>7, Zenon
  <2>3. kv' \in [Reqs -> Nat] /\ kv'[r] = 0 /\ \A q \in Reqs \ {r} : kv'[q] = kv[q]
    BY <1>2, <2>1 DEF SchedInv, Shapes
  <2>4. inbox' = inbox /\ waiting' = waiting
    OBVIOUS
  <2>. HIDE DEF last
  <2>. QED
    BY <1>5, <2>1, <2>2, <2>3, <2>4, Finished
<1>. QED
  BY <1>6, <1>7

LEMMA Failed ==
    ASSUME SchedInv, NEW i \in DOMAIN running, NEW r, r = running[i],
           NEW newKv, Fail(i), UNCHANGED <<inbox, waiting>>
    PROVE  Outcome(r, newKv)
<1>1. Finish(i, "error") /\ kv' = [kv EXCEPT ![r] = 0] /\ generated' = generated
  BY DEF Fail
<1>0. r \in Reqs
  BY Member
<1>2. /\ generated' \in [Reqs -> Nat] /\ kv' \in [Reqs -> Nat] /\ kv'[r] = 0
      /\ \A q \in Reqs \ {r} : kv'[q] = kv[q] /\ generated'[q] = generated[q]
  BY <1>0, <1>1 DEF SchedInv, Shapes
<1>3. PICK last \in Fates \ {"unsent", "open"} : last = "error"
  BY Zenon DEF Fates
<1>4. Finish(i, last)
  BY <1>1, <1>3
<1>5. inbox' = inbox /\ waiting' = waiting
  BY Zenon
<1>. QED
  BY <1>2, <1>4, <1>5, Finished, Zenon

\* A step that serves r and leaves every other sequence as it was.
LEMMA ServedOne ==
    ASSUME SchedInv, NEW r \in Reqs, Placed', Counted', Shapes', Range(waiting)' \subseteq Range(waiting) \cup {r},
           Range(running)' \subseteq Range(running) \cup {r}, Range(running) \subseteq Range(running)' \cup {r},
           r \in Range(running)' => InContract(r)', r \notin Range(running)' => AtRest(r)',
           \A q \in Reqs \ {r} : SameFor(q),
           \A q \in Range(running) \ {r} :
              Ahead(q)' = Ahead(q) /\ (Roomy(q)' => Roomy(q) \/ phase[q] = "prefill")
    PROVE  SchedInv'
<1>1. ASSUME NEW q \in Reqs \ Range(running)' PROVE AtRest(q)'
  BY <1>1, Untouched, Zenon DEF SchedInv, Holdings
<1>2. ASSUME NEW q \in Range(running)' PROVE InContract(q)'
  <2>1. q \in Reqs
    BY <1>2, ListedDomain, ZenonT(30) DEF SchedInv, Placed
  <2>2. CASE q # r
    <3>1. q \in Range(running) /\ InContract(q)
      BY <1>2, <2>2 DEF SchedInv, Holdings
    <3>. QED
      BY <2>1, <2>2, <3>1, Untouched
  <2>. QED
    BY <2>2
<1>3. Holdings'
  BY <1>1, <1>2, ZenonT(30) DEF Holdings
<1>. QED
  BY <1>3 DEF SchedInv

LEMMA PrefillChunkStep ==
    ASSUME SchedInv, PrefillOneChunk, NEW i \in DOMAIN running, PrefillChunk(i)
    PROVE  SchedInv'
<1>0. PICK r : r = running[i]
  OBVIOUS
<1>t. PICK take : take = Min({PromptLen[r] - done[r], ChunkLen})
  OBVIOUS
<1>k. PICK newKv : newKv = [kv EXCEPT ![r] = done[r] + take]
  BY Zenon
<1>1. r \in Range(running) /\ r \in Reqs
  BY <1>0, Member
<1>2. phase[r] = "prefill"
  BY <1>0, ZenonT(30) DEF PrefillChunk, First, InPhase
<1>3. InContract(r)
  BY <1>1, Zenon DEF SchedInv, Holdings
<1>4. /\ kv \in [Reqs -> Nat] /\ done \in [Reqs -> Nat] /\ generated \in [Reqs -> Nat]
      /\ phase \in [Reqs -> {"prefill", "decode"}] /\ held \in [Reqs -> Nat]
  BY DEF SchedInv, Shapes
<1>5. /\ PromptLen[r] \in Nat /\ done[r] \in Nat /\ kv[r] = done[r] /\ done[r] < PromptLen[r]
      /\ PromptLen[r] + 1 <= held[r] * BlockTokens /\ PromptLen[r] > 0
      /\ ChunkLen \in Nat \ {0} /\ held[r] * BlockTokens \in Nat
  BY <1>1, <1>2, <1>3, <1>4, SchedulerConstants DEF InContract
<1>6. take = IF PromptLen[r] - done[r] <= ChunkLen THEN PromptLen[r] - done[r] ELSE ChunkLen
  <2>1. PromptLen[r] - done[r] \in Int /\ ChunkLen \in Int
    BY <1>5
  <2>. QED
    BY <1>t, <2>1, MinPair
<1>7. take \in Nat /\ done[r] + take <= PromptLen[r] /\ done[r] + take \in Nat
  BY <1>5, <1>6
<1>8. /\ newKv \in [Reqs -> Nat] /\ newKv[r] = done[r] + take
      /\ \A q \in Reqs \ {r} : newKv[q] = kv[q]
  BY <1>1, <1>4, <1>7, <1>k, Zenon
<1>9. /\ at = "prefill" /\ at' = "room" /\ inbox' = inbox
      /\ todo' = {q \in Range(running') : phase'[q] = "decode"}
  BY DEF PrefillOneChunk, InPhase
<1>10. \A q \in Reqs : Ahead(q) = 0 /\ Ahead(q)' = 0
  BY <1>9, Zenon DEF Ahead
<1>11. \A q \in Range(running') : Roomy(q)' => phase'[q] # "decode"
  BY <1>9 DEF Roomy
<1>12. CASE /\ take # PromptLen[r] - done[r]
            /\ done' = [done EXCEPT ![r] = @ + take] /\ kv' = newKv
            /\ UNCHANGED <<waiting, running, phase, generated, held, used, fate>>
  <2>1. /\ done' \in [Reqs -> Nat] /\ done'[r] = done[r] + take /\ kv' \in [Reqs -> Nat]
        /\ \A q \in Reqs \ {r} : done'[q] = done[q]
    BY <1>1, <1>4, <1>7, <1>8, <1>12
  <2>2. \A q \in Reqs \ {r} : SameFor(q)
    BY <1>8, <1>12, <2>1, ZenonT(30) DEF SameFor
  <2>3. Placed' /\ Counted'
    BY <1>9, <1>12 DEF SchedInv, Placed, Counted, BlocksOf
  <2>4. todo' \in SUBSET Reqs
    BY <1>9, <1>12, ListedDomain, ZenonT(30) DEF SchedInv, Placed
  <2>5. Shapes'
    BY <1>9, <1>12, <2>1, <2>4 DEF SchedInv, Shapes, Stages
  <2>6. InContract(r)'
    <3>1. kv' = newKv /\ phase' = phase /\ held' = held
      BY <1>12
    <3>2. kv'[r] = done'[r] /\ phase'[r] = "prefill" /\ held'[r] = held[r]
      BY <1>2, <1>8, <2>1, <3>1, Zenon
    <3>a. take # PromptLen[r] - done[r] /\ done'[r] = done[r] + take
      BY <1>12, <2>1, Zenon
    <3>3. done'[r] < PromptLen[r]
      BY <1>5, <1>7, <3>a
    <3>4. PICK space \in Nat : space = held[r] * BlockTokens
      BY <1>5
    <3>5. done'[r] <= space /\ PromptLen[r] + 1 <= space
      BY <1>5, <1>7, <3>4, <3>a
    <3>6. space = held'[r] * BlockTokens
      BY <3>2, <3>4, Zenon
    <3>. QED
      BY <1>5, <3>2, <3>3, <3>5, <3>6, Zenon DEF InContract
  <2>7. \A q \in Range(running) \ {r} :
           Ahead(q)' = Ahead(q) /\ (Roomy(q)' => Roomy(q) \/ phase[q] = "prefill")
    <3>1. Range(running) \subseteq Reqs /\ running' = running /\ phase' = phase
      BY <1>12, ListedDomain, ZenonT(30) DEF SchedInv, Placed
    <3>. QED
      BY <1>4, <1>10, <1>11, <3>1
  <2>. QED
    BY <1>1, <1>12, <2>2, <2>3, <2>5, <2>6, <2>7, ServedOne, ZenonT(30)
<1>13. ASSUME Outcome(r, newKv), waiting' = waiting, done' = done,
              \/ take = PromptLen[r] - done[r] /\ phase' = [phase EXCEPT ![r] = "decode"]
              \/ r \notin Range(running)' /\ phase' = phase
       PROVE  SchedInv'
  <2>1. /\ phase' \in [Reqs -> {"prefill", "decode"}]
        /\ \A q \in Reqs \ {r} : phase'[q] = phase[q]
    BY <1>1, <1>4, <1>13
  <2>2. \A q \in Reqs \ {r} : SameFor(q)
    BY <1>13, <2>1, ZenonT(30) DEF Outcome, SameFor
  <2>3. Placed' /\ Counted'
    BY <1>13, Zenon DEF Outcome
  <2>4. todo' \in SUBSET Reqs
    BY <1>9, <2>3, ListedDomain, ZenonT(30) DEF Placed
  <2>5. Shapes'
    BY <1>9, <1>13, <2>1, <2>4, ZenonT(30) DEF Outcome, SchedInv, Shapes, Stages
  <2>6. ASSUME r \in Range(running)' PROVE InContract(r)'
    <3>0. take = PromptLen[r] - done[r] /\ phase' = [phase EXCEPT ![r] = "decode"]
      BY <1>13, <2>6
    <3>a. kv'[r] = done[r] + take
      BY <1>8, <1>13, <2>6, Zenon DEF Outcome
    <3>b. phase'[r] = "decode"
      BY <1>1, <1>4, <3>0, Zenon
    <3>c. done[r] + (PromptLen[r] - done[r]) = PromptLen[r]
      BY <1>5
    <3>1. phase'[r] = "decode" /\ kv'[r] = PromptLen[r]
      BY <3>0, <3>a, <3>b, <3>c, Zenon
    <3>2. held'[r] = held[r] /\ generated'[r] \in Nat /\ ~Roomy(r)'
      BY <1>1, <1>11, <1>13, <2>6, <3>1, ZenonT(30) DEF Outcome
    <3>3. PICK space \in Nat : space = held[r] * BlockTokens
      BY <1>5, Zenon
    <3>4. /\ PromptLen[r] <= PromptLen[r] + generated'[r] + 0 /\ PromptLen[r] <= space
          /\ PromptLen[r] + 1 <= space
      <4>1. PICK g \in Nat : g = generated'[r]
        BY <3>2
      <4>2. PromptLen[r] \in Nat /\ PromptLen[r] + 1 <= space
        BY <1>5, <3>3, Zenon
      <4>3. PromptLen[r] <= PromptLen[r] + g + 0 /\ PromptLen[r] <= space
        BY <4>1, <4>2
      <4>. QED
        BY <4>1, <4>2, <4>3, Zenon
    <3>5. space = held'[r] * BlockTokens /\ Ahead(r)' = 0
      BY <1>1, <1>10, <3>2, <3>3, ZenonT(30)
    <3>6. /\ PromptLen[r] > 0 /\ phase'[r] # "prefill" /\ PromptLen[r] <= kv'[r]
          /\ kv'[r] <= PromptLen[r] + generated'[r] + Ahead(r)'
          /\ kv'[r] <= held'[r] * BlockTokens /\ PromptLen[r] + 1 <= held'[r] * BlockTokens
      <4>1. PICK g, a, h : g = generated'[r] /\ a = Ahead(r)' /\ h = held'[r] * BlockTokens
        OBVIOUS
      <4>2. g \in Nat /\ a = 0 /\ h = space
        BY <3>2, <3>5, <4>1
      <4>3. kv'[r] <= PromptLen[r] + g + a /\ kv'[r] <= h /\ PromptLen[r] + 1 <= h
        BY <1>5, <3>1, <3>4, <4>2
      <4>4. PromptLen[r] > 0 /\ phase'[r] # "prefill" /\ PromptLen[r] <= kv'[r]
        BY <1>5, <3>1
      <4>. QED
        BY <4>1, <4>3, <4>4, Zenon
    <3>. QED
      BY <3>2, <3>6, ZenonT(60) DEF InContract
  <2>7. ASSUME r \notin Range(running)' PROVE AtRest(r)'
    <3>1. r \notin Range(waiting)'
      BY <1>1, <1>13, ZenonT(30) DEF SchedInv, Placed
    <3>. QED
      BY <1>13, <2>7, <3>1, Zenon DEF Outcome, AtRest
  <2>8. \A q \in Range(running) \ {r} :
           Ahead(q)' = Ahead(q) /\ (Roomy(q)' => Roomy(q) \/ phase[q] = "prefill")
    <3>. SUFFICES ASSUME NEW q \in Range(running) \ {r}
                  PROVE  Ahead(q)' = Ahead(q) /\ (Roomy(q)' => phase[q] = "prefill")
      OBVIOUS
    <3>1. q \in Reqs /\ q \in Range(running)' /\ phase'[q] = phase[q]
      BY <1>13, <2>1, ListedDomain, Zenon DEF Outcome, SchedInv, Placed
    <3>. QED
      BY <1>4, <1>10, <1>11, <3>1, Zenon
  <2>9. Range(running)' \subseteq Range(running) /\ Range(running) \subseteq Range(running)' \cup {r}
    BY <1>13, Zenon DEF Outcome
  <2>. QED
    BY <1>1, <1>13, <2>2, <2>3, <2>5, <2>6, <2>7, <2>8, <2>9, ServedOne, ZenonT(60)
<1>14. CASE /\ take = PromptLen[r] - done[r] /\ phase' = [phase EXCEPT ![r] = "decode"]
            /\ UNCHANGED <<waiting, done>> /\ \E s \in Samples(r) : PushToken(i, s, newKv)
  <2>1. Outcome(r, newKv)
    <3>1. PICK s \in Samples(r) : PushToken(i, s, newKv)
      BY <1>14
    <3>2. UNCHANGED <<inbox, waiting>>
      BY <1>9, <1>14, Zenon
    <3>. QED
      BY <1>0, <1>8, <3>1, <3>2, TokenPushed
  <2>. QED
    BY <1>13, <1>14, <2>1, Zenon
<1>15. CASE Fail(i) /\ UNCHANGED <<waiting, phase, done>>
  <2>1. Outcome(r, newKv)
    BY <1>0, <1>9, <1>15, Failed
  <2>2. r \notin Range(running)'
    <3>1. running' = RemoveAt(running, i)
      BY <1>15 DEF Fail, Finish
    <3>2. Listed(running)
      BY DEF SchedInv, Placed
    <3>3. Range(RemoveAt(running, i)) = Range(running) \ {r}
      BY <1>0, <3>2, Removed
    <3>. QED
      BY <3>1, <3>3
  <2>. QED
    BY <1>13, <1>15, <2>1, <2>2
<1>16. \/ /\ take # PromptLen[r] - done[r]
          /\ done' = [done EXCEPT ![r] = @ + take] /\ kv' = newKv
          /\ UNCHANGED <<waiting, running, phase, generated, held, used, fate>>
       \/ /\ take = PromptLen[r] - done[r] /\ phase' = [phase EXCEPT ![r] = "decode"]
          /\ UNCHANGED <<waiting, done>> /\ \E s \in Samples(r) : PushToken(i, s, newKv)
       \/ Fail(i) /\ UNCHANGED <<waiting, phase, done>>
  BY <1>0, <1>t, <1>k, Zenon DEF PrefillChunk
<1>. QED
  BY <1>12, <1>14, <1>15, <1>16

LEMMA PrefillStep ==
    ASSUME SchedInv, PrefillOneChunk
    PROVE  SchedInv'
<1>1. CASE UNCHANGED engine
  <2>1. /\ at = "prefill" /\ at' = "room" /\ inbox' = inbox
        /\ todo' = {q \in Range(running') : phase'[q] = "decode"}
    BY DEF PrefillOneChunk, InPhase
  <2>2. running' = running /\ phase' = phase
    BY <1>1 DEF engine
  <2>3. todo' \in SUBSET Reqs
    BY <2>1, <2>2, ListedDomain DEF SchedInv, Placed
  <2>4. \A q \in Range(running) : q \in Reqs /\ phase[q] \in {"prefill", "decode"}
    BY ListedDomain DEF SchedInv, Placed, Shapes
  <2>5. \A q \in Range(running) : Ahead(q)' = Ahead(q) /\ (Roomy(q)' => Roomy(q) \/ phase[q] = "prefill")
    BY <2>1, <2>2, <2>4 DEF Ahead, Roomy
  <2>6. at' \in Stages /\ UNCHANGED <<inbox, engine>>
    BY <1>1, <2>1 DEF Stages
  <2>. QED
    BY <2>3, <2>5, <2>6, MovedOn, Zenon
<1>. QED
  BY <1>1, PrefillChunkStep DEF PrefillOneChunk

LEMMA Preempted ==
    ASSUME SchedInv, NEW i \in DOMAIN running, NEW r, r = running[i], Preempt(i),
           at = "room", at' = at, inbox' = inbox, todo' \in {todo, todo \ {r}}
    PROVE  SchedInv'
<1>1. r \in Range(running) /\ Listed(running') /\ Range(running') = Range(running) \ {r}
  BY Removed, ZenonT(30) DEF SchedInv, Placed, Preempt
<1>2. r \in Reqs /\ r \notin Range(inbox) /\ r \notin Range(waiting)
  BY <1>1, ListedDomain, Zenon DEF SchedInv, Placed
<1>3. Listed(waiting') /\ Range(waiting') = Range(waiting) \cup {r}
  BY <1>2, PushedFront, ZenonT(30) DEF SchedInv, Placed, Preempt
<1>4. /\ Release(r) /\ kv' = [kv EXCEPT ![r] = 0] /\ phase' = [phase EXCEPT ![r] = "prefill"]
      /\ done' = [done EXCEPT ![r] = 0] /\ UNCHANGED <<generated, fate>>
  BY Zenon DEF Preempt
<1>5. /\ kv \in [Reqs -> Nat] /\ done \in [Reqs -> Nat] /\ held \in [Reqs -> Nat] /\ used \in Nat
      /\ phase \in [Reqs -> {"prefill", "decode"}] /\ Counted
  BY Zenon DEF SchedInv, Shapes
<1>6. /\ Counted' /\ used' \in Nat /\ held' \in [Reqs -> Nat]
      /\ held'[r] = 0 /\ \A q \in Reqs \ {r} : held'[q] = held[q]
  BY <1>2, <1>4, <1>5, Released
<1>7. /\ kv' \in [Reqs -> Nat] /\ kv'[r] = 0 /\ \A q \in Reqs \ {r} : kv'[q] = kv[q]
  BY <1>2, <1>4, <1>5, Zenon
<1>8. /\ done' \in [Reqs -> Nat] /\ done'[r] = 0 /\ \A q \in Reqs \ {r} : done'[q] = done[q]
  BY <1>2, <1>4, <1>5
<1>9. /\ phase' \in [Reqs -> {"prefill", "decode"}] /\ phase'[r] = "prefill"
      /\ \A q \in Reqs \ {r} : phase'[q] = phase[q]
  BY <1>2, <1>4, <1>5, Zenon
<1>10. Placed'
  <2>1. Placed /\ inbox' = inbox /\ fate' = fate
    BY <1>4, ZenonT(30) DEF SchedInv
  <2>2. Listed(inbox') /\ Listed(waiting') /\ Listed(running')
    BY <1>1, <1>3, <2>1 DEF Placed
  <2>3. /\ Range(inbox') \cap Range(waiting') = {} /\ Range(inbox') \cap Range(running') = {}
        /\ Range(waiting') \cap Range(running') = {}
    BY <1>1, <1>2, <1>3, <2>1 DEF Placed
  <2>4. ASSUME NEW q \in Reqs
        PROVE  fate'[q] = "open" <=>
                 q \in Range(inbox') \cup Range(waiting') \cup Range(running')
    BY <1>1, <1>2, <1>3, <2>1 DEF Placed
  <2>. QED
    BY <2>2, <2>3, <2>4 DEF Placed
<1>11. todo' \in SUBSET Reqs
  BY DEF SchedInv, Shapes
<1>12. Shapes'
  BY <1>4, <1>6, <1>7, <1>8, <1>9, <1>11 DEF SchedInv, Shapes
<1>13. PromptLen[r] > 0
  BY <1>1, Zenon DEF SchedInv, Holdings, InContract
<1>14. AtRest(r)'
  BY <1>6, <1>7, <1>8, <1>9, <1>13, ZenonT(30) DEF AtRest
<1>15. \A q \in Reqs \ {r} : SameFor(q)
  BY <1>4, <1>6, <1>7, <1>8, <1>9 DEF SameFor
<1>16. \A q \in Range(running) \ {r} :
          Ahead(q)' = Ahead(q) /\ (Roomy(q)' => Roomy(q) \/ phase[q] = "prefill")
  BY Zenon DEF Ahead, Roomy
<1>17. r \notin Range(running)'
  BY <1>1
<1>. QED
  BY <1>1, <1>2, <1>3, <1>6, <1>10, <1>12, <1>14, <1>15, <1>16, <1>17, ServedOne, Zenon

LEMMA EnsureRoomStep ==
    ASSUME SchedInv, NEW i \in DOMAIN running, EnsureRoom(i)
    PROVE  SchedInv'
<1>0. PICK r : r = running[i]
  OBVIOUS
<1>. DEFINE need == PromptLen[r] + generated[r] + 1
<1>1. at = "room" /\ r \in todo /\ UNCHANGED <<at, inbox>>
  BY <1>0, ZenonT(30) DEF EnsureRoom, First
<1>2. r \in Range(running) /\ r \in Reqs
  BY <1>0, Member, Zenon
<1>3. CASE /\ CanReserve(r, need) /\ Reserve(r, need) /\ todo' = todo \ {r}
           /\ UNCHANGED <<waiting, running, phase, done, generated, kv, fate>>
  <2>1. /\ held \in [Reqs -> Nat] /\ used \in Nat /\ Counted /\ kv \in [Reqs -> Nat]
        /\ generated[r] \in Nat /\ PromptLen[r] \in Nat /\ kv[r] \in Nat /\ held[r] \in Nat
        /\ BlockTokens \in Nat
    BY <1>2, SchedulerConstants DEF SchedInv, Shapes
  <2>2. need \in Nat
    BY <2>1
  <2>. HIDE DEF need
  <2>3. /\ Counted' /\ used' \in Nat /\ held' \in [Reqs -> Nat]
        /\ held[r] * BlockTokens <= held'[r] * BlockTokens /\ need <= held'[r] * BlockTokens
        /\ \A q \in Reqs \ {r} : held'[q] = held[q]
    BY <1>2, <1>3, <2>1, <2>2, Reserved, ZenonT(30)
  <2>4. Placed'
    BY <1>1, <1>3 DEF SchedInv, Placed
  <2>5. Shapes'
    BY <1>1, <1>3, <2>3 DEF SchedInv, Shapes
  <2>6. InContract(r)'
    <3>1. InContract(r) /\ Ahead(r) = 0 /\ Ahead(r)' = 0
      BY <1>1, <1>2, Zenon DEF SchedInv, Holdings, Ahead
    <3>2. held[r] * BlockTokens \in Nat /\ held'[r] * BlockTokens \in Nat
      BY <1>2, <2>1, <2>3
    <3>3. PICK old \in Nat, space \in Nat :
             old = held[r] * BlockTokens /\ space = held'[r] * BlockTokens
      BY <3>2, Zenon
    <3>a. phase[r] = "decode" => PromptLen[r] <= kv[r] /\ kv[r] <= PromptLen[r] + generated[r] + 0
      BY <3>1, ZenonT(30) DEF InContract
    <3>b. kv[r] <= old /\ PromptLen[r] + 1 <= old
      BY <3>1, <3>3, Zenon DEF InContract
    <3>c. old <= space /\ PromptLen[r] + generated[r] + 1 <= space
      BY <2>3, <3>3 DEF need
    <3>4. phase[r] = "decode" => kv[r] + 1 <= held'[r] * BlockTokens
      BY <2>1, <3>3, <3>a, <3>c
    <3>5. kv[r] <= held'[r] * BlockTokens /\ PromptLen[r] + 1 <= held'[r] * BlockTokens
      BY <2>1, <3>3, <3>b, <3>c
    <3>. QED
      BY <1>3, <3>1, <3>4, <3>5, Zenon DEF InContract
  <2>7. \A q \in Reqs \ {r} : SameFor(q)
    BY <1>3, <2>3, Zenon DEF SameFor
  <2>8. \A q \in Range(running) \ {r} :
           Ahead(q)' = Ahead(q) /\ (Roomy(q)' => Roomy(q) \/ phase[q] = "prefill")
    BY <1>1, <1>3 DEF Ahead, Roomy
  <2>. QED
    BY <1>2, <1>3, <2>3, <2>4, <2>5, <2>6, <2>7, <2>8, ServedOne, ZenonT(30)
<1>4. ASSUME NEW v \in DOMAIN running, Preempt(v), todo' = todo PROVE SchedInv'
  <2>1. PICK u : u = running[v]
    OBVIOUS
  <2>. QED
    BY <1>1, <1>4, <2>1, Preempted
<1>5. CASE Preempt(i) /\ todo' = todo \ {r}
  BY <1>0, <1>1, <1>5, Preempted
<1>6. \/ /\ CanReserve(r, need) /\ Reserve(r, need) /\ todo' = todo \ {r}
         /\ UNCHANGED <<waiting, running, phase, done, generated, kv, fate>>
      \/ (\E v \in DOMAIN running : Preempt(v)) /\ todo' = todo
      \/ Preempt(i) /\ todo' = todo \ {r}
  BY <1>0, Zenon DEF EnsureRoom
<1>. HIDE DEF need
<1>. QED
  BY <1>3, <1>4, <1>5, <1>6

LEMMA DecodeStepKeeps ==
    ASSUME SchedInv, DecodeStep
    PROVE  SchedInv'
<1>. DEFINE batch == InPhase("decode")
<1>1. /\ at = "decode" /\ todo' = batch
      /\ UNCHANGED <<inbox, waiting, running, phase, done, generated, held, used, fate>>
  BY DEF DecodeStep
<1>2. \A q \in Range(running) : q \in Reqs /\ phase[q] \in {"prefill", "decode"}
  BY ListedDomain, Zenon DEF SchedInv, Placed, Shapes
<1>3. /\ batch \in SUBSET Reqs
      /\ \A q \in Range(running) : q \in batch <=> phase[q] = "decode"
      /\ batch \subseteq Range(running)
  BY <1>2 DEF InPhase
<1>4. CASE kv' = kv /\ at' \in {"drain", "fail"}
  <2>1. UNCHANGED <<inbox, engine>> /\ at' \in Stages /\ todo' \in SUBSET Reqs
    BY <1>1, <1>3, <1>4 DEF engine, Stages
  <2>2. \A q \in Range(running) : Ahead(q)' = Ahead(q) /\ (Roomy(q)' => Roomy(q) \/ phase[q] = "prefill")
    BY <1>1, <1>4, Zenon DEF Ahead, Roomy
  <2>. QED
    BY <2>1, <2>2, MovedOn, Zenon
<1>5. CASE at' = "emit" /\ kv' = [q \in Reqs |-> IF q \in batch THEN kv[q] + 1 ELSE kv[q]]
  <2>1. \A q \in Reqs : kv'[q] = IF q \in batch THEN kv[q] + 1 ELSE kv[q]
    BY <1>5
  <2>2. kv \in [Reqs -> Nat] /\ kv' \in [Reqs -> Nat]
    BY <1>5 DEF SchedInv, Shapes
  <2>3. Shapes'
    BY <1>1, <1>3, <1>5, <2>2 DEF SchedInv, Shapes, Stages
  <2>4. Placed' /\ Counted'
    BY <1>1 DEF SchedInv, Placed, Counted, BlocksOf
  <2>. HIDE DEF batch
  <2>5. ASSUME NEW q \in Reqs \ Range(running)' PROVE AtRest(q)'
    <3>1. AtRest(q) /\ q \notin batch
      BY <1>1, <1>3 DEF SchedInv, Holdings
    <3>2. kv'[q] = kv[q]
      BY <2>1, <3>1, Zenon
    <3>. QED
      BY <1>1, <3>1, <3>2, Zenon DEF AtRest
  <2>6. ASSUME NEW q \in Range(running)' PROVE InContract(q)'
    <3>1. q \in Range(running) /\ q \in Reqs /\ InContract(q)
      BY <1>1, <1>2, <2>6, Zenon DEF SchedInv, Holdings
    <3>2. CASE phase[q] = "prefill"
      <4>1. kv'[q] = kv[q]
        BY <1>3, <2>1, <3>1, <3>2, Zenon
      <4>. QED
        BY <1>1, <3>1, <3>2, <4>1, ZenonT(30) DEF InContract
    <3>3. CASE phase[q] = "decode"
      <4>1. kv'[q] = kv[q] + 1 /\ q \in todo'
        BY <1>1, <1>3, <2>1, <3>1, <3>3, ZenonT(30)
      <4>2. Ahead(q) = 0 /\ Roomy(q) /\ Ahead(q)' = 1 /\ ~Roomy(q)'
        BY <1>1, <1>5, <4>1 DEF Ahead, Roomy
      <4>3. kv[q] \in Nat /\ generated[q] \in Nat /\ PromptLen[q] \in Nat
        BY <3>1, SchedulerConstants, Zenon DEF SchedInv, Shapes
      <4>a. /\ PromptLen[q] <= kv[q] /\ kv[q] <= PromptLen[q] + generated[q] + 0
            /\ kv[q] + 1 <= held[q] * BlockTokens
        BY <3>1, <3>3, <4>2, ZenonT(30) DEF InContract
      <4>b. PromptLen[q] <= kv[q] + 1 /\ kv[q] + 1 <= PromptLen[q] + generated[q] + 1
        BY <4>3, <4>a
      <4>4. /\ PromptLen[q] <= kv'[q] /\ kv'[q] <= PromptLen[q] + generated[q] + 1
            /\ kv'[q] <= held[q] * BlockTokens
        BY <4>1, <4>a, <4>b, Zenon
      <4>. QED
        BY <1>1, <3>1, <3>3, <4>2, <4>4, ZenonT(30) DEF InContract
    <3>. QED
      BY <1>2, <3>1, <3>2, <3>3
  <2>7. Holdings'
    BY <2>5, <2>6, Zenon DEF Holdings
  <2>. QED
    BY <2>3, <2>4, <2>7 DEF SchedInv
<1>6. \/ kv' = kv /\ at' \in {"drain", "fail"}
      \/ at' = "emit" /\ kv' = [q \in Reqs |-> IF q \in batch THEN kv[q] + 1 ELSE kv[q]]
  BY DEF DecodeStep
<1>. QED
  BY <1>4, <1>5, <1>6

LEMMA AnswerStep ==
    ASSUME SchedInv, NEW i \in DOMAIN running, Answer(i)
    PROVE  SchedInv'
<1>0. PICK r : r = running[i]
  BY Zenon
<1>1. /\ r \in todo /\ todo' = todo \ {r} /\ at' = (IF todo = {r} THEN "drain" ELSE at)
      /\ UNCHANGED <<inbox, waiting, phase, done>> /\ at \in {"emit", "fail"}
  BY <1>0 DEF Answer, Final
<1>2. r \in Range(running) /\ r \in Reqs
  BY <1>0, Member, Zenon
<1>3. Outcome(r, kv)
  <2>1. CASE Fail(i)
    BY <1>0, <1>1, <2>1, Failed
  <2>2. ASSUME NEW s \in Samples(r), PushToken(i, s, kv) PROVE Outcome(r, kv)
    <3>1. kv \in [Reqs -> Nat] /\ \A q \in Reqs \ {r} : kv[q] = kv[q]
      BY DEF SchedInv, Shapes
    <3>. QED
      BY <1>0, <1>1, <2>2, <3>1, TokenPushed
  <2>3. Fail(i) \/ \E s \in Samples(r) : PushToken(i, s, kv)
    BY <1>0, Zenon DEF Answer
  <2>. QED
    BY <2>1, <2>2, <2>3, Zenon
<1>4. Placed' /\ Counted'
  BY <1>3, Zenon DEF Outcome
<1>5. Shapes'
  BY <1>1, <1>3 DEF Outcome, SchedInv, Shapes, Stages
<1>6. \A q \in Reqs : ~Roomy(q)'
  BY <1>1 DEF Roomy
<1>7. \A q \in Reqs \ {r} : SameFor(q)
  BY <1>1, <1>3, Zenon DEF Outcome, SameFor
<1>8. \A q \in Reqs \ {r} : Ahead(q)' = Ahead(q)
  BY <1>1 DEF Ahead
<1>9. ASSUME r \in Range(running)' PROVE InContract(r)'
  <2>1. held'[r] = held[r] /\ kv'[r] = kv[r] /\ generated'[r] = generated[r] + 1
    BY <1>3, <1>9 DEF Outcome
  <2>2. Ahead(r)' = 0 /\ Ahead(r) \in {0, 1}
    BY <1>1 DEF Ahead
  <2>3. kv[r] \in Nat /\ generated[r] \in Nat /\ PromptLen[r] \in Nat
    BY <1>2, SchedulerConstants, Zenon DEF SchedInv, Shapes
  <2>4. InContract(r)
    BY <1>2 DEF SchedInv, Holdings
  <2>5. phase[r] = "decode" => PromptLen[r] <= kv[r] /\ kv[r] <= PromptLen[r] + (generated[r] + 1) + 0
    <3>1. phase[r] = "decode" => PromptLen[r] <= kv[r] /\ kv[r] <= PromptLen[r] + generated[r] + Ahead(r)
      BY <2>4, ZenonT(30) DEF InContract
    <3>. QED
      BY <2>2, <2>3, <3>1
  <2>. QED
    BY <1>1, <1>2, <1>6, <2>1, <2>2, <2>4, <2>5 DEF InContract
<1>10. ASSUME r \notin Range(running)' PROVE AtRest(r)'
  <2>1. r \notin Range(waiting)'
    BY <1>1, <1>2 DEF SchedInv, Placed
  <2>. QED
    BY <1>3, <1>10, <2>1, Zenon DEF Outcome, AtRest
<1>11. Range(running)' \subseteq Range(running) /\ Range(running) \subseteq Range(running)' \cup {r}
  BY <1>3 DEF Outcome
<1>12. \A q \in Range(running) \ {r} :
          Ahead(q)' = Ahead(q) /\ (Roomy(q)' => Roomy(q) \/ phase[q] = "prefill")
  <2>1. Range(running) \subseteq Reqs
    BY ListedDomain DEF SchedInv, Placed
  <2>. QED
    BY <1>6, <1>8, <2>1, ZenonT(60)
<1>. QED
  BY <1>1, <1>2, <1>4, <1>5, <1>7, <1>9, <1>10, <1>11, <1>12, ServedOne

-----------------------------------------------------------------------------
(* The theorems.                                                           *)
LEMMA SchedInvInit == Init => SchedInv
<1>. SUFFICES ASSUME Init PROVE SchedInv
  BY Zenon
<1>1. Shapes
  BY DEF Init, Shapes, Stages, Fates
<1>2. Placed
  BY EmptyListed DEF Init, Placed
<1>3. Counted
  <2>1. \A r \in Reqs : {r} \X (1 .. held[r]) = {}
    BY DEF Init
  <2>2. BlocksOf(Reqs) = {}
    BY <2>1, Zenon DEF BlocksOf
  <2>. QED
    BY <2>2, FS_EmptySet, SchedulerConstants DEF Counted, Init
<1>4. Holdings
  BY EmptyListed, Zenon DEF Init, Holdings, AtRest
<1>. QED
  BY <1>1, <1>2, <1>3, <1>4 DEF SchedInv

LEMMA SchedInvNext == SchedInv /\ [Next]_vars => SchedInv'
<1>. SUFFICES ASSUME SchedInv, [Next]_vars PROVE SchedInv'
  OBVIOUS
<1>1. CASE EngineStep
  BY <1>1, EnqueueStep, DrainedStep, AdmitStep, AdmitDoneStep, PrefillStep, EnsureRoomStep,
     AnswerStep, RoomDoneStep, DecodeStepKeeps, Zenon DEF EngineStep
<1>2. CASE \E r \in Reqs : Submit(r) \/ Disconnect(r)
  BY <1>2, SubmitStep, DisconnectStep
<1>3. CASE UNCHANGED vars
  <2>1. UNCHANGED <<inbox, engine>> /\ at' = at /\ todo' = todo
    BY <1>3, Zenon DEF vars
  <2>. QED
    BY <2>1, MovedOn DEF SchedInv, Shapes, Ahead, Roomy
<1>. QED
  BY <1>1, <1>2, <1>3 DEF Next, Idle

LEMMA Joined ==
    ASSUME NEW s, NEW t, Listed(s), Listed(t), Range(s) \cap Range(t) = {}
    PROVE  Listed(s \o t) /\ Range(s \o t) = Range(s) \cup Range(t)
<1>1. /\ s \o t \in Seq(Reqs) /\ Len(s \o t) = Len(s) + Len(t)
      /\ \A k \in 1 .. Len(s) + Len(t) : (s \o t)[k] = IF k <= Len(s) THEN s[k] ELSE t[k - Len(s)]
  BY ConcatProperties DEF Listed
<1>2. Len(s) \in Nat /\ Len(t) \in Nat
  BY ListedDomain, Zenon
<1>3. PICK u : u = s \o t
  BY Zenon
<1>4. u \in Seq(Reqs) /\ DOMAIN u = 1 .. Len(s) + Len(t)
  BY <1>1, <1>3, LenProperties, Zenon
<1>5. \A k \in 1 .. Len(s) : k \in DOMAIN u /\ u[k] = s[k]
  BY <1>1, <1>2, <1>3, <1>4
<1>6. \A k \in 1 .. Len(t) : Len(s) + k \in DOMAIN u /\ u[Len(s) + k] = t[k]
  <2>. SUFFICES ASSUME NEW k \in 1 .. Len(t) PROVE Len(s) + k \in DOMAIN u /\ u[Len(s) + k] = t[k]
    BY Zenon
  <2>1. /\ Len(s) + k \in 1 .. Len(s) + Len(t) /\ ~(Len(s) + k <= Len(s)) /\ (Len(s) + k) - Len(s) = k
    BY <1>2
  <2>. QED
    BY <1>1, <1>3, <1>4, <2>1, Zenon
<1>7. \A k \in DOMAIN u : k \in 1 .. Len(s) \/ \E j \in 1 .. Len(t) : k = Len(s) + j
  <2>. SUFFICES ASSUME NEW k \in 1 .. Len(s) + Len(t), k \notin 1 .. Len(s)
                PROVE  \E j \in 1 .. Len(t) : k = Len(s) + j
    BY <1>4, Zenon
  <2>1. PICK n \in Nat, m \in Nat : n = Len(s) /\ m = Len(t)
    BY <1>2
  <2>2. k \in 1 .. n + m /\ k \notin 1 .. n
    BY <2>1
  <2>3. k - n \in 1 .. m /\ k = n + (k - n)
    BY <2>2
  <2>. QED
    BY <2>1, <2>3, Zenon
<1>8. Range(u) = Range(s) \cup Range(t)
  <2>1. ASSUME NEW r \in Range(u) PROVE r \in Range(s) \cup Range(t)
    <3>1. PICK k \in DOMAIN u : u[k] = r
      BY Zenon DEF Range
    <3>2. /\ \A m \in 1 .. Len(s) : s[m] \in Range(s)
          /\ \A m \in 1 .. Len(t) : t[m] \in Range(t)
      BY ListedDomain, Zenon
    <3>3. CASE k \in 1 .. Len(s)
      BY <1>5, <3>1, <3>2, <3>3
    <3>4. ASSUME NEW j \in 1 .. Len(t), k = Len(s) + j PROVE r \in Range(t)
      BY <1>6, <3>1, <3>2, <3>4, Zenon
    <3>. QED
      BY <1>7, <3>3, <3>4
  <2>2. ASSUME NEW r \in Range(s) PROVE r \in Range(u)
    BY <1>5, ListedDomain DEF Range
  <2>3. ASSUME NEW r \in Range(t) PROVE r \in Range(u)
    BY <1>6, ListedDomain DEF Range
  <2>. QED
    BY <2>1, <2>2, <2>3
<1>9. ASSUME NEW j \in DOMAIN u, NEW k \in DOMAIN u, u[j] = u[k] PROVE j = k
  <2>1. /\ \A m \in 1 .. Len(s) : s[m] \in Range(s)
        /\ \A m \in 1 .. Len(t) : t[m] \in Range(t)
    BY ListedDomain, Zenon
  <2>2. CASE j \in 1 .. Len(s) /\ k \in 1 .. Len(s)
    <3>1. s[j] = s[k]
      BY <1>5, <1>9, <2>2, Zenon
    <3>. QED
      BY <2>2, <3>1, ListedDomain
  <2>3. ASSUME NEW a \in 1 .. Len(t), j = Len(s) + a, NEW b \in 1 .. Len(t), k = Len(s) + b
        PROVE  j = k
    <3>1. t[a] = t[b]
      BY <1>6, <1>9, <2>3, Zenon
    <3>2. a = b
      BY <3>1, ListedDomain
    <3>. QED
      BY <2>3, <3>2
  <2>. QED
    BY <1>5, <1>6, <1>7, <1>9, <2>1, <2>2, <2>3
<1>10. Listed(u)
  BY <1>4, <1>9 DEF Listed, IsInjective
<1>. QED
  BY <1>3, <1>8, <1>10

\* Neither a request nor a block is lost or doubled, whatever order finish,
\* preempt and a failed batch come in: the pool's used_blocks is exactly what the
\* running sequences hold.
THEOREM RequestsAndBlocksConserved == Spec => []Conserved
<1>1. SchedInv => Conserved
  <2>. SUFFICES ASSUME SchedInv PROVE Conserved
    OBVIOUS
  <2>1. PICK a : a = inbox \o waiting
    BY Zenon
  <2>2. Listed(a) /\ Range(a) = Range(inbox) \cup Range(waiting)
    BY <2>1, Joined DEF SchedInv, Placed
  <2>3. Range(a) \cap Range(running) = {}
    BY <2>2 DEF SchedInv, Placed
  <2>4. Listed(a \o running) /\ Range(a \o running) = Range(a) \cup Range(running)
    BY <2>2, <2>3, Joined DEF SchedInv, Placed
  <2>5. PICK p : p = inbox \o waiting \o running
    BY Zenon
  <2>6. Listed(p) /\ Range(p) = Range(inbox) \cup Range(waiting) \cup Range(running)
    BY <2>1, <2>2, <2>4, <2>5
  <2>7. IsInjective(p) /\ \A r \in Reqs : fate[r] = "open" <=> r \in Range(p)
    BY <2>6 DEF SchedInv, Placed, Listed
  <2>8. \A r \in Reqs : r \notin Range(running) => held[r] = 0 /\ kv[r] = 0
    BY DEF SchedInv, Placed, Holdings, AtRest
  <2>. QED
    BY <2>5, <2>7, <2>8, Zenon DEF Conserved, SchedInv, Counted
<1>. QED
  BY <1>1, SchedInvInit, SchedInvNext, PTL DEF Spec

\* The runtime is asked to prefill exactly where its KV of a sequence ends, to
\* decode only prefilled sequences, and never past what the sequence reserved.
THEOREM RuntimeContractKept == Spec => []RuntimeContract
<1>1. SchedInv => RuntimeContract
  <2>. SUFFICES ASSUME SchedInv, NEW i \in DOMAIN running, NEW r, r = running[i]
                PROVE  /\ IF phase[r] = "prefill" THEN kv[r] = done[r] /\ done[r] < PromptLen[r]
                                                  ELSE kv[r] >= PromptLen[r]
                       /\ kv[r] + (IF at = "decode" /\ phase[r] = "decode" THEN 1 ELSE 0)
                             <= held[r] * BlockTokens
                       /\ PromptLen[r] + 1 <= held[r] * BlockTokens
    BY Zenon DEF RuntimeContract
  <2>1. r \in Range(running) /\ r \in Reqs
    BY Member, Zenon
  <2>2. InContract(r) /\ phase[r] \in {"prefill", "decode"} /\ kv[r] \in Nat
    BY <2>1, Zenon DEF SchedInv, Holdings, Shapes
  <2>3. at = "decode" => Roomy(r)
    BY DEF Roomy
  <2>4. PromptLen[r] \in Nat
    BY <2>1, SchedulerConstants
  <2>5. PICK space : space = held[r] * BlockTokens
    BY Zenon
  <2>6. /\ phase[r] = "prefill" => kv[r] = done[r] /\ done[r] < PromptLen[r]
        /\ phase[r] = "decode" => PromptLen[r] <= kv[r]
        /\ phase[r] = "decode" /\ at = "decode" => kv[r] + 1 <= space
        /\ kv[r] <= space /\ PromptLen[r] + 1 <= space
    BY <2>2, <2>3, <2>5, Zenon DEF InContract
  <2>. QED
    BY <2>2, <2>4, <2>5, <2>6
<1>. QED
  BY <1>1, SchedInvInit, SchedInvNext, PTL DEF Spec

=============================================================================
