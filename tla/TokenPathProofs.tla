-------------------------- MODULE TokenPathProofs --------------------------
(***************************************************************************)
(* Proofs about the way of the text to the client (Emission, TokenPath),   *)
(* for any tokenizer that only adds to what it decoded, any stop strings,  *)
(* any size of the buffers and any number of faults.                       *)
(*                                                                         *)
(* Emission.  That a stop string cuts exactly needs that nothing of it was *)
(* sent before it was complete.  Safe says why: what was sent is within    *)
(* the held-back length of an earlier, settled part of the text without a  *)
(* stop string, so that no stop string found later begins before it.       *)
(*                                                                         *)
(* TokenPath.  That a client at [DONE] has the whole answer needs to know  *)
(* of every buffer what it holds.  Chained cuts the text sent at five      *)
(* places, so that each buffer spells the text between two of them; Marks  *)
(* and OneWay follow the finish reason; Ends says which task can have      *)
(* ended, and what that says of the ones before it.                        *)
(***************************************************************************)
EXTENDS TokenPath, WellFoundedInduction, TLAPS

\* The larger steps need more time than the backends have by default.
USE SMTT(30), ZenonT(30)

-----------------------------------------------------------------------------
(* Sequences.  These facts are in SequenceTheorems too, but each            *)
(* obligation below would carry that module's definitions along.           *)
LEMMA SeqEqual ==
    ASSUME NEW X, NEW s \in Seq(X), NEW u \in Seq(X), Len(s) = Len(u),
           \A i \in 1 .. Len(s) : s[i] = u[i]
    PROVE  s = u
OBVIOUS

LEMMA ConcatProperties ==
    ASSUME NEW X, NEW s \in Seq(X), NEW u \in Seq(X)
    PROVE  /\ s \o u \in Seq(X) /\ Len(s \o u) = Len(s) + Len(u)
           /\ \A i \in 1 .. Len(s) + Len(u) :
                (s \o u)[i] = IF i <= Len(s) THEN s[i] ELSE u[i - Len(s)]
OBVIOUS

LEMMA ConcatEmptySeq == ASSUME NEW X, NEW s \in Seq(X) PROVE s \o <<>> = s
<1>1. PICK u : u = s \o <<>>
  BY Zenon
<1>2. u \in Seq(X) /\ Len(u) = Len(s) /\ \A i \in 1 .. Len(u) : u[i] = s[i]
  BY <1>1
<1>. QED
  BY <1>1, <1>2, SeqEqual, Zenon

LEMMA SubSeqProperties ==
    ASSUME NEW X, NEW s, NEW m \in Int, NEW n \in Int, \A i \in m .. n : s[i] \in X
    PROVE  /\ SubSeq(s, m, n) \in Seq(X)
           /\ Len(SubSeq(s, m, n)) = IF m <= n THEN n - m + 1 ELSE 0
           /\ \A i \in 1 .. n - m + 1 : SubSeq(s, m, n)[i] = s[m + i - 1]
OBVIOUS

LEMMA SubSeqEmpty == ASSUME NEW s, NEW m \in Int, NEW n \in Int, n < m PROVE SubSeq(s, m, n) = <<>>
OBVIOUS

LEMMA SubSeqFull == ASSUME NEW X, NEW s \in Seq(X) PROVE SubSeq(s, 1, Len(s)) = s
OBVIOUS

-----------------------------------------------------------------------------
(* Sequences of texts.                                                     *)

LEMMA Sub ==
    ASSUME NEW s \in Seq(Chars), NEW p \in Nat, NEW q \in Nat, q <= Len(s)
    PROVE  /\ SubSeq(s, p + 1, q) \in Seq(Chars)
           /\ Len(SubSeq(s, p + 1, q)) = IF p <= q THEN q - p ELSE 0
           /\ \A i \in 1 .. q - p : SubSeq(s, p + 1, q)[i] = s[p + i]
<1>1. PICK m \in Int : m = p + 1
  OBVIOUS
<1>2. q \in Int /\ \A i \in m .. q : s[i] \in Chars
  BY <1>1
<1>3. /\ SubSeq(s, m, q) \in Seq(Chars)
      /\ Len(SubSeq(s, m, q)) = IF m <= q THEN q - m + 1 ELSE 0
      /\ \A i \in 1 .. q - m + 1 : SubSeq(s, m, q)[i] = s[m + i - 1]
  BY <1>2, SubSeqProperties
<1>4. PICK t : t = SubSeq(s, m, q)
  BY Zenon
<1>5. /\ t \in Seq(Chars) /\ Len(t) = IF p <= q THEN q - p ELSE 0
      /\ \A i \in 1 .. q - p : t[i] = s[p + i]
  BY <1>1, <1>3, <1>4
<1>. QED
  BY <1>1, <1>4, <1>5, Zenon

\* The first q elements of s and u are the same.
Agree(s, u, q) == q <= Len(s) /\ q <= Len(u) /\ \A i \in 1 .. q : u[i] = s[i]

LEMMA SubSame ==
    ASSUME NEW s \in Seq(Chars), NEW u \in Seq(Chars), NEW p \in Nat, NEW q \in Nat,
           Agree(s, u, q)
    PROVE  SubSeq(s, p + 1, q) = SubSeq(u, p + 1, q)
<1>0. q <= Len(s) /\ q <= Len(u) /\ \A i \in 1 .. q : u[i] = s[i]
  BY Zenon DEF Agree
<1>1. PICK a, b : a = SubSeq(s, p + 1, q) /\ b = SubSeq(u, p + 1, q)
  BY Zenon
<1>2. /\ a \in Seq(Chars) /\ Len(a) = IF p <= q THEN q - p ELSE 0
      /\ \A i \in 1 .. q - p : a[i] = s[p + i]
  BY <1>0, <1>1, Sub
<1>3. /\ b \in Seq(Chars) /\ Len(b) = IF p <= q THEN q - p ELSE 0
      /\ \A i \in 1 .. q - p : b[i] = u[p + i]
  BY <1>0, <1>1, Sub
<1>4. Len(a) = Len(b) /\ \A i \in 1 .. Len(a) : a[i] = b[i]
  BY <1>0, <1>2, <1>3
<1>5. a = b
  BY <1>2, <1>3, <1>4, SeqEqual, Zenon
<1>. QED
  BY <1>1, <1>5, Zenon

\* The texts of the items, one after the other, are s from a + 1 to b; c says
\* where each one ends.
SpellsBy(c, items, s, a, b) ==
    /\ c \in [0 .. Len(items) -> Nat] /\ c[0] = a /\ c[Len(items)] = b /\ b <= Len(s)
    /\ \A i, j \in 0 .. Len(items) : i <= j => c[i] <= c[j]
    /\ \A i \in 1 .. Len(items) : items[i].text = SubSeq(s, c[i - 1] + 1, c[i])

Spells(items, s, a, b) == \E c : SpellsBy(c, items, s, a, b)

LEMMA Bounds ==
    ASSUME NEW X, NEW items \in Seq(X), NEW s \in Seq(Chars), NEW a, NEW b, Spells(items, s, a, b)
    PROVE  a \in Nat /\ b \in Nat /\ a <= b /\ b <= Len(s)
<1>1. PICK c : SpellsBy(c, items, s, a, b)
  BY Zenon DEF Spells
<1>2. Len(items) \in Nat /\ 0 \in 0 .. Len(items) /\ Len(items) \in 0 .. Len(items)
  OBVIOUS
<1>. QED
  BY <1>1, <1>2 DEF SpellsBy

LEMMA SpellsNothing ==
    ASSUME NEW s \in Seq(Chars), NEW a \in Nat, a <= Len(s)
    PROVE  Spells(<<>>, s, a, a)
<1>1. PICK c : c = [i \in 0 .. 0 |-> a]
  BY Zenon
<1>2. SpellsBy(c, <<>>, s, a, a)
  BY <1>1 DEF SpellsBy
<1>. QED
  BY <1>2, Zenon DEF Spells

LEMMA NothingSpells == ASSUME NEW s, NEW a, NEW b, Spells(<<>>, s, a, b) PROVE a = b
BY Zenon DEF Spells, SpellsBy

LEMMA SpellsAppend ==
    ASSUME NEW X, NEW items \in Seq(X), NEW x \in X, NEW s \in Seq(Chars), NEW a, NEW b,
           Spells(items, s, a, b), NEW e \in Nat, b <= e, e <= Len(s), x.text = SubSeq(s, b + 1, e)
    PROVE  Spells(Append(items, x), s, a, e)
<1>1. PICK c : SpellsBy(c, items, s, a, b)
  BY Zenon DEF Spells
<1>2. PICK n \in Nat : n = Len(items)
  OBVIOUS
<1>3. PICK longer : longer = Append(items, x)
  BY Zenon
<1>4. /\ longer \in Seq(X) /\ Len(longer) = n + 1 /\ longer[n + 1] = x
      /\ \A i \in 1 .. n : longer[i] = items[i]
  BY <1>2, <1>3
<1>5. PICK d : d = [i \in 0 .. n + 1 |-> IF i <= n THEN c[i] ELSE e]
  BY Zenon
<1>6. /\ c \in [0 .. n -> Nat] /\ c[0] = a /\ c[n] = b
      /\ \A i, j \in 0 .. n : i <= j => c[i] <= c[j]
      /\ \A i \in 1 .. n : items[i].text = SubSeq(s, c[i - 1] + 1, c[i])
  BY <1>1, <1>2, Zenon DEF SpellsBy
<1>7. d \in [0 .. n + 1 -> Nat] /\ d[0] = a /\ d[n + 1] = e /\ \A i \in 0 .. n : d[i] = c[i]
  BY <1>5, <1>6
<1>8. \A i, j \in 0 .. n + 1 : i <= j => d[i] <= d[j]
  <2>. SUFFICES ASSUME NEW i \in 0 .. n + 1, NEW j \in 0 .. n + 1, i <= j PROVE d[i] <= d[j]
    BY Zenon
  <2>1. CASE j <= n
    <3>1. c[i] <= c[j] /\ d[i] = c[i] /\ d[j] = c[j]
      BY <1>6, <1>7, <2>1
    <3>. QED
      BY <3>1, Zenon
  <2>2. CASE j = n + 1 /\ i <= n
    <3>1. c[i] <= c[n] /\ c[i] \in Nat /\ b \in Nat
      BY <1>6, <2>2
    <3>. QED
      BY <1>6, <1>7, <2>2, <3>1
  <2>3. CASE j = n + 1 /\ i = n + 1
    BY <1>7, <2>3
  <2>. QED
    BY <2>1, <2>2, <2>3
<1>9. \A i \in 1 .. n + 1 : longer[i].text = SubSeq(s, d[i - 1] + 1, d[i])
  <2>. SUFFICES ASSUME NEW i \in 1 .. n + 1 PROVE longer[i].text = SubSeq(s, d[i - 1] + 1, d[i])
    BY Zenon
  <2>1. CASE i = n + 1
    <3>1. d[i - 1] = b /\ d[i] = e /\ longer[i] = x
      BY <1>4, <1>6, <1>7, <2>1
    <3>. QED
      BY <3>1, Zenon
  <2>2. CASE i <= n
    <3>1. d[i - 1] = c[i - 1] /\ d[i] = c[i] /\ longer[i] = items[i]
      BY <1>4, <1>7, <2>2
    <3>. QED
      BY <1>6, <2>2, <3>1
  <2>. QED
    BY <2>1, <2>2
<1>10. SpellsBy(d, longer, s, a, e)
  BY <1>4, <1>7, <1>8, <1>9, Zenon DEF SpellsBy
<1>. QED
  BY <1>3, <1>10, Zenon DEF Spells

LEMMA SpellsTail ==
    ASSUME NEW X, NEW items \in Seq(X), items # <<>>, NEW s \in Seq(Chars), NEW a, NEW b,
           Spells(items, s, a, b)
    PROVE  \E m \in Nat : /\ a <= m /\ m <= b /\ Head(items).text = SubSeq(s, a + 1, m)
                          /\ Spells(Tail(items), s, m, b)
<1>1. PICK c : SpellsBy(c, items, s, a, b)
  BY Zenon DEF Spells
<1>2. PICK n \in Nat : n + 1 = Len(items)
  <2>1. Len(items) \in Nat /\ Len(items) # 0
    OBVIOUS
  <2>2. Len(items) - 1 \in Nat /\ (Len(items) - 1) + 1 = Len(items)
    BY <2>1
  <2>. QED
    BY <2>2, Zenon
<1>3. PICK rest : rest = Tail(items)
  BY Zenon
<1>4. /\ rest \in Seq(X) /\ Len(rest) = n /\ Head(items) = items[1]
      /\ \A i \in 1 .. n : rest[i] = items[i + 1]
  BY <1>2, <1>3
<1>5. PICK d : d = [i \in 0 .. n |-> c[i + 1]]
  BY Zenon
<1>6. /\ c \in [0 .. n + 1 -> Nat] /\ c[0] = a /\ c[n + 1] = b /\ b <= Len(s)
      /\ \A i, j \in 0 .. n + 1 : i <= j => c[i] <= c[j]
      /\ \A i \in 1 .. n + 1 : items[i].text = SubSeq(s, c[i - 1] + 1, c[i])
  BY <1>1, <1>2, Zenon DEF SpellsBy
<1>7. PICK m \in Nat : m = c[1]
  BY <1>6
<1>8. d \in [0 .. n -> Nat] /\ d[0] = m /\ d[n] = b /\ \A i \in 0 .. n : d[i] = c[i + 1]
  BY <1>5, <1>6, <1>7
<1>9. \A i, j \in 0 .. n : i <= j => d[i] <= d[j]
  BY <1>6, <1>8
<1>10. \A i \in 1 .. n : rest[i].text = SubSeq(s, d[i - 1] + 1, d[i])
  <2>. SUFFICES ASSUME NEW i \in 1 .. n PROVE rest[i].text = SubSeq(s, d[i - 1] + 1, d[i])
    BY Zenon
  <2>1. PICK k \in 1 .. n + 1 : k = i + 1
    OBVIOUS
  <2>2. d[i - 1] = c[k - 1] /\ d[i] = c[k] /\ rest[i] = items[k]
    BY <1>4, <1>8, <2>1
  <2>3. items[k].text = SubSeq(s, c[k - 1] + 1, c[k])
    BY <1>6, Zenon
  <2>. QED
    BY <2>2, <2>3, Zenon
<1>11. SpellsBy(d, rest, s, m, b)
  BY <1>4, <1>6, <1>8, <1>9, <1>10, Zenon DEF SpellsBy
<1>12. a <= m /\ m <= b
  <2>1. 0 \in 0 .. n + 1 /\ 1 \in 0 .. n + 1 /\ n + 1 \in 0 .. n + 1 /\ 0 <= 1 /\ 1 <= n + 1
    OBVIOUS
  <2>2. c[0] <= c[1] /\ c[1] <= c[n + 1]
    BY <1>6, <2>1, Zenon
  <2>. QED
    BY <1>6, <1>7, <2>2, Zenon
<1>13. Head(items).text = SubSeq(s, a + 1, m)
  <2>1. items[1].text = SubSeq(s, c[1 - 1] + 1, c[1])
    BY <1>6
  <2>2. c[1 - 1] = a /\ c[1] = m
    BY <1>6, <1>7
  <2>. QED
    BY <1>4, <2>1, <2>2, Zenon
<1>14. Spells(Tail(items), s, m, b)
  BY <1>3, <1>11, Zenon DEF Spells
<1>. QED
  BY <1>7, <1>12, <1>13, <1>14, Zenon

LEMMA SpellsLonger ==
    ASSUME NEW X, NEW items \in Seq(X), NEW s \in Seq(Chars), NEW t \in Seq(Chars), NEW a, NEW b,
           Spells(items, s, a, b)
    PROVE  Spells(items, s \o t, a, b)
<1>1. PICK c : SpellsBy(c, items, s, a, b)
  BY Zenon DEF Spells
<1>2. PICK u : u = s \o t
  BY Zenon
<1>3. u \in Seq(Chars) /\ Len(s) <= Len(u) /\ \A i \in 1 .. Len(s) : u[i] = s[i]
  BY <1>2
<1>4. ASSUME NEW i \in 1 .. Len(items) PROVE items[i].text = SubSeq(u, c[i - 1] + 1, c[i])
  <2>0. PICK n \in Nat : n = Len(items)
    OBVIOUS
  <2>a. /\ c \in [0 .. n -> Nat] /\ c[n] <= Len(s) /\ i \in 1 .. n
        /\ \A j, k \in 0 .. n : j <= k => c[j] <= c[k]
    BY <1>1, <2>0, Zenon DEF SpellsBy
  <2>b. c[i - 1] \in Nat /\ c[i] \in Nat /\ c[n] \in Nat /\ c[i] <= c[n]
    BY <2>a
  <2>1. PICK p \in Nat, q \in Nat : p = c[i - 1] /\ q = c[i] /\ q <= Len(s)
    BY <2>a, <2>b
  <2>2. items[i].text = SubSeq(s, p + 1, q)
    BY <1>1, <2>1, Zenon DEF SpellsBy
  <2>3. SubSeq(s, p + 1, q) = SubSeq(u, p + 1, q)
    <3>1. Agree(s, u, q)
      BY <1>3, <2>1 DEF Agree
    <3>2. u \in Seq(Chars)
      BY <1>3, Zenon
    <3>. QED
      BY <3>1, <3>2, SubSame, ZenonT(30)
  <2>. QED
    BY <2>1, <2>2, <2>3, Zenon
<1>5. b <= Len(u)
  <2>1. b \in Nat /\ b <= Len(s)
    BY Bounds, Zenon
  <2>. QED
    BY <1>3, <2>1
<1>6. SpellsBy(c, items, u, a, b)
  BY <1>1, <1>4, <1>5, Zenon DEF SpellsBy
<1>. QED
  BY <1>2, <1>6, Zenon DEF Spells

-----------------------------------------------------------------------------
(* Stop strings.                                                           *)

LEMMA FirstIn ==
    ASSUME NEW S \in SUBSET Nat, S # {}
    PROVE  First(S) \in S /\ \A x \in S : First(S) <= x
<1>1. PICK less : less = OpToRel(<, Nat)
  BY Zenon
<1>2. \A y, x \in Nat : y < x => <<y, x>> \in less
  BY <1>1, Zenon DEF OpToRel
<1>3. IsWellFoundedOn(less, Nat)
  BY <1>1, NatLessThanWellFounded, Zenon
<1>4. PICK n \in S : \A m \in S : ~ (<<m, n>> \in less)
  <2>1. S \subseteq Nat
    BY Zenon
  <2>. QED
    BY <1>3, <2>1, WFMin, Zenon
<1>5. ASSUME NEW m \in S PROVE n <= m
  <2>1. m \in Nat /\ n \in Nat
    BY Zenon
  <2>2. ~(m < n)
    BY <1>2, <1>4, <2>1, Zenon
  <2>. QED
    BY <2>1, <2>2
<1>. QED
  BY <1>5, Zenon DEF First

LEMMA StopText ==
    ASSUME <<>> \notin Stops, NEW stop \in Stops
    PROVE  stop \in Seq(Chars) /\ Len(stop) \in Nat \ {0}
<1>1. stop \in Seq(Chars) /\ stop # <<>>
  BY EmissionConstants, Zenon
<1>. QED
  BY <1>1

\* find and starts_with, character by character.
Found(text, i, stop) ==
    i + Len(stop) <= Len(text) /\ \A k \in 1 .. Len(stop) : text[i + k] = stop[k]
Claims(text, i, stop) ==
    Len(text) - i <= Len(stop) /\ \A k \in 1 .. Len(text) - i : text[i + k] = stop[k]

LEMMA FoundThere ==
    ASSUME NEW text \in Seq(Chars), NEW stop \in Seq(Chars), NEW i \in Nat
    PROVE  i \in FindAll(text, stop) <=> Found(text, i, stop)
<1>1. PICK n \in Nat, l \in Nat : n = Len(text) /\ l = Len(stop)
  OBVIOUS
<1>2. i \in FindAll(text, stop) <=> i + l <= n /\ SubSeq(text, i + 1, i + l) = stop
  BY <1>1 DEF FindAll
<1>3. ASSUME i + l <= n
      PROVE  SubSeq(text, i + 1, i + l) = stop <=> \A k \in 1 .. l : text[i + k] = stop[k]
  <2>1. PICK q \in Nat : q = i + l
    OBVIOUS
  <2>2. PICK t : t = SubSeq(text, i + 1, q)
    BY Zenon
  <2>3. t \in Seq(Chars) /\ Len(t) = l /\ \A k \in 1 .. l : t[k] = text[i + k]
    <3>1. q <= Len(text) /\ i <= q /\ q - i = l
      BY <1>1, <1>3, <2>1
    <3>2. t \in Seq(Chars) /\ Len(t) = (IF i <= q THEN q - i ELSE 0)
          /\ \A k \in 1 .. q - i : t[k] = text[i + k]
      BY <2>2, <3>1, Sub, Zenon
    <3>. QED
      BY <3>1, <3>2, Zenon
  <2>4. t = stop <=> \A k \in 1 .. l : t[k] = stop[k]
    BY <1>1, <2>3, SeqEqual, Zenon
  <2>5. t = stop <=> \A k \in 1 .. l : text[i + k] = stop[k]
    BY <2>3, <2>4, ZenonT(30)
  <2>. QED
    BY <2>1, <2>2, <2>5, Zenon
<1>. QED
  BY <1>1, <1>2, <1>3, Zenon DEF Found

LEMMA ClaimsThere ==
    ASSUME NEW text \in Seq(Chars), NEW stop \in Seq(Chars), NEW i \in Nat, i <= Len(text)
    PROVE  StartsWith(stop, SubSeq(text, i + 1, Len(text))) <=> Claims(text, i, stop)
<1>1. PICK n \in Nat, l \in Nat : n = Len(text) /\ l = Len(stop)
  OBVIOUS
<1>2. PICK t : t = SubSeq(text, i + 1, n)
  BY Zenon
<1>3. PICK m \in Nat : m = n - i
  <2>1. n - i \in Nat
    BY <1>1
  <2>. QED
    BY <2>1, Zenon
<1>4. t \in Seq(Chars) /\ Len(t) = m /\ \A k \in 1 .. m : t[k] = text[i + k]
  <2>1. t \in Seq(Chars) /\ Len(t) = (IF i <= n THEN n - i ELSE 0)
        /\ \A k \in 1 .. n - i : t[k] = text[i + k]
    BY <1>1, <1>2, Sub
  <2>. QED
    BY <1>1, <1>3, <2>1, Zenon
<1>5. ASSUME m <= l
      PROVE  SubSeq(stop, 1, m) = t <=> \A k \in 1 .. m : text[i + k] = stop[k]
  <2>1. PICK u : u = SubSeq(stop, 0 + 1, m)
    BY Zenon
  <2>2. u \in Seq(Chars) /\ Len(u) = (IF 0 <= m THEN m - 0 ELSE 0)
        /\ \A k \in 1 .. m - 0 : u[k] = stop[0 + k]
    BY <1>1, <1>5, <2>1, Sub
  <2>3. Len(u) = m /\ \A k \in 1 .. m : u[k] = stop[k]
    BY <2>2
  <2>4. u = t <=> \A k \in 1 .. m : u[k] = t[k]
    BY <1>4, <2>2, <2>3, SeqEqual, Zenon
  <2>5. u = t <=> \A k \in 1 .. m : text[i + k] = stop[k]
    BY <1>4, <2>3, <2>4, Zenon
  <2>6. 0 + 1 = 1
    OBVIOUS
  <2>. QED
    BY <2>1, <2>5, <2>6, Zenon
<1>6. StartsWith(stop, t) <=> m <= l /\ SubSeq(stop, 1, m) = t
  BY <1>1, <1>4, Zenon DEF StartsWith
<1>7. StartsWith(stop, t) <=> m <= l /\ \A k \in 1 .. m : text[i + k] = stop[k]
  BY <1>5, <1>6, Zenon
<1>. QED
  BY <1>1, <1>2, <1>3, <1>7, Zenon DEF Claims

LEMMA HitsAre ==
    ASSUME <<>> \notin Stops, NEW text \in Seq(Chars)
    PROVE  /\ Hits(text) \in SUBSET Nat
           /\ \A i \in Hits(text) : i < Len(text) /\ \E stop \in Stops : Found(text, i, stop)
           /\ \A i \in Nat : (\E stop \in Stops : Found(text, i, stop)) => i \in Hits(text)
<1>1. \A i : i \in Hits(text) <=> \E stop \in Stops : i \in FindAll(text, stop)
  BY Zenon DEF Hits
<1>2. ASSUME NEW stop \in Stops, NEW i \in FindAll(text, stop)
      PROVE  i \in Nat /\ i < Len(text) /\ Found(text, i, stop)
  <2>1. stop \in Seq(Chars) /\ Len(stop) \in Nat \ {0}
    BY StopText, Zenon
  <2>2. i \in 0 .. Len(text) - Len(stop)
    BY Zenon DEF FindAll
  <2>3. i \in Nat /\ i < Len(text)
    BY <2>1, <2>2
  <2>. QED
    BY <2>1, <2>3, FoundThere, Zenon
<1>3. ASSUME NEW stop \in Stops, NEW i \in Nat, Found(text, i, stop)
      PROVE  i \in FindAll(text, stop)
  BY <1>3, StopText, FoundThere, Zenon
<1>. QED
  BY <1>1, <1>2, <1>3, Zenon

LEMMA HeldBack ==
    ASSUME <<>> \notin Stops, NEW text \in Seq(Chars)
    PROVE  /\ HeldBackLen(text) \in Nat /\ HeldBackLen(text) <= Len(text)
           /\ \A i \in 0 .. Len(text) - 1, stop \in Stops :
                Claims(text, i, stop) => HeldBackLen(text) <= i
           /\ HeldBackLen(text) < Len(text) =>
                \E stop \in Stops : Claims(text, HeldBackLen(text), stop)
<1>1. PICK n \in Nat : n = Len(text)
  OBVIOUS
<1>2. PICK claimed : claimed = {start \in 0 .. n - 1 :
                      \E stop \in Stops : StartsWith(stop, SubSeq(text, start + 1, Len(text)))}
  BY Zenon
<1>3. \A i : i \in claimed <=> i \in 0 .. n - 1 /\ \E stop \in Stops : Claims(text, i, stop)
  <2>1. ASSUME NEW i \in 0 .. n - 1, NEW stop \in Stops
        PROVE  StartsWith(stop, SubSeq(text, i + 1, Len(text))) <=> Claims(text, i, stop)
    <3>1. i \in Nat /\ i <= Len(text) /\ stop \in Seq(Chars)
      BY <1>1, StopText
    <3>. QED
      BY <3>1, ClaimsThere, Zenon
  <2>. QED
    BY <1>2, <2>1, Zenon
<1>4. PICK S : S = claimed \cup {n}
  BY Zenon
<1>5. S \in SUBSET Nat /\ S # {}
  BY <1>3, <1>4
<1>6. PICK h : h = First(S)
  BY Zenon
<1>7. h \in S /\ \A x \in S : h <= x
  BY <1>5, <1>6, FirstIn, Zenon
<1>8. HeldBackLen(text) = h
  BY <1>1, <1>2, <1>4, <1>6, Zenon DEF HeldBackLen
<1>. QED
  BY <1>1, <1>3, <1>4, <1>5, <1>7, <1>8

\* Text that follows can complete a stop string no earlier than where text was
\* held back.
LEMMA NoEarlierHit ==
    ASSUME <<>> \notin Stops, NEW t \in Seq(Chars), NEW text \in Seq(Chars), Agree(t, text, Len(t)), Hits(t) = {},
           NEW i \in Hits(text)
    PROVE  HeldBackLen(t) <= i
<1>1. i \in Nat /\ \E stop \in Stops : Found(text, i, stop)
  BY HitsAre, Zenon
<1>2. PICK stop \in Stops : Found(text, i, stop)
  BY <1>1, Zenon
<1>3. PICK n \in Nat, l \in Nat, h \in Nat : n = Len(t) /\ l = Len(stop) /\ h = HeldBackLen(t)
  BY StopText, HeldBack
<1>4. h <= n
  BY <1>3, HeldBack, Zenon
<1>5. n <= Len(text) /\ \A k \in 1 .. n : text[k] = t[k]
  BY <1>3, Zenon DEF Agree
<1>6. i + l <= Len(text) /\ \A k \in 1 .. l : text[i + k] = stop[k]
  BY <1>2, <1>3, Zenon DEF Found
<1>7. CASE i + l <= n
  <2>1. \A k \in 1 .. l : t[i + k] = stop[k]
    BY <1>1, <1>5, <1>6, <1>7
  <2>2. Found(t, i, stop)
    BY <1>3, <1>7, <2>1, Zenon DEF Found
  <2>. QED
    BY <1>1, <2>2, HitsAre, Zenon
<1>8. CASE n < i + l /\ i < n
  <2>1. n - i <= l /\ \A k \in 1 .. n - i : t[i + k] = stop[k]
    BY <1>1, <1>5, <1>6, <1>8
  <2>2. Claims(t, i, stop)
    BY <1>3, <2>1, Zenon DEF Claims
  <2>3. i \in 0 .. Len(t) - 1
    BY <1>1, <1>3, <1>8
  <2>. QED
    BY <2>2, <2>3, HeldBack, Zenon
<1>9. CASE n <= i
  BY <1>1, <1>3, <1>4, <1>9
<1>. QED
  BY <1>1, <1>3, <1>7, <1>8, <1>9

\* held_back_len returns just what a stop string could still reach into.
LEMMA HeldBackExact ==
    ASSUME <<>> \notin Stops, NEW text \in Seq(Chars), Hits(text) = {}
    PROVE  HeldBackLen(text)
             = First({Len(text)} \cup UNION {Hits(text \o c) : c \in Continuations})
<1>1. PICK n \in Nat, h \in Nat : n = Len(text) /\ h = HeldBackLen(text)
  BY HeldBack
<1>2. PICK S : S = {n} \cup UNION {Hits(text \o c) : c \in Continuations}
  BY Zenon
<1>3. ASSUME NEW c \in Continuations
      PROVE  /\ c \in Seq(Chars) /\ text \o c \in Seq(Chars)
             /\ Hits(text \o c) \in SUBSET Nat /\ \A x \in Hits(text \o c) : h <= x
  <2>1. PICK m : c \in [1 .. m -> Chars] /\ m \in UNION {0 .. Len(stop) - 1 : stop \in Stops}
    BY Zenon DEF Continuations
  <2>2. PICK stop \in Stops : m \in 0 .. Len(stop) - 1
    BY <2>1, Zenon
  <2>3. m \in Nat
    BY <2>2, StopText
  <2>4. c \in Seq(Chars)
    BY <2>1, <2>3
  <2>5. PICK u : u = text \o c
    BY Zenon
  <2>6. u \in Seq(Chars) /\ Len(text) <= Len(u) /\ \A i \in 1 .. Len(text) : u[i] = text[i]
    BY <2>4, <2>5
  <2>7. Agree(text, u, Len(text))
    BY <2>6 DEF Agree
  <2>8. Hits(u) \in SUBSET Nat /\ \A x \in Hits(u) : h <= x
    BY <1>1, <2>6, <2>7, HitsAre, NoEarlierHit, Zenon
  <2>. QED
    BY <2>4, <2>5, <2>6, <2>8, Zenon
<1>4. \A x \in S : x \in Nat /\ h <= x
  <2>1. h <= n
    BY <1>1, HeldBack
  <2>. QED
    BY <1>2, <1>3, <2>1
<1>5. h \in S
  <2>1. CASE h = n
    BY <1>2, <2>1
  <2>2. CASE h < n
    <3>1. PICK stop \in Stops : Claims(text, h, stop)
      BY <1>1, <2>2, HeldBack
    <3>2. PICK l \in Nat : l = Len(stop) /\ stop \in Seq(Chars)
      BY StopText, Zenon
    <3>3. n - h <= l /\ \A k \in 1 .. n - h : text[h + k] = stop[k]
      BY <1>1, <3>1, <3>2 DEF Claims
    <3>4. PICK m \in 0 .. l - 1 : m = l - (n - h)
      BY <2>2, <3>3
    <3>5. PICK c : c = [k \in 1 .. m |-> stop[(n - h) + k]]
      BY Zenon
    <3>6. c \in [1 .. m -> Chars] /\ \A k \in 1 .. m : c[k] = stop[(n - h) + k]
      BY <2>2, <3>2, <3>3, <3>4, <3>5
    <3>7. c \in Continuations
      <4>1. m \in 0 .. Len(stop) - 1
        BY <3>2, <3>4, Zenon
      <4>. QED
        BY <3>6, <4>1, Zenon DEF Continuations
    <3>8. PICK u : u = text \o c
      BY Zenon
    <3>9. c \in Seq(Chars) /\ Len(c) = m
      BY <3>6
    <3>10. /\ u \in Seq(Chars) /\ Len(u) = n + m
           /\ \A k \in 1 .. n + m : u[k] = IF k <= n THEN text[k] ELSE c[k - n]
      <4>1. /\ u \in Seq(Chars) /\ Len(u) = Len(text) + Len(c)
            /\ \A k \in 1 .. Len(text) + Len(c) :
                 u[k] = IF k <= Len(text) THEN text[k] ELSE c[k - Len(text)]
        BY <3>8, <3>9, ConcatProperties, Zenon
      <4>. QED
        BY <1>1, <3>9, <4>1, Zenon
    <3>11. Found(u, h, stop)
      <4>1. h + l <= Len(u)
        BY <3>4, <3>10
      <4>2. ASSUME NEW k \in 1 .. l PROVE u[h + k] = stop[k]
        <5>1. CASE k <= n - h
          BY <2>2, <3>3, <3>4, <3>10, <5>1
        <5>2. CASE k > n - h
          <6>1. PICK j \in 1 .. m : j = k - (n - h)
            BY <3>4, <5>2
          <6>2. (n - h) + j = k /\ (h + k) - n = j /\ h + k \in 1 .. n + m /\ ~(h + k <= n)
            BY <3>4, <5>2, <6>1
          <6>3. u[h + k] = c[(h + k) - n]
            BY <3>10, <6>2, Zenon
          <6>. QED
            BY <3>6, <6>2, <6>3, Zenon
        <5>. QED
          BY <3>4, <5>1, <5>2
      <4>. QED
        BY <3>2, <4>1, <4>2, Zenon DEF Found
    <3>12. h \in Hits(u)
      BY <3>10, <3>11, HitsAre, Zenon
    <3>. QED
      BY <1>2, <3>7, <3>8, <3>12, Zenon
  <2>. QED
    BY <1>1, <2>1, <2>2, HeldBack
<1>6. First(S) \in S /\ \A x \in S : First(S) <= x
  <2>1. S \in SUBSET Nat /\ S # {}
    BY <1>4, <1>5
  <2>. QED
    BY <2>1, FirstIn, Zenon
<1>7. h = First(S)
  <2>1. PICK m : m = First(S)
    OBVIOUS
  <2>2. m \in S /\ m <= h
    BY <1>5, <1>6, <2>1, Zenon
  <2>3. m \in Nat /\ h <= m
    BY <1>4, <2>2
  <2>. QED
    BY <2>1, <2>2, <2>3
<1>. QED
  BY <1>1, <1>2, <1>7, Zenon

-----------------------------------------------------------------------------
(* push_token.                                                             *)

\* A cut of the text to which the emission has been faithful: it holds no stop
\* string, does not end inside a character, and nothing beyond what it lets go
\* has been sent.
SafeCut(text, e, n) ==
    /\ e <= n /\ n <= Len(Settled(text)) /\ (n = 0 \/ text[n] # Broken)
    /\ Hits(SubSeq(text, 1, n)) = {} /\ e <= HeldBackLen(SubSeq(text, 1, n))
Safe(text, e) == \E n \in Nat : SafeCut(text, e, n)

EmitInv ==
    /\ generated \in Seq(Tokens) /\ Text \in Seq(Chars)
    /\ emitted \in Nat /\ emitted <= Len(Text) /\ sent = SubSeq(Text, 1, emitted)
    /\ fate = "open" => Len(generated) <= Budget
    /\ kind = "native" /\ fate = "open" =>
          IF <<>> \in Stops THEN emitted = 0 ELSE Safe(Text, emitted)
    /\ kind = "other" => emitted = Len(Text) /\ fate # "stop"
    /\ fate = "stop" => Hits(Text) # {} /\ emitted = First(Hits(Text))

\* What a step may do to the text sent.
Grows == \E d \in Seq(Chars) : sent' = sent \o d /\ (fate # "open" => d = <<>>)

LEMMA Decoded ==
    ASSUME NEW tokens \in Seq(Tokens), Len(tokens) <= Budget, NEW token \in Tokens
    PROVE  /\ Decode(Append(tokens, token)) \in Seq(Chars)
           /\ StartsWith(Decode(Append(tokens, token)), Settled(Decode(tokens)))
           /\ token \in Pieces => Decode(Append(tokens, token)) = Decode(tokens) \o token
<1>1. PICK n \in 0 .. Budget : n = Len(tokens)
  BY EmissionConstants
<1>2. tokens \in [1 .. n -> Tokens]
  BY <1>1
<1>. QED
  BY <1>2, DecodeExtends, Zenon

LEMMA SettledIs ==
    ASSUME NEW text \in Seq(Chars)
    PROVE  /\ Settled(text) \in Seq(Chars) /\ Len(Settled(text)) <= Len(text)
           /\ \A i \in 1 .. Len(Settled(text)) : Settled(text)[i] = text[i]
           /\ \A n \in Nat : /\ n <= Len(text) /\ (n = 0 \/ text[n] # Broken)
                             => n <= Len(Settled(text))
<1>1. PICK l \in Nat : l = Len(text)
  OBVIOUS
<1>2. CASE text # <<>> /\ text[l] = Broken
  <2>1. PICK m \in Nat : m = l - 1
    <3>1. l - 1 \in Nat
      BY <1>1, <1>2
    <3>. QED
      BY <3>1, Zenon
  <2>2. PICK t : t = SubSeq(text, 0 + 1, m)
    BY Zenon
  <2>3. t \in Seq(Chars) /\ Len(t) = (IF 0 <= m THEN m - 0 ELSE 0)
        /\ \A i \in 1 .. m - 0 : t[i] = text[0 + i]
    BY <1>1, <2>1, <2>2, Sub
  <2>4. t \in Seq(Chars) /\ Len(t) = m /\ \A i \in 1 .. m : t[i] = text[i]
    BY <2>3
  <2>5. Settled(text) = t
    <3>1. 0 + 1 = 1
      OBVIOUS
    <3>. QED
      BY <1>1, <1>2, <2>1, <2>2, <3>1, Zenon DEF Settled
  <2>. QED
    BY <1>1, <1>2, <2>1, <2>4, <2>5
<1>3. CASE ~(text # <<>> /\ text[l] = Broken)
  <2>1. Settled(text) = text
    BY <1>1, <1>3, Zenon DEF Settled
  <2>. QED
    BY <2>1
<1>. QED
  BY <1>2, <1>3, Zenon

LEMMA PrefixAgrees ==
    ASSUME NEW s \in Seq(Chars), NEW p \in Seq(Chars), StartsWith(s, p)
    PROVE  Agree(p, s, Len(p))
<1>1. PICK q \in Nat : q = Len(p)
  OBVIOUS
<1>2. q <= Len(s) /\ SubSeq(s, 0 + 1, q) = p
  <2>1. 0 + 1 = 1
    OBVIOUS
  <2>. QED
    BY <1>1, <2>1, Zenon DEF StartsWith
<1>3. \A i \in 1 .. q - 0 : SubSeq(s, 0 + 1, q)[i] = s[0 + i]
  BY <1>2, Sub
<1>4. \A i \in 1 .. q : p[i] = s[i]
  BY <1>2, <1>3
<1>. QED
  BY <1>1, <1>2, <1>4 DEF Agree

\* Sending on from e to m.
LEMMA Cut ==
    ASSUME NEW x \in Seq(Chars), NEW e \in Nat, NEW m \in Nat, m <= Len(x), e <= Len(x)
    PROVE  /\ SubSeq(x, e + 1, m) \in Seq(Chars)
           /\ SubSeq(x, 1, e) \o SubSeq(x, e + 1, m) = SubSeq(x, 1, IF m > e THEN m ELSE e)
<1>1. SubSeq(x, e + 1, m) \in Seq(Chars)
  BY Sub, Zenon
<1>2. CASE m > e
  <2>1. PICK a, b, c : a = SubSeq(x, 0 + 1, e) /\ b = SubSeq(x, e + 1, m) /\ c = SubSeq(x, 0 + 1, m)
    BY Zenon
  <2>2. /\ a \in Seq(Chars) /\ Len(a) = e /\ \A i \in 1 .. e : a[i] = x[0 + i]
        /\ b \in Seq(Chars) /\ Len(b) = m - e /\ \A i \in 1 .. m - e : b[i] = x[e + i]
        /\ c \in Seq(Chars) /\ Len(c) = m /\ \A i \in 1 .. m : c[i] = x[0 + i]
    BY <1>2, <2>1, Sub
  <2>3. PICK u : u = a \o b
    BY Zenon
  <2>4. /\ u \in Seq(Chars) /\ Len(u) = m
        /\ \A i \in 1 .. m : u[i] = IF i <= e THEN a[i] ELSE b[i - e]
    BY <1>2, <2>2, <2>3, ConcatProperties
  <2>5. ASSUME NEW i \in 1 .. m PROVE u[i] = c[i]
    <3>1. CASE i <= e
      BY <2>2, <2>4, <3>1
    <3>2. CASE ~(i <= e)
      <4>1. PICK j \in 1 .. m - e : j = i - e
        BY <3>2
      <4>2. u[i] = b[j]
        BY <2>4, <3>2, <4>1
      <4>3. b[j] = x[e + j] /\ e + j = i
        BY <2>2, <4>1
      <4>4. c[i] = x[0 + i] /\ 0 + i = i
        BY <2>2
      <4>. QED
        BY <4>2, <4>3, <4>4, Zenon
    <3>. QED
      BY <3>1, <3>2, Zenon
  <2>6. u = c
    BY <2>2, <2>4, <2>5, SeqEqual, Zenon
  <2>7. 0 + 1 = 1
    OBVIOUS
  <2>8. SubSeq(x, 1, e) \o SubSeq(x, e + 1, m) = SubSeq(x, 1, m)
    BY <2>1, <2>3, <2>6, <2>7, Zenon
  <2>. QED
    BY <1>1, <1>2, <2>8, Zenon
<1>3. CASE ~(m > e)
  <2>1. PICK d : d = SubSeq(x, e + 1, m)
    BY Zenon
  <2>2. d = <<>>
    <3>1. e + 1 \in Int /\ m \in Int /\ m < e + 1
      BY <1>3
    <3>. QED
      BY <2>1, <3>1, SubSeqEmpty, Zenon
  <2>3. SubSeq(x, 0 + 1, e) \in Seq(Chars) /\ 0 + 1 = 1
    BY Sub
  <2>4. SubSeq(x, 1, e) \o <<>> = SubSeq(x, 1, e)
    BY <2>3, ConcatEmptySeq, Zenon
  <2>. QED
    BY <1>1, <1>3, <2>1, <2>2, <2>4, Zenon
<1>. QED
  BY <1>2, <1>3, Zenon

\* A safe cut stays one as the text goes on.
LEMMA SafeGoesOn ==
    ASSUME NEW text \in Seq(Chars), NEW x \in Seq(Chars), StartsWith(x, Settled(text)),
           NEW e \in Nat, NEW n \in Nat, SafeCut(text, e, n)
    PROVE  /\ SafeCut(x, e, n) /\ n <= Len(x)
           /\ Agree(SubSeq(x, 1, n), x, Len(SubSeq(x, 1, n)))
           /\ SubSeq(text, 1, e) = SubSeq(x, 1, e)
<1>1. PICK t : t = Settled(text)
  BY Zenon
<1>2. t \in Seq(Chars) /\ Len(t) <= Len(text) /\ \A i \in 1 .. Len(t) : t[i] = text[i]
  BY <1>1, SettledIs
<1>3. Agree(t, x, Len(t))
  BY <1>1, <1>2, PrefixAgrees
<1>4. e <= n /\ n <= Len(t) /\ (n = 0 \/ text[n] # Broken)
  BY <1>1, Zenon DEF SafeCut
<1>5. n <= Len(x) /\ \A i \in 1 .. n : x[i] = text[i]
  BY <1>2, <1>3, <1>4 DEF Agree
<1>6. Agree(text, x, n) /\ Agree(text, x, e)
  BY <1>2, <1>4, <1>5 DEF Agree
<1>7. SubSeq(text, 1, n) = SubSeq(x, 1, n) /\ SubSeq(text, 1, e) = SubSeq(x, 1, e)
  <2>1. 0 \in Nat /\ 0 + 1 = 1
    OBVIOUS
  <2>2. SubSeq(text, 0 + 1, n) = SubSeq(x, 0 + 1, n)
    BY <1>6, <2>1, SubSame, Zenon
  <2>3. SubSeq(text, 0 + 1, e) = SubSeq(x, 0 + 1, e)
    BY <1>6, <2>1, SubSame, Zenon
  <2>. QED
    BY <2>1, <2>2, <2>3, Zenon
<1>8. n <= Len(Settled(x)) /\ (n = 0 \/ x[n] # Broken)
  <2>1. n = 0 \/ x[n] # Broken
    BY <1>4, <1>5
  <2>. QED
    BY <1>5, <2>1, SettledIs, Zenon
<1>9. SafeCut(x, e, n)
  BY <1>4, <1>7, <1>8, Zenon DEF SafeCut
<1>10. Agree(SubSeq(x, 1, n), x, Len(SubSeq(x, 1, n)))
  <2>1. PICK c : c = SubSeq(x, 0 + 1, n)
    BY Zenon
  <2>2. Len(c) = (IF 0 <= n THEN n - 0 ELSE 0) /\ \A i \in 1 .. n - 0 : c[i] = x[0 + i]
    BY <1>5, <2>1, Sub
  <2>3. Agree(c, x, Len(c))
    BY <1>5, <2>2 DEF Agree
  <2>4. 0 + 1 = 1
    OBVIOUS
  <2>. QED
    BY <2>1, <2>3, <2>4, Zenon
<1>. QED
  BY <1>5, <1>7, <1>9, <1>10, Zenon

LEMMA EosEmits ==
    ASSUME EmitInv, PushEos, UNCHANGED kind
    PROVE  EmitInv' /\ Grows
<1>1. Text' = Text
  BY Zenon DEF PushEos, Text
<1>2. EmitInv'
  BY <1>1 DEF EmitInv, PushEos
<1>3. sent \in Seq(Chars)
  <2>1. SubSeq(Text, 0 + 1, emitted) \in Seq(Chars) /\ 0 + 1 = 1
    BY Sub DEF EmitInv
  <2>. QED
    BY <2>1, Zenon DEF EmitInv
<1>4. sent' = sent \o <<>> /\ <<>> \in Seq(Chars)
  BY <1>3, ConcatEmptySeq DEF PushEos
<1>. QED
  BY <1>2, <1>4, Zenon DEF Grows

\* push_token, when no stop string is empty.
LEMMA StopsEmit ==
    ASSUME EmitInv, kind = "native", kind' = kind, NEW token \in Tokens, PushToken(token),
           <<>> \notin Stops
    PROVE  EmitInv' /\ Grows
<1>1. PICK tokens, x, text : tokens = Append(generated, token) /\ x = Decode(tokens) /\ text = Text
  BY Zenon
<1>2. PICK e \in Nat : e = emitted
  BY DEF EmitInv
<1>3. fate = "open" /\ generated' = tokens /\ Text' = x
  BY <1>1 DEF PushToken, Text
<1>4. /\ generated \in Seq(Tokens) /\ text \in Seq(Chars) /\ e <= Len(text)
      /\ sent = SubSeq(text, 1, e) /\ Len(generated) <= Budget
  BY <1>1, <1>2, <1>3, Zenon DEF EmitInv
<1>5. PICK n \in Nat : SafeCut(text, e, n)
  BY <1>1, <1>2, <1>3, Zenon DEF EmitInv, Safe
<1>6. x \in Seq(Chars) /\ StartsWith(x, Settled(text)) /\ tokens \in Seq(Tokens)
  <2>1. x \in Seq(Chars) /\ StartsWith(x, Settled(text))
    BY <1>1, <1>4, Decoded, Zenon DEF Text
  <2>. QED
    BY <1>1, <1>4, <2>1
<1>7. PICK t : t = SubSeq(x, 1, n)
  BY Zenon
<1>8. SafeCut(x, e, n) /\ n <= Len(x) /\ Agree(t, x, Len(t)) /\ sent = SubSeq(x, 1, e)
  BY <1>4, <1>5, <1>6, <1>7, SafeGoesOn, Zenon
<1>9. e <= n /\ e <= Len(x) /\ Hits(t) = {} /\ e <= HeldBackLen(t) /\ t \in Seq(Chars)
  <2>1. SubSeq(x, 0 + 1, n) \in Seq(Chars) /\ 0 + 1 = 1
    BY <1>6, <1>8, Sub
  <2>. QED
    BY <1>6, <1>7, <1>8, <2>1 DEF SafeCut
<1>10. ASSUME NEW m \in Nat, m <= Len(x), SendUpTo(x, m)
       PROVE  /\ emitted' = (IF m > e THEN m ELSE e) /\ sent' = SubSeq(x, 1, emitted')
              /\ emitted' \in Nat /\ emitted' <= Len(x) /\ Grows
  <2>1. sent' = sent \o SubSeq(x, e + 1, m) /\ emitted' = IF m > e THEN m ELSE e
    BY <1>2, <1>10, Zenon DEF SendUpTo
  <2>2. /\ SubSeq(x, e + 1, m) \in Seq(Chars)
        /\ SubSeq(x, 1, e) \o SubSeq(x, e + 1, m) = SubSeq(x, 1, IF m > e THEN m ELSE e)
    BY <1>6, <1>9, <1>10, Cut, Zenon
  <2>3. sent' = SubSeq(x, 1, emitted')
    BY <1>8, <2>1, <2>2, Zenon
  <2>4. Grows
    BY <1>3, <2>1, <2>2, Zenon DEF Grows
  <2>5. emitted' \in Nat /\ emitted' <= Len(x)
    BY <1>9, <1>10, <2>1
  <2>. QED
    BY <2>1, <2>3, <2>4, <2>5, Zenon
<1>11. CASE Hits(x) # {} /\ SendUpTo(x, First(Hits(x))) /\ fate' = "stop"
  <2>1. PICK m : m = First(Hits(x))
    OBVIOUS
  <2>2. m \in Hits(x) /\ Hits(x) \in SUBSET Nat
    BY <1>6, <1>11, <2>1, HitsAre, FirstIn
  <2>3. m \in Nat /\ m <= Len(x)
    BY <1>6, <2>2, HitsAre
  <2>4. HeldBackLen(t) <= m /\ HeldBackLen(t) \in Nat
    BY <1>6, <1>8, <1>9, <2>2, NoEarlierHit, HeldBack, Zenon
  <2>5. e <= m
    BY <1>9, <2>3, <2>4
  <2>6. emitted' = m /\ sent' = SubSeq(x, 1, emitted') /\ Grows
    BY <1>10, <1>11, <2>1, <2>3, <2>5
  <2>. QED
    BY <1>3, <1>6, <1>11, <2>1, <2>3, <2>6, Zenon DEF EmitInv
<1>12. CASE Hits(x) = {} /\ Spent(tokens) /\ SendUpTo(x, Len(x)) /\ fate' = "length"
  <2>1. emitted' \in Nat /\ emitted' <= Len(x) /\ sent' = SubSeq(x, 1, emitted') /\ Grows
    BY <1>6, <1>10, <1>12
  <2>. QED
    BY <1>3, <1>6, <1>12, <2>1 DEF EmitInv
<1>13. ASSUME NEW m \in Nat, m <= Len(x), SendUpTo(x, m), Hits(x) = {}, ~Spent(tokens),
              fate' = "open", m = e \/ (m = HeldBackLen(x) /\ x[Len(x)] # Broken /\ Len(x) > e)
       PROVE  EmitInv' /\ Grows
  <2>1. /\ emitted' = (IF m > e THEN m ELSE e) /\ sent' = SubSeq(x, 1, emitted')
        /\ emitted' \in Nat /\ emitted' <= Len(x) /\ Grows
    BY <1>10, <1>13
  <2>2. Len(tokens) <= Budget
    BY <1>6, <1>13, EmissionConstants DEF Spent
  <2>3. Safe(x, emitted')
    <3>1. CASE emitted' = e
      BY <1>8, <3>1, Zenon DEF Safe
    <3>2. CASE emitted' = m /\ m > e
      <4>1. PICK l \in Nat : l = Len(x) /\ SubSeq(x, 1, l) = x
        BY <1>6, SubSeqFull
      <4>2. l <= Len(Settled(x)) /\ (l = 0 \/ x[l] # Broken)
        BY <1>6, <1>13, <3>2, <4>1, SettledIs
      <4>3. SafeCut(x, m, l)
        <5>1. m = HeldBackLen(x) /\ m <= m /\ m <= l
          BY <1>13, <3>2, <4>1
        <5>. QED
          BY <1>13, <4>1, <4>2, <5>1, Zenon DEF SafeCut
      <4>. QED
        BY <3>2, <4>1, <4>3, Zenon DEF Safe
    <3>. QED
      BY <2>1, <3>1, <3>2, Zenon
  <2>. QED
    BY <1>3, <1>6, <1>13, <2>1, <2>2, <2>3, Zenon DEF EmitInv
<1>14. ASSUME NEW m, SendUpTo(x, m), Hits(x) = {}, ~Spent(tokens), fate' = "open",
              m = IF Len(x) <= e \/ x[Len(x)] = Broken THEN e ELSE HeldBackLen(x)
       PROVE  EmitInv' /\ Grows
  <2>1. m \in Nat /\ m <= Len(x)
        /\ (m = e \/ (m = HeldBackLen(x) /\ x[Len(x)] # Broken /\ Len(x) > e))
    BY <1>6, <1>9, <1>14, HeldBack
  <2>. QED
    BY <1>13, <1>14, <2>1, Zenon
<1>15. \/ Hits(x) # {} /\ SendUpTo(x, First(Hits(x))) /\ fate' = "stop"
       \/ /\ Hits(x) = {} /\ ~Spent(tokens) /\ fate' = "open"
          /\ SendUpTo(x, IF Len(x) <= e \/ x[Len(x)] = Broken THEN e ELSE HeldBackLen(x))
       \/ Hits(x) = {} /\ Spent(tokens) /\ SendUpTo(x, Len(x)) /\ fate' = "length"
  BY <1>1, <1>2, Zenon DEF PushToken
<1>. QED
  BY <1>11, <1>12, <1>14, <1>15, Zenon

\* An empty stop string is found before the first character.
LEMMA EmptyStop ==
    ASSUME <<>> \in Stops, NEW text \in Seq(Chars)
    PROVE  0 \in Hits(text) /\ First(Hits(text)) = 0
<1>1. SubSeq(text, 0 + 1, 0 + Len(<<>>)) = <<>> /\ 0 \in 0 .. Len(text) - Len(<<>>)
  OBVIOUS
<1>2. 0 \in FindAll(text, <<>>)
  BY <1>1, Zenon DEF FindAll
<1>3. 0 \in Hits(text)
  BY <1>2, Zenon DEF Hits
<1>4. Hits(text) \in SUBSET Nat
  <2>1. ASSUME NEW stop \in Stops PROVE FindAll(text, stop) \subseteq Nat
    <3>1. FindAll(text, stop) \subseteq 0 .. Len(text) - Len(stop)
      BY Zenon DEF FindAll
    <3>2. stop \in Seq(Chars)
      BY EmissionConstants
    <3>3. 0 .. Len(text) - Len(stop) \subseteq Nat
      BY <3>2
    <3>. QED
      BY <3>1, <3>3, Zenon
  <2>. QED
    BY <2>1, Zenon DEF Hits
<1>5. First(Hits(text)) \in Hits(text) /\ First(Hits(text)) <= 0
  BY <1>3, <1>4, FirstIn, Zenon
<1>6. First(Hits(text)) \in Nat
  BY <1>4, <1>5, Zenon
<1>. QED
  BY <1>3, <1>5, <1>6

LEMMA EmptyStopEmits ==
    ASSUME EmitInv, kind = "native", kind' = kind, NEW token \in Tokens, PushToken(token),
           <<>> \in Stops
    PROVE  EmitInv' /\ Grows
<1>1. PICK tokens, x : tokens = Append(generated, token) /\ x = Decode(tokens)
  BY Zenon
<1>2. fate = "open" /\ generated' = tokens /\ Text' = x
  BY <1>1, Zenon DEF PushToken, Text
<1>3. generated \in Seq(Tokens) /\ emitted = 0 /\ sent = SubSeq(Text, 1, 0) /\ Len(generated) <= Budget
  BY <1>2, Zenon DEF EmitInv
<1>4. x \in Seq(Chars) /\ tokens \in Seq(Tokens)
  <2>1. x \in Seq(Chars)
    BY <1>1, <1>3, Decoded, Zenon
  <2>. QED
    BY <1>1, <1>3, <2>1
<1>5. 0 \in Hits(x) /\ First(Hits(x)) = 0
  BY <1>4, EmptyStop
<1>6. SendUpTo(x, 0) /\ fate' = "stop"
  BY <1>1, <1>5, Zenon DEF PushToken
<1>7. sent' = sent \o SubSeq(x, 0 + 1, 0) /\ emitted' = 0
  BY <1>3, <1>6 DEF SendUpTo
<1>8. sent = <<>> /\ SubSeq(x, 0 + 1, 0) = <<>> /\ SubSeq(x, 1, 0) = <<>> /\ <<>> \in Seq(Chars)
  BY <1>3
<1>9. sent' = <<>>
  BY <1>7, <1>8
<1>10. Grows
  BY <1>2, <1>7, <1>8, Zenon DEF Grows
<1>11. 0 \in Nat /\ 0 <= Len(x)
  BY <1>4
<1>12. EmitInv'
  BY <1>2, <1>4, <1>5, <1>6, <1>7, <1>8, <1>9, <1>11 DEF EmitInv
<1>. QED
  BY <1>10, <1>12

LEMMA TokenEmits ==
    ASSUME EmitInv, kind = "native", kind' = kind, NEW token \in Tokens, PushToken(token)
    PROVE  EmitInv' /\ Grows
BY StopsEmit, EmptyStopEmits, Zenon

LEMMA OtherEmits ==
    ASSUME EmitInv, NEW what \in OtherFrames, NEW token \in Pieces, OtherFrame(what, token)
    PROVE  EmitInv' /\ Grows
<1>1. PICK text, d : text = Text /\ d = IF what \in {"chunk", "last"} THEN token ELSE <<>>
  BY Zenon
<1>2. /\ kind = "other" /\ kind' = kind /\ sent' = sent \o d /\ emitted' = Len(sent')
      /\ generated' = (IF d = <<>> THEN generated ELSE Append(generated, token))
      /\ what \in {"chunk", "last"} => fate = "open" /\ Len(generated) < Budget
      /\ fate' \in {fate, "finished"}
  BY <1>1, Zenon DEF OtherFrame, config
<1>3. /\ generated \in Seq(Tokens) /\ text \in Seq(Chars) /\ emitted = Len(text)
      /\ sent = SubSeq(text, 1, emitted) /\ fate # "stop"
      /\ fate = "open" => Len(generated) <= Budget
  BY <1>1, <1>2 DEF EmitInv
<1>4. sent = text
  BY <1>3, SubSeqFull, Zenon
<1>5. d \in Seq(Chars) /\ token \in Seq(Chars) /\ token \in Tokens
  <2>1. token \in Seq(Chars) /\ token \in Tokens /\ <<>> \in Seq(Chars)
    BY EmissionConstants DEF Tokens
  <2>. QED
    BY <1>1, <2>1, Zenon
<1>6. Grows
  <2>1. fate # "open" => d = <<>>
    BY <1>1, <1>2, Zenon
  <2>. QED
    BY <1>2, <1>5, <2>1, Zenon DEF Grows
<1>7. Text' = sent' /\ generated' \in Seq(Tokens) /\ (fate = "open" => Len(generated') <= Budget)
  <2>1. CASE d = <<>>
    <3>1. generated' = generated /\ sent' = sent
      BY <1>2, <1>3, <1>4, <2>1, ConcatEmptySeq, Zenon
    <3>. QED
      BY <1>1, <1>3, <1>4, <3>1, Zenon DEF Text
  <2>2. CASE d # <<>>
    <3>1. /\ generated' = Append(generated, token) /\ d = token /\ Len(generated) < Budget
          /\ fate = "open"
      BY <1>1, <1>2, <2>2, Zenon
    <3>2. Decode(Append(generated, token)) = Decode(generated) \o token
      BY <1>3, <1>5, <3>1, Decoded, Zenon
    <3>3. Text' = sent'
      BY <1>1, <1>2, <1>4, <3>1, <3>2, Zenon DEF Text
    <3>4. Len(generated') <= Budget /\ generated' \in Seq(Tokens)
      BY <1>3, <1>5, <3>1, EmissionConstants
    <3>. QED
      BY <3>3, <3>4, Zenon
  <2>. QED
    BY <2>1, <2>2
<1>8. sent' \in Seq(Chars)
  BY <1>2, <1>3, <1>4, <1>5
<1>9. sent' = SubSeq(sent', 1, Len(sent')) /\ Len(sent') \in Nat
  BY <1>8, SubSeqFull
<1>10. EmitInv'
  <2>1. fate' = "open" => fate = "open"
    BY <1>2
  <2>. QED
    <3>1. /\ Text' \in Seq(Chars) /\ emitted' \in Nat /\ emitted' <= Len(Text')
          /\ sent' = SubSeq(Text', 1, emitted') /\ emitted' = Len(Text')
      BY <1>2, <1>7, <1>8, <1>9
    <3>2. kind' = "other" /\ kind' # "native" /\ fate' # "stop"
      BY <1>2, <1>3, Zenon
    <3>. QED
      BY <1>7, <2>1, <3>1, <3>2, Zenon DEF EmitInv
<1>. QED
  BY <1>6, <1>10

\* Steps that do not touch the text, at most end the sequence short.
LEMMA EmitsNothing ==
    ASSUME EmitInv, UNCHANGED <<generated, emitted, sent, kind>>,
           fate' = fate \/ fate' \in {"gone", "error"}
    PROVE  EmitInv' /\ Grows
<1>1. Text' = Text
  BY Zenon DEF Text
<1>2. EmitInv'
  BY <1>1 DEF EmitInv
<1>3. sent \in Seq(Chars)
  <2>1. SubSeq(Text, 0 + 1, emitted) \in Seq(Chars) /\ 0 + 1 = 1
    BY Sub DEF EmitInv
  <2>. QED
    BY <2>1, Zenon DEF EmitInv
<1>4. sent' = sent \o <<>> /\ <<>> \in Seq(Chars)
  BY <1>3, ConcatEmptySeq
<1>. QED
  BY <1>2, <1>4, Zenon DEF Grows

\* EmitInv is enough.
LEMMA EmitsExactly == ASSUME EmitInv PROVE StopCutsExactly
<1>1. PICK text, e : text = Text /\ e = emitted
  BY Zenon
<1>2. text \in Seq(Chars) /\ e \in Nat /\ e <= Len(text) /\ sent = SubSeq(text, 1, e)
  BY <1>1 DEF EmitInv
<1>3. Len(sent) = e
  <2>1. Len(SubSeq(text, 0 + 1, e)) = (IF 0 <= e THEN e - 0 ELSE 0) /\ 0 + 1 = 1
    BY <1>2, Sub
  <2>. QED
    BY <1>2, <2>1
<1>4. StartsWith(Text, sent)
  BY <1>1, <1>2, <1>3, Zenon DEF StartsWith
<1>5. fate = "stop" => sent = SubSeq(Text, 1, First(Hits(Text)))
  BY Zenon DEF EmitInv
<1>6. Hits(Text) = {} =>
        HeldBackLen(Text) = First({Len(Text)} \cup UNION {Hits(Text \o c) : c \in Continuations})
  <2>1. CASE <<>> \in Stops
    BY <1>1, <1>2, <2>1, EmptyStop, Zenon
  <2>2. CASE <<>> \notin Stops
    BY <1>1, <1>2, <2>2, HeldBackExact, Zenon
  <2>. QED
    BY <2>1, <2>2
<1>. QED
  BY <1>1, <1>3, <1>4, <1>5, <1>6, Zenon DEF StopCutsExactly

-----------------------------------------------------------------------------
(* The buffers of the path.                                                *)

LEMMA Moved ==
    ASSUME NEW X, NEW q1 \in Seq(X), NEW x \in X, NEW Y, NEW q2 \in Seq(Y), q2 # <<>>,
           NEW s \in Seq(Chars), NEW a, NEW b, NEW e, Spells(q1, s, a, b), Spells(q2, s, b, e),
           x.text = Head(q2).text
    PROVE  \E m \in Nat : Spells(Append(q1, x), s, a, m) /\ Spells(Tail(q2), s, m, e)
<1>1. PICK m \in Nat : /\ b <= m /\ m <= e /\ Head(q2).text = SubSeq(s, b + 1, m)
                       /\ Spells(Tail(q2), s, m, e)
  BY SpellsTail
<1>2. e \in Nat /\ e <= Len(s) /\ b \in Nat
  BY Bounds
<1>3. m <= Len(s)
  BY <1>1, <1>2
<1>4. Spells(Append(q1, x), s, a, m)
  BY <1>1, <1>3, SpellsAppend, Zenon
<1>. QED
  BY <1>1, <1>4, Zenon

LEMMA NoText ==
    ASSUME NEW s \in Seq(Chars), NEW b \in Nat, NEW m \in Nat, b <= m, m <= Len(s)
    PROVE  SubSeq(s, b + 1, m) = <<>> <=> b = m
<1>1. PICK t : t = SubSeq(s, b + 1, m)
  BY Zenon
<1>2. t \in Seq(Chars) /\ Len(t) = m - b
  BY <1>1, Sub, Zenon
<1>3. t = <<>> <=> b = m
  BY <1>2
<1>. QED
  BY <1>1, <1>3

LEMMA Padded ==
    ASSUME NEW X, NEW q \in Seq(X), NEW x \in X, x.text = <<>>,
           NEW s \in Seq(Chars), NEW a, NEW b, Spells(q, s, a, b)
    PROVE  Spells(Append(q, x), s, a, b)
<1>1. b \in Nat /\ b <= Len(s) /\ b <= b
  BY Bounds
<1>2. x.text = SubSeq(s, b + 1, b)
  BY <1>1, NoText
<1>. QED
  BY <1>1, <1>2, SpellsAppend, Zenon

LEMMA Skipped ==
    ASSUME NEW X, NEW q \in Seq(X), q # <<>>, Head(q).text = <<>>,
           NEW s \in Seq(Chars), NEW a, NEW b, Spells(q, s, a, b)
    PROVE  Spells(Tail(q), s, a, b)
<1>1. PICK m \in Nat : /\ a <= m /\ m <= b /\ Head(q).text = SubSeq(s, a + 1, m)
                       /\ Spells(Tail(q), s, m, b)
  BY SpellsTail
<1>2. a \in Nat /\ b \in Nat /\ b <= Len(s)
  BY Bounds
<1>3. m = a
  BY <1>1, <1>2, NoText
<1>. QED
  BY <1>1, <1>3

EngineFins == {"none", "stop", "length", "error"}
Failures == {"unavailable", "invalid", "internal"}
Item(fs) == [text : Seq(Chars), fin : fs]
Frames == [what : {"role", "chunk", "usage", "junk", "done"}, text : Seq(Chars), fin : EngineFins]

\* An item that carries the finish reason.
Marked(item) == item.fin \in {"stop", "length", "error"}
NoneIn(buf) == \A i \in DOMAIN buf : ~Marked(buf[i])
OneIn(buf) == \E i \in DOMAIN buf : Marked(buf[i]) /\ \A j \in DOMAIN buf : j # i => ~Marked(buf[j])
\* If there is one, it is the last of buf.
LastIn(buf) == \A i \in DOMAIN buf : Marked(buf[i]) => i = Len(buf)

LEMMA MarkAppended ==
    ASSUME NEW X, NEW q \in Seq(X), NEW x \in X
    PROVE  /\ NoneIn(q) /\ ~Marked(x) => NoneIn(Append(q, x))
           /\ NoneIn(q) /\ Marked(x) => OneIn(Append(q, x))
           /\ OneIn(q) /\ ~Marked(x) => OneIn(Append(q, x))
           /\ NoneIn(q) => LastIn(Append(q, x))
<1>0. PICK n \in Nat : n = Len(q)
  OBVIOUS
<1>1. PICK r : r = Append(q, x)
  BY Zenon
<1>2. /\ DOMAIN q = 1 .. n /\ DOMAIN r = 1 .. n + 1 /\ Len(r) = n + 1 /\ r[n + 1] = x
      /\ \A i \in 1 .. n : r[i] = q[i]
  BY <1>0, <1>1
<1>3. NoneIn(q) /\ ~Marked(x) => NoneIn(r)
  BY <1>2 DEF NoneIn
<1>4. NoneIn(q) /\ Marked(x) => OneIn(r)
  BY <1>2 DEF NoneIn, OneIn
<1>5. OneIn(q) /\ ~Marked(x) => OneIn(r)
  BY <1>2 DEF OneIn
<1>6. NoneIn(q) => LastIn(r)
  BY <1>2 DEF NoneIn, LastIn
<1>. QED
  BY <1>1, <1>3, <1>4, <1>5, <1>6, Zenon

LEMMA MarkTaken ==
    ASSUME NEW X, NEW q \in Seq(X), q # <<>>
    PROVE  /\ NoneIn(q) => NoneIn(Tail(q)) /\ ~Marked(Head(q))
           /\ OneIn(q) /\ Marked(Head(q)) => NoneIn(Tail(q))
           /\ OneIn(q) /\ ~Marked(Head(q)) => OneIn(Tail(q))
           /\ LastIn(q) => LastIn(Tail(q)) /\ (Marked(Head(q)) => Tail(q) = <<>>)
<1>0. PICK r : r = Tail(q)
  BY Zenon
<1>1. PICK n \in Nat : n + 1 = Len(q)
  <2>1. Len(q) - 1 \in Nat /\ (Len(q) - 1) + 1 = Len(q)
    OBVIOUS
  <2>. QED
    BY <2>1, Zenon
<1>2. /\ DOMAIN q = 1 .. n + 1 /\ DOMAIN r = 1 .. n /\ Len(r) = n /\ Head(q) = q[1]
      /\ \A i \in 1 .. n : r[i] = q[i + 1]
      /\ n = 0 => r = <<>>
  BY <1>0, <1>1
<1>3. NoneIn(q) => NoneIn(r) /\ ~Marked(q[1])
  BY <1>2 DEF NoneIn
<1>4. ASSUME OneIn(q), Marked(q[1]) PROVE NoneIn(r)
  <2>1. \A j \in 2 .. n + 1 : ~Marked(q[j])
    BY <1>2, <1>4 DEF OneIn
  <2>. QED
    BY <1>2, <2>1 DEF NoneIn
<1>5. ASSUME OneIn(q), ~Marked(q[1]) PROVE OneIn(r)
  <2>1. PICK i \in 1 .. n + 1 : Marked(q[i]) /\ \A j \in 1 .. n + 1 : j # i => ~Marked(q[j])
    BY <1>2, <1>5, Zenon DEF OneIn
  <2>2. PICK k \in 1 .. n : i = k + 1
    <3>1. i - 1 \in 1 .. n /\ i = (i - 1) + 1
      BY <1>5, <2>1
    <3>. QED
      BY <3>1, Zenon
  <2>3. Marked(r[k]) /\ \A j \in 1 .. n : j # k => ~Marked(r[j])
    BY <1>2, <2>1, <2>2
  <2>. QED
    BY <1>2, <2>3 DEF OneIn
<1>6. LastIn(q) => LastIn(r) /\ (Marked(q[1]) => r = <<>>)
  BY <1>1, <1>2 DEF LastIn
<1>. QED
  BY <1>0, <1>2, <1>3, <1>4, <1>5, <1>6, Zenon

LEMMA EmptyUnmarked == NoneIn(<<>>) /\ ~OneIn(<<>>) /\ LastIn(<<>>)
BY DEF NoneIn, OneIn, LastIn

-----------------------------------------------------------------------------
(* The inductive invariant.                                                *)

Types ==
    /\ sent \in Seq(Chars) /\ got \in Seq(Chars)
    /\ kind \in {"native", "other"} /\ surface \in {"http", "grpc"}
    /\ out \in Seq(Item(EngineFins)) /\ events \in Seq(Item(EngineFins))
    /\ body \in Seq(Frames) /\ bodyEnd \in {"open", "head", "eof", "reset"}
    /\ driver \in {"post", "read", "ok"} \cup Failures /\ saw \in BOOLEAN
    /\ pipe \in Seq(Item(EngineFins)) /\ pump \in {"run", "done"}
    /\ tx \in Seq(Item(EngineFins \cup Failures)) /\ agent \in {"run", "ended"}
    /\ router \in {"first", "pump", "ended", "failed"}
    /\ sse \in Seq(Item(EngineFins \cup Failures))
    /\ client \in {"open", "gone", "done", "failed"}

Final == fate \notin {"open", "gone"}
\* The stream can still end well for the client.
Live == router # "failed" /\ client = "open"

\* Which task has ended, and what that says of the ones before it.
Ends ==
    /\ driver = "post" => /\ fate = "open" /\ sent = <<>> /\ ~saw
                          /\ out = <<>> /\ events = <<>> /\ body = <<>> /\ bodyEnd = "open"
    /\ kind = "other" => out = <<>> /\ events = <<>>
    /\ bodyEnd = "eof" => out = <<>> /\ events = <<>> /\ fate # "open"
    /\ bodyEnd = "reset" => fate # "open"
    /\ driver = "read" /\ fate = "gone" => bodyEnd \in {"eof", "reset"}
    /\ pump = "done" => pipe = <<>> /\ (Live => ResponseDropped)
    /\ agent = "ended" => pump = "done" /\ ResponseDropped
    /\ agent = "ended" /\ ~StreamDropped /\ driver # "ok" => tx # <<>> /\ IsError(tx[Len(tx)])
    /\ router = "ended" /\ Live => agent = "ended" /\ driver = "ok" /\ tx = <<>>
    /\ saw => Final
    /\ driver = "ok" /\ Live => Final

HasDone(frames) == \E i \in DOMAIN frames : frames[i].what = "done"
\* Frames other than chunks are empty, and nothing follows [DONE].
Ordered(frames) ==
    /\ \A i \in DOMAIN frames :
         frames[i].what # "chunk" => frames[i].text = <<>> /\ frames[i].fin = "none"
    /\ \A i \in DOMAIN frames : frames[i].what = "done" => i = Len(frames)

\* The engine's finish reason is in one place.
Marks == driver = "read" =>
    /\ Ordered(body)
    /\ HasDone(body) => out = <<>> /\ events = <<>> /\ bodyEnd # "open" /\ Final
    /\ LastIn(out) /\ LastIn(events)
    /\ ~NoneIn(out) => NoneIn(events) /\ NoneIn(body) /\ ~saw /\ Final
    /\ ~NoneIn(events) => out = <<>> /\ NoneIn(body) /\ ~saw /\ Final
    /\ ~NoneIn(body) => OneIn(body) /\ out = <<>> /\ events = <<>> /\ ~saw /\ Final

\* From the driver on there is no finish reason until it has passed one on,
\* and then just one, in the client's hands or on its way.
OneWay == Live =>
    /\ ~saw /\ driver # "ok" => fins = <<>> /\ NoneIn(sse) /\ NoneIn(tx) /\ NoneIn(pipe)
    /\ saw \/ driver = "ok" =>
        \/ Len(fins) = 1 /\ NoneIn(sse) /\ NoneIn(tx) /\ NoneIn(pipe)
        \/ fins = <<>> /\ OneIn(sse) /\ NoneIn(tx) /\ NoneIn(pipe)
        \/ fins = <<>> /\ NoneIn(sse) /\ OneIn(tx) /\ NoneIn(pipe)
        \/ fins = <<>> /\ NoneIn(sse) /\ NoneIn(tx) /\ OneIn(pipe)

\* What the client has and what the buffers hold, one after the other, is the
\* text sent.
Front(b1, b2, b3) ==
    /\ client = "open" => Spells(sse, sent, Len(got), b1)
    /\ Live => Spells(tx, sent, b1, b2) /\ Spells(pipe, sent, b2, b3)
    /\ Live /\ driver = "ok" => b3 = Len(sent)
Rear(b3, b4, b5) == Live /\ driver = "read" =>
    /\ Spells(body, sent, b3, b4)
    /\ bodyEnd # "reset" => Spells(events, sent, b4, b5) /\ Spells(out, sent, b5, Len(sent))
    /\ HasDone(body) => b4 = Len(sent)
Chained ==
    /\ StartsWith(sent, got)
    /\ \E b1, b2, b3, b4, b5 : Front(b1, b2, b3) /\ Rear(b3, b4, b5)

Whole ==
    client = "done" => router = "ended" /\ driver = "ok" /\ got = sent /\ Len(fins) = 1 /\ Final

PathInv == Types /\ EmitInv /\ Ends /\ Marks /\ OneWay /\ Chained /\ Whole

LEMMA FrameAppended ==
    ASSUME NEW q \in Seq(Frames), NEW f \in Frames, Ordered(q), ~HasDone(q),
           f.what # "chunk" => f.text = <<>> /\ f.fin = "none"
    PROVE  /\ Ordered(Append(q, f)) /\ (HasDone(Append(q, f)) <=> f.what = "done")
           /\ Append(q, f) \in Seq(Frames)
<1>0. PICK n \in Nat : n = Len(q)
  OBVIOUS
<1>1. PICK r : r = Append(q, f)
  BY Zenon
<1>2. /\ DOMAIN q = 1 .. n /\ DOMAIN r = 1 .. n + 1 /\ Len(r) = n + 1 /\ r[n + 1] = f
      /\ \A i \in 1 .. n : r[i] = q[i]
  BY <1>0, <1>1
<1>3. \A i \in 1 .. n : q[i].what # "done"
  BY <1>2 DEF HasDone
<1>4. Ordered(r)
  BY <1>2, <1>3 DEF Ordered
<1>5. HasDone(r) <=> f.what = "done"
  BY <1>2, <1>3 DEF HasDone
<1>6. r \in Seq(Frames)
  BY <1>1
<1>. QED
  BY <1>1, <1>4, <1>5, <1>6, Zenon

LEMMA FrameTaken ==
    ASSUME NEW q \in Seq(Frames), q # <<>>, Ordered(q)
    PROVE  /\ Ordered(Tail(q)) /\ (HasDone(Tail(q)) => HasDone(q))
           /\ Head(q).what # "chunk" => Head(q).text = <<>> /\ Head(q).fin = "none"
           /\ Head(q).what = "done" => Tail(q) = <<>> /\ HasDone(q)
<1>0. PICK r : r = Tail(q)
  BY Zenon
<1>1. PICK n \in Nat : n + 1 = Len(q)
  <2>1. Len(q) - 1 \in Nat /\ (Len(q) - 1) + 1 = Len(q)
    OBVIOUS
  <2>. QED
    BY <2>1, Zenon
<1>2. /\ DOMAIN q = 1 .. n + 1 /\ DOMAIN r = 1 .. n /\ Len(r) = n /\ Head(q) = q[1]
      /\ \A i \in 1 .. n : r[i] = q[i + 1]
      /\ n = 0 => r = <<>>
  BY <1>0, <1>1
<1>a. ASSUME NEW i \in 1 .. n
      PROVE  /\ r[i].what # "chunk" => r[i].text = <<>> /\ r[i].fin = "none"
             /\ r[i].what = "done" => i = n /\ HasDone(q)
  <2>1. PICK k \in 1 .. n + 1 : k = i + 1 /\ r[i] = q[k]
    BY <1>2
  <2>2. /\ q[k].what # "chunk" => q[k].text = <<>> /\ q[k].fin = "none"
        /\ q[k].what = "done" => k = n + 1 /\ HasDone(q)
    BY <1>1, <1>2, <2>1 DEF Ordered, HasDone
  <2>. QED
    BY <2>1, <2>2
<1>3. Ordered(r)
  BY <1>2, <1>a DEF Ordered
<1>4. HasDone(r) => HasDone(q)
  BY <1>2, <1>a DEF HasDone
<1>5. q[1].what # "chunk" => q[1].text = <<>> /\ q[1].fin = "none"
  BY <1>2 DEF Ordered
<1>6. q[1].what = "done" => r = <<>> /\ HasDone(q)
  BY <1>1, <1>2 DEF Ordered, HasDone
<1>. QED
  BY <1>0, <1>2, <1>3, <1>4, <1>5, <1>6, Zenon

LEMMA NoFrames == Ordered(<<>>) /\ ~HasDone(<<>>)
BY DEF Ordered, HasDone

LEMMA Longer ==
    ASSUME NEW X, NEW q \in Seq(X), Types, Grows, NEW a, NEW b, Spells(q, sent, a, b)
    PROVE  Spells(q, sent', a, b)
<1>1. PICK d \in Seq(Chars) : sent' = sent \o d
  BY DEF Grows
<1>2. sent \in Seq(Chars)
  BY DEF Types
<1>. QED
  BY <1>1, <1>2, SpellsLonger, Zenon

LEMMA StillPrefix == ASSUME Types, Grows, StartsWith(sent, got) PROVE StartsWith(sent', got)
<1>1. PICK d \in Seq(Chars) : sent' = sent \o d
  BY DEF Grows
<1>2. PICK q \in Nat, n \in Nat : q = Len(got) /\ n = Len(sent)
  BY DEF Types
<1>3. PICK u : u = sent \o d
  BY Zenon
<1>4. u \in Seq(Chars) /\ n <= Len(u) /\ \A i \in 1 .. n : u[i] = sent[i]
  BY <1>2, <1>3 DEF Types
<1>5. q <= n /\ SubSeq(sent, 1, q) = got
  BY <1>2, Zenon DEF StartsWith
<1>6. Agree(sent, u, q) /\ 0 \in Nat /\ 0 + 1 = 1 /\ sent \in Seq(Chars) /\ q <= Len(u)
  BY <1>2, <1>4, <1>5 DEF Agree, Types
<1>7. SubSeq(sent, 0 + 1, q) = SubSeq(u, 0 + 1, q)
  BY <1>4, <1>6, SubSame, ZenonT(30)
<1>. QED
  BY <1>1, <1>2, <1>3, <1>5, <1>6, <1>7, Zenon DEF StartsWith

\* A step of the engine: what it may do to the text and the response.
EngineStep ==
    /\ Grows /\ UNCHANGED <<agentSide, routerSide, config>>
    /\ fate' = fate \/ fate = "open"

LEMMA EngineFrame ==
    ASSUME Types, Ends, OneWay, Whole, EngineStep
    PROVE  OneWay' /\ Whole' /\ Live' = Live /\ (Final => Final')
<1>1. UNCHANGED <<driver, saw, pipe, pump, tx, agent, router, sse, client, got, fins>>
  BY DEF EngineStep, agentSide, routerSide
<1>2. Live' = Live /\ (Final => Final')
  BY <1>1, Zenon DEF Live, Final, EngineStep
<1>3. OneWay'
  BY <1>1, <1>2, Zenon DEF OneWay
<1>4. Whole'
  <2>. SUFFICES ASSUME client = "done"
                PROVE  router = "ended" /\ driver = "ok" /\ got = sent' /\ Len(fins) = 1 /\ Final'
    BY <1>1, Zenon DEF Whole
  <2>1. router = "ended" /\ driver = "ok" /\ got = sent /\ Len(fins) = 1 /\ Final
    BY Zenon DEF Whole
  <2>2. PICK d \in Seq(Chars) : sent' = sent \o d /\ (fate # "open" => d = <<>>)
    BY DEF EngineStep, Grows
  <2>3. sent' = sent
    BY <2>1, <2>2, ConcatEmptySeq DEF Final, Types
  <2>. QED
    BY <1>2, <2>1, <2>3, Zenon
<1>. QED
  BY <1>2, <1>3, <1>4

LEMMA EngineChain ==
    ASSUME Types, Ends, StartsWith(sent, got), EngineStep,
           NEW b1, NEW b2, NEW b3, NEW b4, NEW b5, Front(b1, b2, b3), Rear(b3, b4, b5)'
    PROVE  Chained'
<1>1. UNCHANGED <<driver, pipe, tx, router, sse, client, got>> /\ Grows
  BY Zenon DEF EngineStep, agentSide, routerSide
<1>2. Live' = Live
  BY <1>1 DEF Live
<1>3. StartsWith(sent', got')
  BY <1>1, StillPrefix, Zenon
<1>4. client = "open" => Spells(sse, sent', Len(got), b1)
  BY <1>1, Longer, Zenon DEF Front, Types
<1>5. Live => Spells(tx, sent', b1, b2) /\ Spells(pipe, sent', b2, b3)
  BY <1>1, Longer, Zenon DEF Front, Types
<1>6. Live /\ driver = "ok" => b3 = Len(sent')
  <2>. SUFFICES ASSUME Live, driver = "ok" PROVE b3 = Len(sent')
    OBVIOUS
  <2>1. fate # "open" /\ b3 = Len(sent)
    BY DEF Ends, Final, Front
  <2>2. sent' = sent
    <3>1. PICK d \in Seq(Chars) : sent' = sent \o d /\ (fate # "open" => d = <<>>)
      BY <1>1 DEF Grows
    <3>. QED
      BY <2>1, <3>1, ConcatEmptySeq, Zenon DEF Types
  <2>. QED
    BY <2>1, <2>2, Zenon
<1>7. Front(b1, b2, b3)'
  BY <1>1, <1>2, <1>4, <1>5, <1>6, Zenon DEF Front
<1>. QED
  BY <1>3, <1>7, Zenon DEF Chained

LEMMA Suffix ==
    ASSUME NEW s \in Seq(Chars), NEW d \in Seq(Chars), NEW u, u = s \o d
    PROVE  u \in Seq(Chars) /\ Len(s) <= Len(u) /\ SubSeq(u, Len(s) + 1, Len(u)) = d
<1>1. PICK n \in Nat, l \in Nat : n = Len(s) /\ l = Len(u)
  OBVIOUS
<1>2. /\ u \in Seq(Chars) /\ Len(u) = Len(s) + Len(d)
      /\ \A i \in 1 .. Len(s) + Len(d) : u[i] = IF i <= Len(s) THEN s[i] ELSE d[i - Len(s)]
  BY ConcatProperties, Zenon
<1>3. PICK t : t = SubSeq(u, n + 1, l)
  BY Zenon
<1>4. t \in Seq(Chars) /\ Len(t) = (IF n <= l THEN l - n ELSE 0)
      /\ \A i \in 1 .. l - n : t[i] = u[n + i]
  BY <1>1, <1>2, <1>3, Sub
<1>5. Len(t) = Len(d) /\ l - n = Len(d) /\ n <= l
  BY <1>1, <1>2, <1>4
<1>6. ASSUME NEW i \in 1 .. Len(t) PROVE t[i] = d[i]
  <2>1. n + i \in 1 .. Len(s) + Len(d) /\ ~(n + i <= Len(s)) /\ (n + i) - Len(s) = i
    BY <1>1, <1>5
  <2>2. u[n + i] = d[(n + i) - Len(s)]
    BY <1>2, <2>1
  <2>. QED
    BY <1>4, <1>5, <2>1, <2>2
<1>7. t = d
  BY <1>4, <1>5, <1>6, SeqEqual, Zenon
<1>. QED
  BY <1>1, <1>2, <1>3, <1>5, <1>7

-----------------------------------------------------------------------------
(* The engine's steps.                                                     *)

\* What one decoded token puts into the scheduler's hands.
LEMMA Emitted ==
    ASSUME Types, NEW d \in Seq(Chars), sent' = sent \o d, Emits
    PROVE  /\ out' \in Seq(Item(EngineFins)) /\ LastIn(out') /\ (NoneIn(out') \/ fate' # "open")
           /\ Spells(out', sent', Len(sent), Len(sent'))
<1>1. /\ sent \in Seq(Chars) /\ sent' \in Seq(Chars) /\ Len(sent) <= Len(sent')
      /\ SubSeq(sent', Len(sent) + 1, Len(sent')) = d
  BY Suffix DEF Types
<1>2. PICK a \in Nat, e \in Nat : a = Len(sent) /\ e = Len(sent') /\ a <= e
  BY <1>1
<1>3. PICK fin \in {"stop", "length"} : fin = IF fate' = "length" THEN "length" ELSE "stop"
  BY Zenon
<1>4. PICK x, y : x = Event(d, "none") /\ y = Event(<<>>, fin)
  BY Zenon
<1>5. /\ x \in Item(EngineFins) /\ x.text = d /\ ~Marked(x)
      /\ y \in Item(EngineFins) /\ y.text = <<>> /\ Marked(y)
  BY <1>3, <1>4 DEF Event, Item, EngineFins, Marked
<1>6. out' = (IF d = <<>> THEN <<>> ELSE <<x>>) \o (IF fate' = "open" THEN <<>> ELSE <<y>>)
  BY <1>1, <1>3, <1>4, Zenon DEF Emits, Delta
<1>7. PICK p : p = IF d = <<>> THEN <<>> ELSE Append(<<>>, x)
  BY Zenon
<1>8. p \in Seq(Item(EngineFins)) /\ p = IF d = <<>> THEN <<>> ELSE <<x>>
  BY <1>5, <1>7
<1>9. out' = IF fate' = "open" THEN p ELSE Append(p, y)
  BY <1>5, <1>6, <1>8
<1>10. NoneIn(p) /\ LastIn(p)
  <2>1. CASE d = <<>>
    BY <1>7, <2>1, EmptyUnmarked
  <2>2. CASE d # <<>>
    <3>1. <<>> \in Seq(Item(EngineFins))
      OBVIOUS
    <3>. QED
      BY <1>5, <1>7, <2>2, <3>1, EmptyUnmarked, MarkAppended, Zenon
  <2>. QED
    BY <2>1, <2>2, Zenon
<1>11. Spells(p, sent', a, e)
  <2>1. Spells(<<>>, sent', a, a)
    BY <1>1, <1>2, SpellsNothing, Zenon
  <2>2. CASE d = <<>>
    <3>1. a = e
      BY <1>1, <1>2, <2>2, NoText
    <3>. QED
      BY <1>7, <2>1, <2>2, <3>1
  <2>3. CASE d # <<>>
    <3>1. <<>> \in Seq(Item(EngineFins)) /\ e <= Len(sent') /\ x.text = SubSeq(sent', a + 1, e)
      BY <1>1, <1>2, <1>5
    <3>2. Spells(Append(<<>>, x), sent', a, e)
      BY <1>1, <1>2, <1>5, <2>1, <3>1, SpellsAppend, Zenon
    <3>. QED
      BY <1>7, <2>3, <3>2, Zenon
  <2>. QED
    BY <2>2, <2>3, Zenon
<1>12. CASE fate' = "open"
  BY <1>2, <1>8, <1>9, <1>10, <1>11, <1>12, Zenon
<1>13. CASE fate' # "open"
  <2>1. out' = Append(p, y)
    BY <1>9, <1>13, Zenon
  <2>2. LastIn(out')
    BY <1>5, <1>8, <1>10, <2>1, MarkAppended, Zenon
  <2>3. Spells(out', sent', a, e)
    BY <1>1, <1>5, <1>8, <1>11, <2>1, Padded, Zenon
  <2>4. out' \in Seq(Item(EngineFins))
    BY <1>5, <1>8, <2>1
  <2>. QED
    BY <1>2, <1>13, <2>2, <2>3, <2>4, Zenon
<1>. QED
  BY <1>12, <1>13

LEMMA DecodesKeeps == ASSUME PathInv, Decodes PROVE PathInv'
<1>1. /\ kind = "native" /\ kind' = kind /\ driver # "post" /\ out = <<>> /\ fate = "open"
      /\ UNCHANGED <<events, body, bodyEnd, agentSide, routerSide, config>>
  BY DEF Decodes, PushEos, PushToken, config
<1>2. EmitInv' /\ Grows
  <2>1. EmitInv
    BY DEF PathInv
  <2>2. CASE PushEos
    BY <1>1, <2>1, <2>2, EosEmits
  <2>3. CASE \E token \in Tokens : PushToken(token)
    BY <1>1, <2>1, <2>3, TokenEmits
  <2>. QED
    BY <2>2, <2>3 DEF Decodes
<1>3. PICK d \in Seq(Chars) : sent' = sent \o d
  BY <1>2 DEF Grows
<1>4. Types /\ Ends /\ Marks /\ OneWay /\ Chained /\ Whole
  BY Zenon DEF PathInv
<1>5. /\ out' \in Seq(Item(EngineFins)) /\ LastIn(out') /\ (NoneIn(out') \/ fate' # "open")
      /\ Spells(out', sent', Len(sent), Len(sent'))
  BY <1>3, <1>4, Emitted DEF Decodes
<1>6. fate' \in {"open", "eos", "stop", "length"}
  BY Zenon DEF Decodes, PushEos, PushToken
<1>7. EngineStep
  BY <1>1, <1>2, Zenon DEF EngineStep
<1>8. OneWay' /\ Whole' /\ Live' = Live
  BY <1>4, <1>7, EngineFrame, Zenon
<1>9. UNCHANGED <<driver, saw, pipe, pump, tx, agent, router, sse, client, got, fins, kind, surface>>
  BY <1>1 DEF agentSide, routerSide, config
<1>10. Types'
  <2>1. sent' \in Seq(Chars)
    BY <1>3, <1>4 DEF Types
  <2>. QED
    BY <1>1, <1>4, <1>5, <1>9, <2>1, ZenonT(60) DEF Types
<1>11. Ends'
  BY <1>1, <1>4, <1>6, <1>8, <1>9, ZenonT(30) DEF Types, Ends, Final, ResponseDropped, StreamDropped
<1>12. driver = "read" => NoneIn(events) /\ NoneIn(body) /\ ~HasDone(body) /\ ~saw
  BY <1>1, <1>4 DEF Marks, Ends, Final
<1>13. HasDone(body') = HasDone(body)
  BY <1>1, Zenon
<1>14. Marks'
  <2>1. NoneIn(out') \/ Final'
    BY <1>5, <1>6 DEF Final
  <2>. QED
    BY <1>1, <1>4, <1>5, <1>9, <1>12, <1>13, <2>1, Zenon DEF Marks
<1>15. Chained'
  <2>1. PICK b1, b2, b3, b4, b5 : Front(b1, b2, b3) /\ Rear(b3, b4, b5)
    BY <1>4 DEF Chained
  <2>2. Rear(b3, b4, b5)'
    <3>. SUFFICES ASSUME Live, driver = "read"
                  PROVE  /\ Spells(body, sent', b3, b4)
                         /\ bodyEnd # "reset" => /\ Spells(events, sent', b4, b5)
                                                 /\ Spells(out', sent', b5, Len(sent'))
      BY <1>1, <1>8, <1>9, <1>12, <1>13, Zenon DEF Rear
    <3>1. Spells(body, sent', b3, b4)
      BY <1>2, <1>4, <2>1, Longer, Zenon DEF Rear, Types
    <3>2. ASSUME bodyEnd # "reset" PROVE Spells(events, sent', b4, b5)
      BY <1>2, <1>4, <2>1, <3>2, Longer, Zenon DEF Rear, Types
    <3>3. ASSUME bodyEnd # "reset" PROVE Spells(out', sent', b5, Len(sent'))
      <4>1. b5 = Len(sent)
        BY <1>1, <2>1, <3>3, NothingSpells, Zenon DEF Rear
      <4>. QED
        BY <1>5, <4>1
    <3>. QED
      BY <3>1, <3>2, <3>3, Zenon
  <2>. QED
    BY <1>4, <1>7, <2>1, <2>2, EngineChain, Zenon DEF Chained
<1>. QED
  BY <1>2, <1>8, <1>10, <1>11, <1>14, <1>15 DEF PathInv

LEMMA GenerationFailsKeeps == ASSUME PathInv, GenerationFails PROVE PathInv'
<1>1. /\ kind = "native" /\ kind' = kind /\ driver # "post" /\ out = <<>> /\ fate = "open"
      /\ UNCHANGED <<generated, emitted, sent, events, body, bodyEnd, agentSide, routerSide, config>>
      /\ fate' = "error" /\ out' = <<Event(<<>>, "error")>>
  BY DEF GenerationFails, config
<1>2. Types /\ EmitInv /\ Ends /\ Marks /\ OneWay /\ Chained /\ Whole
  BY DEF PathInv
<1>3. EmitInv' /\ Grows
  BY <1>1, <1>2, EmitsNothing, Zenon
<1>4. EngineStep
  BY <1>1, <1>3, Zenon DEF EngineStep
<1>5. OneWay' /\ Whole' /\ Live' = Live
  BY <1>2, <1>4, EngineFrame, Zenon
<1>6. UNCHANGED <<driver, saw, pipe, pump, tx, agent, router, sse, client, got, fins, kind, surface>>
  BY <1>1 DEF agentSide, routerSide, config
<1>7. PICK x : x = Event(<<>>, "error") /\ out' = Append(out, x)
  BY <1>1
<1>8. x \in Item(EngineFins) /\ x.text = <<>> /\ out' \in Seq(Item(EngineFins))
  <2>1. x \in Item(EngineFins) /\ x.text = <<>>
    BY <1>7 DEF Event, Item, EngineFins
  <2>. QED
    BY <1>2, <1>7, <2>1 DEF Types
<1>9. Types'
  BY <1>1, <1>2, <1>6, <1>8, ZenonT(60) DEF Types
<1>10. Ends'
  BY <1>1, <1>2, <1>5, <1>6, ZenonT(30) DEF Types, Ends, Final, ResponseDropped, StreamDropped
<1>11. HasDone(body') = HasDone(body)
  BY <1>1
<1>12. Marks'
  <2>1. driver = "read" => NoneIn(events) /\ NoneIn(body) /\ ~HasDone(body) /\ ~saw
    BY <1>1, <1>2 DEF Marks, Ends, Final
  <2>2. LastIn(out')
    BY <1>1, <1>2, <1>7, <1>8, EmptyUnmarked, MarkAppended, Zenon DEF Types
  <2>3. Final'
    BY <1>1 DEF Final
  <2>. QED
    BY <1>1, <1>2, <1>6, <1>11, <2>1, <2>2, <2>3, Zenon DEF Marks
<1>13. Chained'
  <2>1. PICK b1, b2, b3, b4, b5 : Front(b1, b2, b3) /\ Rear(b3, b4, b5)
    BY <1>2 DEF Chained
  <2>2. ASSUME Spells(out, sent, b5, Len(sent)) PROVE Spells(out', sent, b5, Len(sent))
    BY <1>2, <1>7, <1>8, <2>2, Padded, Zenon DEF Types
  <2>3. Rear(b3, b4, b5)'
    BY <1>1, <1>5, <1>6, <1>11, <2>1, <2>2, Zenon DEF Rear
  <2>. QED
    BY <1>2, <1>4, <2>1, <2>3, EngineChain, Zenon DEF Chained
<1>. QED
  BY <1>3, <1>5, <1>9, <1>10, <1>12, <1>13 DEF PathInv

LEMMA EngineSendsKeeps == ASSUME PathInv, EngineSends PROVE PathInv'
<1>1. /\ out # <<>>
      /\ UNCHANGED <<generated, emitted, sent, body, bodyEnd, agentSide, routerSide, config, kind>>
      /\ fate' = fate \/ (fate = "open" /\ fate' = "gone")
      /\ \/ ~ResponseDropped /\ out' = Tail(out) /\ events' = Append(events, Head(out)) /\ fate' = fate
         \/ ResponseDropped /\ out' = <<>> /\ events' = events
  BY Zenon DEF EngineSends, config
<1>2. Types /\ EmitInv /\ Ends /\ Marks /\ OneWay /\ Chained /\ Whole
  BY Zenon DEF PathInv
<1>3. EmitInv' /\ Grows
  BY <1>1, <1>2, EmitsNothing
<1>4. EngineStep
  BY <1>1, <1>3, Zenon DEF EngineStep
<1>5. OneWay' /\ Whole' /\ Live' = Live /\ (Final => Final')
  BY <1>2, <1>4, EngineFrame, Zenon
<1>6. UNCHANGED <<driver, saw, pipe, pump, tx, agent, router, sse, client, got, fins, kind, surface>>
  BY <1>1 DEF agentSide, routerSide, config
<1>7. Types'
  <2>1. PICK X : X = Item(EngineFins)
    BY Zenon
  <2>2. out \in Seq(X) /\ events \in Seq(X)
    BY <1>2, <2>1 DEF Types
  <2>3. Head(out) \in X /\ Tail(out) \in Seq(X) /\ out # <<>>
    BY <1>1, <2>2
  <2>4. Append(events, Head(out)) \in Seq(X) /\ <<>> \in Seq(X)
    BY <2>2, <2>3
  <2>5. out' \in Seq(X) /\ events' \in Seq(X)
    BY <1>1, <2>2, <2>3, <2>4, ZenonT(30)
  <2>. QED
    BY <1>1, <1>2, <1>6, <2>1, <2>5 DEF Types
<1>8. Ends'
  <2>1. driver # "post" /\ kind # "other" /\ bodyEnd # "eof" /\ (fate # "open" => fate' # "open")
    BY <1>1, <1>2 DEF Ends
  <2>. QED
    BY <1>1, <1>2, <1>5, <1>6, <2>1, ZenonT(30) DEF Types, Ends, ResponseDropped, StreamDropped
<1>9. HasDone(body') = HasDone(body)
  BY <1>1, Zenon
<1>10. CASE driver # "read"
  <2>1. Marks'
    BY <1>6, <1>10 DEF Marks
  <2>2. Chained'
    <3>1. PICK b1, b2, b3, b4, b5 : Front(b1, b2, b3) /\ Rear(b3, b4, b5)
      BY <1>2, Zenon DEF Chained
    <3>2. Rear(b3, b4, b5)'
      BY <1>6, <1>10, Zenon DEF Rear
    <3>. QED
      BY <1>2, <1>4, <3>1, <3>2, EngineChain, Zenon DEF Chained
  <2>. QED
    BY <1>3, <1>5, <1>7, <1>8, <2>1, <2>2 DEF PathInv
<1>11. CASE driver = "read"
  <2>1. out' = Tail(out) /\ events' = Append(events, Head(out)) /\ Final' = Final
    BY <1>1, <1>11 DEF ResponseDropped, Final
  <2>2. PICK x : x = Head(out) /\ x \in Item(EngineFins)
    BY <1>1, <1>2 DEF Types
  <2>3. /\ out \in Seq(Item(EngineFins)) /\ events \in Seq(Item(EngineFins)) /\ out # <<>>
        /\ LastIn(out) /\ NoneIn(events) /\ ~HasDone(body) /\ NoneIn(body)
    BY <1>1, <1>2, <1>11, Zenon DEF Types, Marks
  <2>4. LastIn(events') /\ LastIn(out') /\ (Marked(x) => out' = <<>>)
    BY <2>1, <2>2, <2>3, MarkAppended, MarkTaken, Zenon
  <2>5. ASSUME Marked(x) PROVE Marks'
    <3>1. ~NoneIn(out)
      BY <2>2, <2>3, <2>5, MarkTaken, Zenon
    <3>2. ~saw /\ Final /\ out' = <<>> /\ NoneIn(out')
      BY <1>2, <1>11, <2>4, <2>5, <3>1, EmptyUnmarked, Zenon DEF Marks
    <3>. QED
      BY <1>1, <1>2, <1>6, <1>9, <2>1, <2>3, <2>4, <3>2, Zenon DEF Marks
  <2>6. ASSUME ~Marked(x) PROVE Marks'
    <3>1. NoneIn(events')
      BY <2>1, <2>2, <2>3, <2>6, MarkAppended, Zenon
    <3>2. ~NoneIn(out') => ~NoneIn(out)
      BY <2>1, <2>3, MarkTaken, Zenon
    <3>. QED
      BY <1>1, <1>2, <1>6, <1>9, <1>11, <2>1, <2>3, <2>4, <3>1, <3>2, Zenon DEF Marks
  <2>7. Chained'
    <3>1. PICK b1, b2, b3, b4, b5 : Front(b1, b2, b3) /\ Rear(b3, b4, b5)
      BY <1>2, Zenon DEF Chained
    <3>2. CASE Live /\ bodyEnd # "reset"
      <4>1. Spells(events, sent, b4, b5) /\ Spells(out, sent, b5, Len(sent))
        BY <1>11, <3>1, <3>2, Zenon DEF Rear
      <4>2. sent \in Seq(Chars) /\ x.text = Head(out).text
        BY <1>2, <2>2, Zenon DEF Types
      <4>3. PICK m \in Nat : Spells(events', sent, b4, m) /\ Spells(out', sent, m, Len(sent))
        BY <2>1, <2>2, <2>3, <4>1, <4>2, Moved, Zenon
      <4>4. Rear(b3, b4, m)'
        BY <1>1, <1>5, <1>6, <1>9, <1>11, <3>1, <4>3, Zenon DEF Rear
      <4>. QED
        BY <1>2, <1>4, <3>1, <4>4, EngineChain, Zenon DEF Chained
    <3>3. CASE ~(Live /\ bodyEnd # "reset")
      <4>1. Rear(b3, b4, b5)'
        BY <1>1, <1>5, <1>6, <1>9, <3>1, <3>3, Zenon DEF Rear
      <4>. QED
        BY <1>2, <1>4, <3>1, <4>1, EngineChain, Zenon DEF Chained
    <3>. QED
      BY <3>2, <3>3
  <2>8. Marks'
    BY <2>5, <2>6
  <2>. QED
    BY <1>3, <1>5, <1>7, <1>8, <2>7, <2>8, Zenon DEF PathInv
<1>. QED
  BY <1>10, <1>11

\* The server passes events on, opens and closes the response: the text is what
\* it was.
LEMMA ServerFrame ==
    ASSUME PathInv, UNCHANGED <<vars, agentSide, routerSide, config>>
    PROVE  EmitInv' /\ EngineStep /\ OneWay' /\ Whole' /\ Live' = Live
<1>1. UNCHANGED <<generated, emitted, sent, kind, fate>>
  BY DEF vars, config
<1>2. Types /\ EmitInv /\ Ends /\ OneWay /\ Whole
  BY DEF PathInv
<1>3. EmitInv' /\ Grows
  BY <1>1, <1>2, EmitsNothing, Zenon
<1>4. EngineStep
  BY <1>1, <1>3, Zenon DEF EngineStep
<1>. QED
  BY <1>2, <1>3, <1>4, EngineFrame, Zenon

LEMMA RoleFrame ==
    /\ Frame("role", Blank) \in Frames /\ Frame("role", Blank).text = <<>>
    /\ Frame("role", Blank).what = "role" /\ Frame("role", Blank).fin = "none"
    /\ Frame("done", Blank) \in Frames /\ Frame("done", Blank).text = <<>>
    /\ Frame("done", Blank).what = "done" /\ Frame("done", Blank).fin = "none"
BY DEF Frame, Blank, Event, Frames, EngineFins

LEMMA ServerOpensKeeps == ASSUME PathInv, ServerOpens PROVE PathInv'
<1>1. /\ driver = "read" /\ body = <<>> /\ bodyEnd = "open" /\ bodyEnd' = "head"
      /\ UNCHANGED <<vars, agentSide, routerSide, config>> /\ UNCHANGED <<out, events>>
      /\ body' = <<>> \/ body' = <<Frame("role", Blank)>>
  BY DEF ServerOpens
<1>2. Types /\ Ends /\ Marks /\ Chained
  BY DEF PathInv
<1>3. EmitInv' /\ EngineStep /\ OneWay' /\ Whole' /\ Live' = Live
  BY <1>1, ServerFrame, Zenon
<1>4. UNCHANGED <<sent, fate, driver, saw, pipe, pump, tx, agent, router, sse, client, got, fins,
                  kind, surface>>
  BY <1>1 DEF vars, agentSide, routerSide, config
<1>5. PICK f \in Frames : /\ f.what = "role" /\ f.text = <<>> /\ f.fin = "none"
                          /\ f = Frame("role", Blank)
  BY RoleFrame, Zenon
<1>6. body' = body \/ body' = Append(body, f)
  BY <1>1, <1>5
<1>7. body \in Seq(Frames) /\ Ordered(body) /\ ~HasDone(body) /\ NoneIn(body)
  BY <1>1, <1>2, NoFrames, EmptyUnmarked, Zenon DEF Types
<1>8. body' \in Seq(Frames) /\ Ordered(body') /\ ~HasDone(body') /\ NoneIn(body')
  <2>1. ~Marked(f) /\ f.what # "done"
    BY <1>5 DEF Marked
  <2>2. CASE body' = body
    BY <1>7, <2>2, Zenon
  <2>3. CASE body' = Append(body, f)
    BY <1>5, <1>7, <2>1, <2>3, FrameAppended, MarkAppended, Zenon
  <2>. QED
    BY <1>6, <2>2, <2>3
<1>9. Types'
  BY <1>1, <1>2, <1>4, <1>8 DEF Types
<1>10. Ends'
  BY <1>1, <1>2, <1>3, <1>4, ZenonT(30) DEF Types, Ends, Final, ResponseDropped, StreamDropped
<1>11. Marks'
  <2>1. Final' = Final
    BY <1>4 DEF Final
  <2>. QED
    BY <1>1, <1>2, <1>4, <1>7, <1>8, <2>1, Zenon DEF Marks
<1>12. Chained'
  <2>1. PICK b1, b2, b3, b4, b5 : Front(b1, b2, b3) /\ Rear(b3, b4, b5)
    BY <1>2 DEF Chained
  <2>2. ASSUME Spells(body, sent, b3, b4) PROVE Spells(body', sent, b3, b4)
    BY <1>2, <1>5, <1>6, <1>7, <2>2, Padded, Zenon DEF Types
  <2>3. Rear(b3, b4, b5)'
    <3>1. bodyEnd # "reset" /\ bodyEnd' # "reset"
      BY <1>1
    <3>. QED
      BY <1>1, <1>3, <1>4, <1>8, <2>1, <2>2, <3>1, Zenon DEF Rear
  <2>. QED
    BY <1>2, <1>3, <2>1, <2>3, EngineChain, Zenon DEF Chained
<1>. QED
  BY <1>3, <1>9, <1>10, <1>11, <1>12 DEF PathInv

LEMMA ServerClosesKeeps == ASSUME PathInv, ServerCloses PROVE PathInv'
<1>1. /\ bodyEnd = "head" /\ bodyEnd' = "eof" /\ events = <<>> /\ out = <<>> /\ fate # "open"
      /\ UNCHANGED <<vars, agentSide, routerSide, config>> /\ UNCHANGED <<out, events, body>>
  BY DEF ServerCloses
<1>2. Types /\ Ends /\ Marks /\ Chained
  BY Zenon DEF PathInv
<1>3. EmitInv' /\ EngineStep /\ OneWay' /\ Whole' /\ Live' = Live
  BY <1>1, ServerFrame, Zenon
<1>4. UNCHANGED <<sent, fate, driver, saw, pipe, pump, tx, agent, router, sse, client, got, fins,
                  kind, surface>>
  BY <1>1 DEF vars, agentSide, routerSide, config
<1>5. Types'
  BY <1>1, <1>2, <1>4 DEF Types
<1>6. Ends'
  BY <1>1, <1>2, <1>3, <1>4, ZenonT(30) DEF Types, Ends, Final, ResponseDropped, StreamDropped
<1>7. Marks'
  <2>1. Final' = Final /\ bodyEnd' # "open"
    BY <1>1, <1>4 DEF Final
  <2>. QED
    BY <1>1, <1>2, <1>4, <2>1, Zenon DEF Marks
<1>8. Chained'
  <2>1. PICK b1, b2, b3, b4, b5 : Front(b1, b2, b3) /\ Rear(b3, b4, b5)
    BY <1>2 DEF Chained
  <2>2. Rear(b3, b4, b5)'
    <3>1. bodyEnd # "reset" /\ bodyEnd' # "reset"
      BY <1>1
    <3>. QED
      BY <1>1, <1>3, <1>4, <2>1, <3>1, Zenon DEF Rear
  <2>. QED
    BY <1>2, <1>3, <2>1, <2>2, EngineChain, Zenon DEF Chained
<1>. QED
  BY <1>3, <1>5, <1>6, <1>7, <1>8, Zenon DEF PathInv

LEMMA ServerChunkKeeps == ASSUME PathInv, ServerChunk PROVE PathInv'
<1>1. /\ bodyEnd = "head" /\ events # <<>> /\ events' = Tail(events)
      /\ UNCHANGED <<vars, agentSide, routerSide, config>> /\ UNCHANGED <<out, bodyEnd>>
      /\ body' = body \o <<Frame("chunk", Head(events))>>
                   \o (IF Head(events).fin = "none" THEN <<>> ELSE <<Frame("done", Blank)>>)
  BY DEF ServerChunk
<1>2. Types /\ Ends /\ Marks /\ Chained
  BY Zenon DEF PathInv
<1>3. EmitInv' /\ EngineStep /\ OneWay' /\ Whole' /\ Live' = Live
  BY <1>1, ServerFrame, Zenon
<1>4. UNCHANGED <<sent, fate, driver, saw, pipe, pump, tx, agent, router, sse, client, got, fins,
                  kind, surface>>
  BY <1>1 DEF vars, agentSide, routerSide, config
<1>5. events \in Seq(Item(EngineFins)) /\ body \in Seq(Frames) /\ sent \in Seq(Chars)
  BY <1>2 DEF Types
<1>6. PICK ev \in Item(EngineFins) : ev = Head(events) /\ events' \in Seq(Item(EngineFins))
  BY <1>1, <1>5
<1>7. PICK c : c = Frame("chunk", ev)
  BY Zenon
<1>8. c \in Frames /\ c.what = "chunk" /\ c.text = ev.text /\ c.fin = ev.fin
  BY <1>7 DEF Frame, Frames, Item
<1>9. PICK end \in Frames : /\ end.what = "done" /\ end.text = <<>> /\ end.fin = "none"
                            /\ end = Frame("done", Blank)
  BY RoleFrame, Zenon
<1>10. PICK p : p = Append(body, c)
  BY Zenon
<1>11. p \in Seq(Frames) /\ body' = IF ev.fin = "none" THEN p ELSE Append(p, end)
  <2>1. p \in Seq(Frames) /\ p = body \o <<c>>
    BY <1>5, <1>8, <1>10
  <2>2. body' = p \o (IF ev.fin = "none" THEN <<>> ELSE <<end>>)
    BY <1>1, <1>6, <1>7, <1>9, <2>1, Zenon
  <2>. QED
    BY <1>9, <2>1, <2>2
<1>12. Marked(ev) <=> ev.fin # "none"
  BY DEF Marked, Item, EngineFins
<1>13. (Marked(c) <=> Marked(ev)) /\ ~Marked(end)
  BY <1>8, <1>9 DEF Marked
<1>14. Types'
  <2>1. body' \in Seq(Frames)
    BY <1>9, <1>11
  <2>. QED
    BY <1>1, <1>2, <1>4, <1>6, <2>1 DEF Types
<1>15. Ends'
  <2>1. driver # "post" /\ kind # "other" /\ bodyEnd # "eof"
    BY <1>1, <1>2 DEF Ends
  <2>. QED
    BY <1>1, <1>2, <1>3, <1>4, <2>1, ZenonT(30) DEF Types, Ends, Final, ResponseDropped, StreamDropped
<1>16. Final' = Final
  BY <1>4, Zenon DEF Final
<1>17. CASE driver # "read"
  <2>1. Marks'
    BY <1>4, <1>17 DEF Marks
  <2>2. Chained'
    <3>1. PICK b1, b2, b3, b4, b5 : Front(b1, b2, b3) /\ Rear(b3, b4, b5)
      BY <1>2 DEF Chained
    <3>2. Rear(b3, b4, b5)'
      BY <1>4, <1>17, Zenon DEF Rear
    <3>. QED
      BY <1>2, <1>3, <3>1, <3>2, EngineChain, Zenon DEF Chained
  <2>. QED
    BY <1>3, <1>14, <1>15, <2>1, <2>2 DEF PathInv
<1>18. CASE driver = "read"
  <2>1. /\ Ordered(body) /\ ~HasDone(body) /\ NoneIn(body) /\ LastIn(events)
        /\ ~NoneIn(events) => out = <<>> /\ ~saw /\ Final
        /\ LastIn(out) /\ (~NoneIn(out) => NoneIn(events) /\ ~saw /\ Final)
    BY <1>1, <1>2, <1>18, Zenon DEF Marks
  <2>2. Ordered(p) /\ ~HasDone(p) /\ (Marked(c) => OneIn(p)) /\ (~Marked(c) => NoneIn(p))
    <3>1. c.what # "done"
      BY <1>8
    <3>. QED
      BY <1>5, <1>8, <1>10, <2>1, <3>1, FrameAppended, MarkAppended, Zenon
  <2>3. LastIn(events') /\ (Marked(ev) => events' = <<>>) /\ (NoneIn(events) => NoneIn(events'))
        /\ (Marked(ev) => ~NoneIn(events))
    BY <1>1, <1>5, <1>6, <2>1, MarkTaken, Zenon
  <2>4. ASSUME ~Marked(ev) PROVE body' = p /\ Marks'
    <3>1. body' = p
      BY <1>11, <1>12, <2>4, Zenon
    <3>. QED
      BY <1>1, <1>4, <1>13, <1>16, <2>1, <2>2, <2>3, <2>4, <3>1, Zenon DEF Marks
  <2>5. ASSUME Marked(ev) PROVE body' = Append(p, end) /\ events' = <<>> /\ out = <<>> /\ Marks'
    <3>1. body' = Append(p, end)
      BY <1>11, <1>12, <2>5, Zenon
    <3>2. Ordered(body') /\ OneIn(body')
      BY <1>9, <1>11, <1>13, <2>2, <2>5, <3>1, FrameAppended, MarkAppended, Zenon
    <3>3. out = <<>> /\ ~saw /\ Final /\ events' = <<>> /\ NoneIn(events') /\ NoneIn(out)
      BY <2>1, <2>3, <2>5, EmptyUnmarked, Zenon
    <3>4. bodyEnd' # "open"
      BY <1>1
    <3>. QED
      BY <1>1, <1>4, <1>16, <2>1, <2>3, <3>1, <3>2, <3>3, <3>4, Zenon DEF Marks
  <2>6. Chained'
    <3>1. PICK b1, b2, b3, b4, b5 : Front(b1, b2, b3) /\ Rear(b3, b4, b5)
      BY <1>2, Zenon DEF Chained
    <3>2. CASE ~Live
      <4>1. Rear(b3, b4, b5)'
        BY <1>3, <3>2, Zenon DEF Rear
      <4>. QED
        BY <1>2, <1>3, <3>1, <4>1, EngineChain, Zenon DEF Chained
    <3>3. CASE Live
      <4>0. bodyEnd # "reset"
        BY <1>1
      <4>1. /\ Spells(body, sent, b3, b4) /\ Spells(events, sent, b4, b5)
            /\ Spells(out, sent, b5, Len(sent))
        BY <1>18, <3>1, <3>3, <4>0, ZenonT(30) DEF Rear
      <4>2. c.text = Head(events).text
        BY <1>6, <1>8
      <4>3. PICK m \in Nat : Spells(p, sent, b3, m) /\ Spells(events', sent, m, b5)
        BY <1>1, <1>5, <1>8, <1>10, <4>1, <4>2, Moved, Zenon
      <4>4. Spells(body', sent, b3, m)
        BY <1>5, <1>9, <1>11, <4>3, Padded, Zenon
      <4>5. HasDone(body') => m = Len(sent)
        <5>1. CASE Marked(ev)
          <6>1. m = b5 /\ b5 = Len(sent)
            BY <2>5, <4>1, <4>3, <5>1, NothingSpells, ZenonT(30)
          <6>. QED
            BY <6>1
        <5>2. CASE ~Marked(ev)
          BY <2>2, <2>4, <5>2
        <5>. QED
          BY <5>1, <5>2, Zenon
      <4>6. Rear(b3, m, b5)'
        BY <1>1, <1>4, <4>1, <4>3, <4>4, <4>5, ZenonT(30) DEF Rear
      <4>. QED
        BY <1>2, <1>3, <3>1, <4>6, EngineChain, Zenon DEF Chained
    <3>. QED
      BY <3>2, <3>3, Zenon
  <2>. QED
    BY <1>3, <1>14, <1>15, <2>4, <2>5, <2>6 DEF PathInv
<1>. QED
  BY <1>17, <1>18

LEMMA OtherFrameKeeps ==
    ASSUME PathInv, NEW what \in OtherFrames, NEW token \in Pieces, OtherFrame(what, token)
    PROVE  PathInv'
<1>1. PICK d : d = IF what \in {"chunk", "last"} THEN token ELSE <<>>
  BY Zenon
<1>2. PICK w : w = IF what \in {"last", "finish"} THEN "chunk" ELSE what
  BY Zenon
<1>3. PICK fin : fin = IF what \in {"last", "finish"} THEN "stop" ELSE "none"
  BY Zenon
<1>4. PICK f : f = Frame(w, Event(d, fin))
  BY Zenon
<1>5. /\ kind = "other" /\ driver = "read" /\ bodyEnd = "open"
      /\ what \in {"chunk", "last", "finish"} => fate = "open"
      /\ body' = Append(body, f)
      /\ fate' = IF what \in {"last", "finish"} \/ (what = "done" /\ fate = "open")
                   THEN "finished" ELSE fate
      /\ bodyEnd' = IF what = "done" THEN "eof" ELSE "open"
      /\ UNCHANGED <<out, events, agentSide, routerSide, config>>
  BY <1>1, <1>2, <1>3, <1>4, Zenon DEF OtherFrame
<1>6. Types /\ EmitInv /\ Ends /\ Marks /\ OneWay /\ Chained /\ Whole
  BY Zenon DEF PathInv
<1>7. EmitInv' /\ Grows
  BY <1>6, OtherEmits, Zenon
<1>8. d \in Seq(Chars) /\ sent' = sent \o d
  <2>1. d \in Seq(Chars)
    BY <1>1, EmissionConstants
  <2>2. sent' = sent \o d
    BY <1>1, ZenonT(30) DEF OtherFrame
  <2>. QED
    BY <2>1, <2>2
<1>9. /\ f \in Frames /\ f.what = w /\ f.text = d /\ f.fin = fin
      /\ (Marked(f) <=> what \in {"last", "finish"}) /\ (w = "done" <=> what = "done")
      /\ f.what # "chunk" => f.text = <<>> /\ f.fin = "none"
  BY <1>1, <1>2, <1>3, <1>4, <1>8, Zenon DEF Frame, Event, Frames, EngineFins, OtherFrames, Marked
<1>10. EngineStep
  <2>1. fate' = fate \/ fate = "open"
    BY <1>5
  <2>. QED
    BY <1>5, <1>7, <2>1, Zenon DEF EngineStep
<1>11. OneWay' /\ Whole' /\ Live' = Live /\ (Final => Final')
  BY <1>6, <1>10, EngineFrame, Zenon
<1>12. UNCHANGED <<driver, saw, pipe, pump, tx, agent, router, sse, client, got, fins, kind, surface>>
  BY <1>5 DEF agentSide, routerSide, config
<1>13. /\ out = <<>> /\ events = <<>> /\ ~HasDone(body) /\ Ordered(body) /\ body \in Seq(Frames)
       /\ sent \in Seq(Chars) /\ fate # "gone"
  <2>1. out = <<>> /\ events = <<>> /\ body \in Seq(Frames) /\ sent \in Seq(Chars) /\ fate # "gone"
    BY <1>5, <1>6 DEF Ends, Types
  <2>. QED
    BY <1>5, <1>6, <2>1, Zenon DEF Marks
<1>14. Ordered(body') /\ (HasDone(body') <=> what = "done") /\ body' \in Seq(Frames)
  BY <1>5, <1>9, <1>13, FrameAppended, ZenonT(30)
<1>15. Types'
  <2>1. sent' \in Seq(Chars)
    BY <1>8, <1>13
  <2>. QED
    BY <1>5, <1>6, <1>12, <1>14, <2>1 DEF Types
<1>16. Ends'
  BY <1>5, <1>6, <1>11, <1>12, <1>13, ZenonT(30) DEF Types, Ends, ResponseDropped, StreamDropped
<1>17. Marks'
  <2>1. /\ out' = <<>> /\ events' = <<>> /\ LastIn(out') /\ LastIn(events')
        /\ NoneIn(out') /\ NoneIn(events')
    BY <1>5, <1>13, EmptyUnmarked
  <2>2. what = "done" => bodyEnd' # "open" /\ Final'
    BY <1>5, <1>13, Zenon DEF Final
  <2>3. ~NoneIn(body') => OneIn(body') /\ ~saw' /\ Final'
    <3>1. CASE Marked(f)
      <4>1. fate = "open" /\ Final'
        BY <1>5, <1>9, <3>1 DEF Final
      <4>2. NoneIn(body) /\ ~saw
        BY <1>5, <1>6, <4>1, Zenon DEF Marks, Ends, Final
      <4>. QED
        BY <1>5, <1>9, <1>12, <1>13, <3>1, <4>1, <4>2, MarkAppended, ZenonT(30)
    <3>2. CASE ~Marked(f)
      <4>1. ~NoneIn(body) => OneIn(body) /\ ~saw /\ Final
        BY <1>5, <1>6, Zenon DEF Marks
      <4>. QED
        BY <1>5, <1>9, <1>11, <1>12, <1>13, <3>2, <4>1, MarkAppended, Zenon
    <3>. QED
      BY <3>1, <3>2
  <2>. QED
    BY <1>14, <2>1, <2>2, <2>3, Zenon DEF Marks
<1>18. Chained'
  <2>1. PICK b1, b2, b3, b4, b5 : Front(b1, b2, b3) /\ Rear(b3, b4, b5)
    BY <1>6 DEF Chained
  <2>2. CASE ~Live
    <3>1. Rear(b3, b4, b5)'
      BY <1>11, <2>2, Zenon DEF Rear
    <3>. QED
      BY <1>6, <1>10, <2>1, <3>1, EngineChain, Zenon DEF Chained
  <2>3. CASE Live
    <3>0. bodyEnd # "reset"
      BY <1>5
    <3>1. Spells(body, sent, b3, b4) /\ Spells(events, sent, b4, b5) /\ Spells(out, sent, b5, Len(sent))
      BY <1>5, <2>1, <2>3, <3>0, Zenon DEF Rear
    <3>2. b4 = Len(sent)
      BY <1>13, <3>1, NothingSpells, Zenon
    <3>3. Spells(body, sent', b3, b4)
      BY <1>6, <1>7, <1>13, <3>1, Longer, Zenon
    <3>4. /\ sent' \in Seq(Chars) /\ Len(sent) <= Len(sent')
          /\ SubSeq(sent', Len(sent) + 1, Len(sent')) = d
      BY <1>8, <1>13, Suffix, Zenon
    <3>5. PICK e \in Nat : e = Len(sent') /\ b4 <= e /\ e <= Len(sent')
      BY <3>2, <3>4
    <3>6. f.text = SubSeq(sent', b4 + 1, e)
      BY <1>9, <3>2, <3>4, <3>5, Zenon
    <3>7. Spells(body', sent', b3, e)
      BY <1>5, <1>9, <1>13, <3>3, <3>4, <3>5, <3>6, SpellsAppend, Zenon
    <3>8. Spells(<<>>, sent', e, e)
      BY <3>4, <3>5, SpellsNothing
    <3>9. Rear(b3, e, e)'
      BY <1>5, <1>13, <3>5, <3>7, <3>8, Zenon DEF Rear
    <3>. QED
      BY <1>6, <1>10, <2>1, <3>9, EngineChain, Zenon DEF Chained
  <2>. QED
    BY <2>2, <2>3, Zenon
<1>. QED
  BY <1>7, <1>11, <1>15, <1>16, <1>17, <1>18 DEF PathInv

\* The response ends: another engine closes it, or the process dies.
LEMMA ResponseEndsKeeps ==
    ASSUME PathInv, OtherCloses \/ EngineDies
    PROVE  PathInv'
<1>1. /\ driver # "post" /\ bodyEnd \in {"open", "head"}
      /\ bodyEnd' = "eof" \/ bodyEnd' = "reset"
      /\ bodyEnd' = "eof" => kind = "other" /\ UNCHANGED <<out, events>>
      /\ bodyEnd' = "reset" => out' = <<>> /\ events' = <<>>
      /\ fate' = IF fate = "open" THEN "gone" ELSE fate
      /\ UNCHANGED <<generated, emitted, sent, body, agentSide, routerSide, config, kind>>
  BY Zenon DEF OtherCloses, EngineDies, config
<1>2. Types /\ EmitInv /\ Ends /\ Marks /\ OneWay /\ Chained /\ Whole
  BY Zenon DEF PathInv
<1>3. EmitInv' /\ Grows
  <2>1. fate' = fate \/ fate' \in {"gone", "error"}
    BY <1>1, Zenon
  <2>. QED
    BY <1>1, <1>2, <2>1, EmitsNothing
<1>4. EngineStep
  <2>1. fate' = fate \/ fate = "open"
    BY <1>1
  <2>. QED
    BY <1>1, <1>3, <2>1, Zenon DEF EngineStep
<1>5. OneWay' /\ Whole' /\ Live' = Live /\ (Final => Final')
  BY <1>2, <1>4, EngineFrame
<1>6. UNCHANGED <<driver, saw, pipe, pump, tx, agent, router, sse, client, got, fins, kind, surface>>
  BY <1>1, Zenon DEF agentSide, routerSide, config
<1>7. (out' = out \/ out' = <<>>) /\ (events' = events \/ events' = <<>>) /\ bodyEnd' # "open"
  BY <1>1
<1>8. Types'
  <2>1. out' \in Seq(Item(EngineFins)) /\ events' \in Seq(Item(EngineFins))
    <3>1. PICK X : X = Item(EngineFins)
      BY Zenon
    <3>2. out \in Seq(X) /\ events \in Seq(X) /\ <<>> \in Seq(X)
      BY <1>2, <3>1 DEF Types
    <3>. QED
      BY <1>7, <3>1, <3>2, Zenon
  <2>2. bodyEnd' \in {"open", "head", "eof", "reset"}
    BY <1>1, Zenon
  <2>. QED
    BY <1>1, <1>2, <1>6, <2>1, <2>2 DEF Types
<1>9. Ends'
  BY <1>1, <1>2, <1>5, <1>6, ZenonT(30) DEF Types, Ends, ResponseDropped, StreamDropped
<1>10. Marks'
  BY <1>1, <1>2, <1>5, <1>6, <1>7, EmptyUnmarked, Zenon DEF Marks
<1>11. Chained'
  <2>1. PICK b1, b2, b3, b4, b5 : Front(b1, b2, b3) /\ Rear(b3, b4, b5)
    BY <1>2, Zenon DEF Chained
  <2>2. Rear(b3, b4, b5)'
    <3>1. bodyEnd # "reset" /\ (bodyEnd' # "reset" => UNCHANGED <<out, events>>)
      BY <1>1, Zenon
    <3>. QED
      BY <1>1, <1>5, <1>6, <2>1, <3>1, Zenon DEF Rear
  <2>. QED
    BY <1>2, <1>4, <2>1, <2>2, EngineChain, Zenon DEF Chained
<1>. QED
  BY <1>3, <1>5, <1>8, <1>9, <1>10, <1>11 DEF PathInv

-----------------------------------------------------------------------------
(* The driver's steps.                                                     *)

LEMMA PostKeeps == ASSUME PathInv, NEW status \in Statuses, Post(status) PROVE PathInv'
<1>0. /\ driver = "post"
      /\ UNCHANGED <<generated, emitted, sent, serving, saw, pipe, pump, tx, agent, confirmed,
                     routerSide, config>>
      /\ driver' = IF status = "200" THEN "read" ELSE ClassifyEngineStatus(status)
      /\ fate' = IF status = "200" THEN fate ELSE "gone"
  BY Zenon DEF Post
<1>1. /\ driver = "post"
      /\ \/ driver' = "read" /\ fate' = fate
         \/ driver' \in Failures /\ fate' = "gone"
      /\ UNCHANGED <<generated, emitted, sent, serving, saw, pipe, pump, tx, agent, confirmed,
                     routerSide, config>>
  <2>1. ClassifyEngineStatus(status) \in Failures
    BY DEF ClassifyEngineStatus, Failures
  <2>. QED
    BY <1>0, <2>1, Zenon
<1>2. Types /\ EmitInv /\ Ends /\ Marks /\ OneWay /\ Chained /\ Whole
  BY DEF PathInv
<1>3. UNCHANGED <<generated, emitted, sent, out, events, body, bodyEnd, saw, pipe, pump, tx, agent,
                  router, sse, client, got, fins, kind, surface>>
  BY <1>1, Zenon DEF serving, routerSide, config
<1>4. EmitInv'
  BY <1>1, <1>2, <1>3, EmitsNothing
<1>5. Live' = Live
  BY <1>3, Zenon DEF Live
<1>6. /\ fate = "open" /\ sent = <<>> /\ ~saw /\ out = <<>> /\ events = <<>> /\ body = <<>>
      /\ bodyEnd = "open" /\ agent # "ended"
  BY <1>1, <1>2 DEF Ends, ResponseDropped
<1>7. Types'
  BY <1>1, <1>2, <1>3 DEF Types, Failures
<1>8. driver' # "post" /\ driver' # "ok"
  BY <1>1, Zenon DEF Failures
<1>9. Ends'
  <2>1. ~(pump = "done" /\ Live) /\ ~(router = "ended" /\ Live)
    BY <1>1, <1>2 DEF Ends, ResponseDropped
  <2>2. ~(driver' = "read" /\ fate' = "gone")
    BY <1>1, <1>6, Zenon DEF Failures
  <2>. QED
    BY <1>2, <1>3, <1>5, <1>6, <1>8, <2>1, <2>2 DEF Ends
<1>10. Marks'
  BY <1>3, <1>6, EmptyUnmarked, NoFrames, ZenonT(30) DEF Marks
<1>11. OneWay'
  BY <1>1, <1>2, <1>3, <1>5, <1>6, <1>8 DEF OneWay
<1>12. Whole'
  BY <1>1, <1>2, <1>3 DEF Whole
<1>13. Chained'
  <2>1. PICK b1, b2, b3, b4, b5 : Front(b1, b2, b3) /\ Rear(b3, b4, b5)
    BY <1>2 DEF Chained
  <2>2. Front(b1, b2, b3)'
    BY <1>3, <1>5, <1>8, <2>1, Zenon DEF Front
  <2>3. Live => b3 = 0
    <3>. SUFFICES ASSUME Live PROVE b3 = 0
      OBVIOUS
    <3>1. Spells(pipe, sent, b2, b3) /\ pipe \in Seq(Item(EngineFins)) /\ sent \in Seq(Chars)
      BY <1>2, <2>1, Zenon DEF Front, Types
    <3>2. b3 \in Nat /\ b3 <= Len(sent)
      BY <3>1, Bounds, Zenon
    <3>. QED
      BY <1>6, <3>2
  <2>4. Spells(<<>>, <<>>, 0, 0) /\ Len(<<>>) = 0
    <3>1. <<>> \in Seq(Chars) /\ 0 \in Nat /\ 0 <= Len(<<>>) /\ Len(<<>>) = 0
      OBVIOUS
    <3>. QED
      BY <3>1, SpellsNothing, Zenon
  <2>5. Rear(b3, 0, 0)'
    <3>1. ~HasDone(body')
      BY <1>3, <1>6, NoFrames
    <3>. QED
      BY <1>3, <1>5, <1>6, <2>3, <2>4, <3>1, Zenon DEF Rear
  <2>6. StartsWith(sent', got')
    BY <1>2, <1>3, Zenon DEF Chained
  <2>. QED
    BY <2>2, <2>5, <2>6, Zenon DEF Chained
<1>. QED
  BY <1>4, <1>7, <1>9, <1>10, <1>11, <1>12, <1>13 DEF PathInv

\* What the driver leaves alone while it reads the response.
DriverStep ==
    /\ driver = "read"
    /\ UNCHANGED <<vars, out, events, bodyEnd, pump, tx, agent, routerSide, config>>

LEMMA DriverFrame ==
    ASSUME PathInv, DriverStep
    PROVE  /\ UNCHANGED <<sent, fate, out, events, bodyEnd, pump, tx, agent, router, sse, client,
                          got, fins, kind, surface>>
           /\ EmitInv' /\ Whole' /\ Live' = Live /\ Final' = Final /\ StartsWith(sent', got')
           /\ Live => pump = "run" /\ router # "ended"
           /\ agent # "ended"
<1>1. UNCHANGED <<generated, emitted, sent, fate, out, events, bodyEnd, pump, tx, agent, router, sse,
                  client, got, fins, kind, surface>>
  BY Zenon DEF DriverStep, vars, routerSide, config
<1>2. Types /\ EmitInv /\ Ends /\ Whole /\ StartsWith(sent, got)
  BY DEF PathInv, Chained
<1>3. EmitInv'
  BY <1>1, <1>2, EmitsNothing
<1>4. Live' = Live /\ Final' = Final
  BY <1>1, Zenon DEF Live, Final
<1>5. client # "done"
  BY <1>2 DEF Whole, DriverStep
<1>6. Whole'
  BY <1>1, <1>5 DEF Whole
<1>7. (Live => pump = "run" /\ router # "ended") /\ agent # "ended"
  BY <1>2, Zenon DEF Ends, Types, ResponseDropped, DriverStep
<1>8. StartsWith(sent', got')
  BY <1>1, <1>2, Zenon
<1>. QED
  BY <1>1, <1>3, <1>4, <1>6, <1>7, <1>8

LEMMA DriverReadsKeeps == ASSUME PathInv, DriverReads PROVE PathInv'
<1>1. PICK f : f = Head(body)
  OBVIOUS
<1>2. DriverStep /\ body # <<>> /\ body' = Tail(body)
  BY DEF DriverReads, DriverStep
<1>3. PICK x : x = Event(f.text, f.fin)
  BY ZenonT(30)
<1>4. \/ /\ pump = "done" /\ pipe' = pipe /\ driver' = "ok"
         /\ \/ saw' = saw
            \/ f.what = "chunk" /\ saw' = (saw \/ f.fin # "none")
      \/ /\ f.what = "done" /\ pump = "run" /\ pipe' = Append(pipe, TerminalToken)
         /\ driver' = "ok" /\ saw' = saw
      \/ f.what # "done" /\ f.what # "chunk" /\ UNCHANGED <<driver, pipe, saw>>
      \/ /\ f.what = "chunk" /\ pump = "run" /\ pipe' = Append(pipe, x)
         /\ driver' = "read" /\ saw' = (saw \/ f.fin # "none")
  BY <1>1, <1>3 DEF DriverReads, DriverSends
<1>5. Types /\ Ends /\ Marks /\ OneWay /\ Chained
  BY DEF PathInv
<1>6. /\ UNCHANGED <<sent, fate, out, events, bodyEnd, pump, tx, agent, router, sse, client, got,
                     fins, kind, surface>>
      /\ EmitInv' /\ Whole' /\ Live' = Live /\ Final' = Final /\ StartsWith(sent', got')
      /\ Live => pump = "run" /\ router # "ended"
      /\ agent # "ended"
  BY <1>2, DriverFrame, Zenon
<1>7. driver = "read" /\ body \in Seq(Frames) /\ pipe \in Seq(Item(EngineFins)) /\ saw \in BOOLEAN
  BY <1>2, <1>5 DEF DriverStep, Types
<1>8. f \in Frames /\ body' \in Seq(Frames)
  BY <1>1, <1>2, <1>7
<1>9. /\ Ordered(body) /\ Ordered(body') /\ (HasDone(body') => HasDone(body))
      /\ f.what # "chunk" => f.text = <<>> /\ f.fin = "none"
      /\ f.what = "done" => body' = <<>> /\ HasDone(body)
  <2>1. Ordered(body)
    BY <1>5, <1>7, Zenon DEF Marks
  <2>. QED
    BY <1>1, <1>2, <1>7, <2>1, FrameTaken, Zenon
<1>10. (Marked(f) <=> f.fin # "none") /\ f.fin \in EngineFins /\ f.text \in Seq(Chars)
  BY <1>8 DEF Marked, Frames, EngineFins
<1>11. Marked(f) => OneIn(body) /\ NoneIn(body') /\ out = <<>> /\ events = <<>> /\ ~saw /\ Final
  <2>. SUFFICES ASSUME Marked(f)
                PROVE  OneIn(body) /\ NoneIn(body') /\ out = <<>> /\ events = <<>> /\ ~saw /\ Final
    OBVIOUS
  <2>1. ~NoneIn(body)
    BY <1>1, <1>2, <1>7, MarkTaken, Zenon
  <2>2. OneIn(body) /\ out = <<>> /\ events = <<>> /\ ~saw /\ Final
    BY <1>5, <1>7, <2>1, Zenon DEF Marks
  <2>. QED
    BY <1>1, <1>2, <1>7, <2>2, MarkTaken, Zenon
<1>12. PICK b1, b2, b3, b4, b5 : Front(b1, b2, b3) /\ Rear(b3, b4, b5)
  BY <1>5 DEF Chained
<1>13. sent \in Seq(Chars)
  BY <1>5 DEF Types
\* The pump has gone: so has the client, or its stream.
<1>14. CASE /\ pump = "done" /\ pipe' = pipe /\ driver' = "ok"
            /\ saw' = saw \/ (f.what = "chunk" /\ saw' = (saw \/ f.fin # "none"))
  <2>1. ~Live /\ (saw' => saw \/ Marked(f)) /\ saw' \in BOOLEAN
    <3>1. ~Live
      BY <1>6, <1>14, Zenon
    <3>2. (saw \/ f.fin # "none") \in BOOLEAN
      OBVIOUS
    <3>3. CASE saw' = saw
      BY <1>7, <3>1, <3>3, Zenon
    <3>4. CASE saw' = (saw \/ f.fin # "none")
      BY <1>10, <3>1, <3>2, <3>4, ZenonT(30)
    <3>. QED
      BY <1>14, <3>3, <3>4, Zenon
  <2>2. Types'
    BY <1>5, <1>6, <1>7, <1>8, <1>14, <2>1 DEF Types
  <2>3. Ends'
    <3>1. saw' => Final
      BY <1>5, <1>11, <2>1 DEF Ends
    <3>. QED
      BY <1>5, <1>6, <1>14, <2>1, <3>1, ZenonT(30) DEF Ends, StreamDropped
  <2>4. Marks' /\ OneWay'
    BY <1>6, <1>14, <2>1, Zenon DEF Marks, OneWay
  <2>5. Front(b1, b2, b3)' /\ Rear(b3, b4, b5)'
    BY <1>6, <1>12, <2>1, Zenon DEF Front, Rear
  <2>. QED
    BY <1>6, <2>2, <2>3, <2>4, <2>5, Zenon DEF PathInv, Chained
\* [DONE].
<1>15. CASE /\ f.what = "done" /\ pump = "run" /\ pipe' = Append(pipe, TerminalToken)
            /\ driver' = "ok" /\ saw' = saw
  <2>1. PICK t : t = TerminalToken
    BY ZenonT(30)
  <2>2. t \in Item(EngineFins) /\ t.text = <<>> /\ (Marked(t) <=> ~saw)
    BY <1>7, <2>1 DEF TerminalToken, Event, Item, EngineFins, Marked
  <2>3. pipe' \in Seq(Item(EngineFins))
    BY <1>7, <1>15, <2>1, <2>2
  <2>4. Types'
    BY <1>5, <1>6, <1>8, <1>15, <2>3 DEF Types
  <2>5. Final
    BY <1>5, <1>7, <1>9, <1>15, ZenonT(30) DEF Marks
  <2>6. Ends'
    BY <1>5, <1>6, <1>15, <2>5, ZenonT(30) DEF Ends
  <2>7. Marks'
    BY <1>15 DEF Marks
  <2>8. OneWay'
    <3>. SUFFICES ASSUME Live PROVE OneWay'
      BY <1>6, Zenon DEF OneWay
    <3>1. CASE saw
      <4>1. /\ NoneIn(pipe) => NoneIn(pipe')
            /\ OneIn(pipe) => OneIn(pipe')
        BY <1>7, <1>15, <2>1, <2>2, <3>1, MarkAppended, Zenon
      <4>. QED
        BY <1>5, <1>6, <1>15, <3>1, <4>1, Zenon DEF OneWay
    <3>2. CASE ~saw
      <4>1. NoneIn(pipe) => OneIn(pipe')
        BY <1>7, <1>15, <2>1, <2>2, <3>2, MarkAppended, ZenonT(30)
      <4>2. fins = <<>> /\ NoneIn(sse) /\ NoneIn(tx) /\ NoneIn(pipe)
        BY <1>5, <1>7, <3>2 DEF OneWay
      <4>. QED
        BY <1>6, <1>15, <4>1, <4>2, Zenon DEF OneWay
    <3>. QED
      BY <1>7, <3>1, <3>2
  <2>9. Front(b1, b2, b3)'
    <3>1. ASSUME Live PROVE Spells(pipe', sent, b2, b3) /\ b3 = Len(sent)
      <4>1. Spells(pipe, sent, b2, b3) /\ Spells(body, sent, b3, b4) /\ b4 = Len(sent)
        BY <1>7, <1>9, <1>12, <1>15, <3>1, Zenon DEF Front, Rear
      <4>2. Spells(pipe', sent, b2, b3)
        BY <1>7, <1>13, <1>15, <2>1, <2>2, <4>1, Padded, ZenonT(30)
      <4>3. Head(body).text = <<>>
        <5>1. f.what # "chunk"
          BY <1>15
        <5>. QED
          BY <1>1, <1>9, <5>1
      <4>4. Spells(Tail(body), sent, b3, b4)
        BY <1>2, <1>7, <1>13, <4>1, <4>3, Skipped, Zenon
      <4>5. Spells(<<>>, sent, b3, b4)
        BY <1>2, <1>9, <1>15, <4>4, Zenon
      <4>6. b3 = b4
        BY <4>5, NothingSpells, Zenon
      <4>. QED
        BY <4>1, <4>2, <4>6, Zenon
    <3>. QED
      BY <1>6, <1>12, <3>1, Zenon DEF Front
  <2>10. Rear(b3, b4, b5)'
    BY <1>15, ZenonT(60) DEF Rear
  <2>. QED
    BY <1>6, <2>4, <2>6, <2>7, <2>8, <2>9, <2>10, Zenon DEF PathInv, Chained
\* A frame without text.
<1>16. CASE f.what # "done" /\ f.what # "chunk" /\ UNCHANGED <<driver, pipe, saw>>
  <2>1. Types'
    BY <1>5, <1>6, <1>8, <1>16 DEF Types
  <2>2. Ends'
    BY <1>5, <1>6, <1>7, <1>16, Zenon DEF Ends, ResponseDropped, StreamDropped
  <2>3. /\ NoneIn(body) => NoneIn(body')
        /\ OneIn(body) => OneIn(body')
    BY <1>1, <1>2, <1>7, <1>9, <1>10, <1>16, MarkTaken, Zenon
  <2>4. Marks'
    BY <1>5, <1>6, <1>7, <1>9, <1>16, <2>3, Zenon DEF Marks
  <2>5. OneWay'
    BY <1>5, <1>6, <1>16, Zenon DEF OneWay
  <2>6. Front(b1, b2, b3)'
    BY <1>6, <1>12, <1>16, Zenon DEF Front
  <2>7. ASSUME Spells(body, sent, b3, b4) PROVE Spells(body', sent, b3, b4)
    BY <1>1, <1>2, <1>7, <1>9, <1>13, <1>16, <2>7, Skipped, Zenon
  <2>8. Rear(b3, b4, b5)'
    BY <1>6, <1>9, <1>12, <1>16, <2>7, Zenon DEF Rear
  <2>. QED
    BY <1>6, <2>1, <2>2, <2>4, <2>5, <2>6, <2>8, Zenon DEF PathInv, Chained
\* A chunk.
<1>17. CASE /\ f.what = "chunk" /\ pump = "run" /\ pipe' = Append(pipe, x)
            /\ driver' = "read" /\ saw' = (saw \/ f.fin # "none")
  <2>1. x \in Item(EngineFins) /\ x.text = f.text /\ (Marked(x) <=> Marked(f))
    BY <1>3, <1>10, Zenon DEF Event, Item, Marked
  <2>2. pipe' \in Seq(Item(EngineFins)) /\ saw' \in BOOLEAN /\ (saw' <=> saw \/ Marked(f))
    <3>1. pipe' \in Seq(Item(EngineFins))
      BY <1>7, <1>17, <2>1
    <3>2. (saw \/ f.fin # "none") \in BOOLEAN
      BY Zenon
    <3>. QED
      BY <1>10, <1>17, <3>1, <3>2, Zenon
  <2>3. Types'
    BY <1>5, <1>6, <1>8, <1>17, <2>2 DEF Types
  <2>4. Ends'
    <3>1. saw' => Final
      BY <1>5, <1>11, <2>2 DEF Ends
    <3>. QED
      BY <1>5, <1>6, <1>7, <1>17, <3>1, Zenon DEF Ends, ResponseDropped, StreamDropped
  <2>5. Marks'
    <3>1. CASE Marked(f)
      BY <1>6, <1>9, <1>11, <1>5, <1>7, <3>1, EmptyUnmarked, Zenon DEF Marks
    <3>2. CASE ~Marked(f)
      <4>1. /\ NoneIn(body) => NoneIn(body')
            /\ OneIn(body) => OneIn(body')
        BY <1>1, <1>2, <1>7, <3>2, MarkTaken, Zenon
      <4>2. saw' <=> saw
        BY <2>2, <3>2, Zenon
      <4>. QED
        BY <1>5, <1>6, <1>7, <1>9, <4>1, <4>2, ZenonT(30) DEF Marks
    <3>. QED
      BY <3>1, <3>2
  <2>6. OneWay'
    <3>. SUFFICES ASSUME Live PROVE OneWay'
      BY <1>6, Zenon DEF OneWay
    <3>1. CASE ~Marked(f)
      <4>1. /\ NoneIn(pipe) => NoneIn(pipe')
            /\ OneIn(pipe) => OneIn(pipe')
        BY <1>7, <1>17, <2>1, <3>1, MarkAppended, Zenon
      <4>2. (saw' <=> saw) /\ driver' = driver
        BY <1>7, <1>17, <2>2, <3>1
      <4>. QED
        BY <1>5, <1>6, <4>1, <4>2, Zenon DEF OneWay
    <3>2. CASE Marked(f)
      <4>1. NoneIn(pipe) => OneIn(pipe')
        BY <1>7, <1>17, <2>1, <3>2, MarkAppended, ZenonT(30)
      <4>2. fins = <<>> /\ NoneIn(sse) /\ NoneIn(tx) /\ NoneIn(pipe) /\ saw'
        BY <1>5, <1>7, <1>11, <2>2, <3>2 DEF OneWay
      <4>. QED
        BY <1>6, <4>1, <4>2, Zenon DEF OneWay
    <3>. QED
      BY <3>1, <3>2
  <2>7. CASE ~Live
    <3>1. Front(b1, b2, b3)' /\ Rear(b3, b4, b5)'
      BY <1>6, <1>12, <2>7, Zenon DEF Front, Rear
    <3>. QED
      BY <1>6, <2>3, <2>4, <2>5, <2>6, <3>1, Zenon DEF PathInv, Chained
  <2>8. CASE Live
    <3>1. Spells(pipe, sent, b2, b3) /\ Spells(body, sent, b3, b4)
      BY <1>7, <1>12, <2>8, ZenonT(30) DEF Front, Rear
    <3>2. x.text = Head(body).text
      BY <1>1, <2>1
    <3>3. PICK m \in Nat : Spells(pipe', sent, b2, m) /\ Spells(body', sent, m, b4)
      BY <1>2, <1>7, <1>13, <1>17, <2>1, <3>1, <3>2, Moved, Zenon
    <3>4. driver' # "ok"
      BY <1>17
    <3>5. Front(b1, b2, m)'
      BY <1>6, <1>12, <3>3, <3>4, Zenon DEF Front
    <3>6. Rear(m, b4, b5)'
      BY <1>6, <1>7, <1>9, <1>12, <3>3, ZenonT(60) DEF Rear
    <3>. QED
      BY <1>6, <2>3, <2>4, <2>5, <2>6, <3>5, <3>6, Zenon DEF PathInv, Chained
  <2>. QED
    BY <2>7, <2>8, Zenon
<1>. QED
  BY <1>4, <1>14, <1>15, <1>16, <1>17

LEMMA DriverEndsKeeps == ASSUME PathInv, DriverEnds PROVE PathInv'
<1>1. /\ DriverStep /\ body = <<>> /\ bodyEnd \in {"eof", "reset"} /\ UNCHANGED <<body, saw>>
      /\ \/ driver' = "internal" /\ pipe' = pipe
         \/ /\ bodyEnd # "reset" /\ saw
            /\ \/ pump = "run" /\ pipe' = Append(pipe, TerminalToken) /\ driver' = "ok"
               \/ pump = "done" /\ pipe' = pipe /\ driver' = "ok"
  BY DEF DriverEnds, DriverSends, DriverStep, serving
<1>2. Types /\ Ends /\ Marks /\ OneWay /\ Chained
  BY Zenon DEF PathInv
<1>3. /\ UNCHANGED <<sent, fate, out, events, bodyEnd, pump, tx, agent, router, sse, client, got,
                     fins, kind, surface>>
      /\ EmitInv' /\ Whole' /\ Live' = Live /\ Final' = Final /\ StartsWith(sent', got')
      /\ Live => pump = "run" /\ router # "ended"
      /\ agent # "ended"
  BY <1>1, DriverFrame, Zenon
<1>4. driver = "read" /\ driver' \in {"ok", "internal"}
  BY <1>1, Zenon DEF DriverStep
<1>5. PICK t : t = TerminalToken
  BY Zenon
<1>6. t \in Item(EngineFins) /\ t.text = <<>> /\ (Marked(t) <=> ~saw)
  <2>1. saw \in BOOLEAN
    BY <1>2, Zenon DEF Types
  <2>2. CASE saw
    BY <1>5, <2>2 DEF TerminalToken, Event, Item, EngineFins, Marked
  <2>3. CASE ~saw
    BY <1>5, <2>3 DEF TerminalToken, Event, Item, EngineFins, Marked
  <2>. QED
    BY <2>1, <2>2, <2>3
<1>7. pipe \in Seq(Item(EngineFins)) /\ sent \in Seq(Chars) /\ saw \in BOOLEAN
  BY <1>2, Zenon DEF Types
<1>8. pipe' = pipe \/ (saw /\ pump = "run" /\ pipe' = Append(pipe, t))
  BY <1>1, <1>5, ZenonT(30)
<1>9. Types'
  <2>1. pipe' \in Seq(Item(EngineFins))
    BY <1>6, <1>7, <1>8
  <2>. QED
    BY <1>1, <1>2, <1>3, <1>4, <2>1 DEF Types, Failures
<1>10. Ends'
  BY <1>1, <1>2, <1>3, <1>4, <1>8, Zenon DEF Types, Ends, ResponseDropped
<1>11. Marks'
  BY <1>4, Zenon DEF Marks
<1>12. OneWay'
  <2>. SUFFICES ASSUME Live PROVE OneWay'
    BY <1>3, Zenon DEF OneWay
  <2>1. driver' = "ok" => saw
    BY <1>1
  <2>2. ASSUME saw
        PROVE  /\ NoneIn(pipe) => NoneIn(pipe')
               /\ OneIn(pipe) => OneIn(pipe')
    BY <1>6, <1>7, <1>8, <2>2, MarkAppended, Zenon
  <2>3. CASE saw
    BY <1>1, <1>2, <1>3, <2>2, <2>3, Zenon DEF OneWay
  <2>4. CASE ~saw
    <3>1. pipe' = pipe /\ driver' # "ok" /\ driver # "ok"
      BY <1>4, <1>8, <2>1, <2>4, Zenon
    <3>. QED
      BY <1>1, <1>2, <1>3, <2>4, <3>1, Zenon DEF OneWay
  <2>. QED
    BY <1>7, <2>3, <2>4
<1>13. PICK b1, b2, b3, b4, b5 : Front(b1, b2, b3) /\ Rear(b3, b4, b5)
  BY <1>2, Zenon DEF Chained
<1>14. Front(b1, b2, b3)'
  <2>1. ASSUME Live PROVE Spells(pipe', sent, b2, b3)
    <3>1. Spells(pipe, sent, b2, b3)
      BY <1>13, <2>1, Zenon DEF Front
    <3>. QED
      BY <1>6, <1>7, <1>8, <3>1, Padded, Zenon
  <2>2. ASSUME Live, driver' = "ok" PROVE b3 = Len(sent)
    <3>1. bodyEnd = "eof" /\ bodyEnd # "reset"
      BY <1>1, <2>2
    <3>2. out = <<>> /\ events = <<>>
      BY <1>2, <3>1, Zenon DEF Ends
    <3>3. /\ Spells(<<>>, sent, b3, b4) /\ Spells(<<>>, sent, b4, b5)
          /\ Spells(<<>>, sent, b5, Len(sent))
      BY <1>1, <1>4, <1>13, <2>2, <3>1, <3>2, Zenon DEF Rear
    <3>. QED
      BY <3>3, NothingSpells, Zenon
  <2>. QED
    BY <1>3, <1>13, <2>1, <2>2, Zenon DEF Front
<1>15. Rear(b3, b4, b5)'
  BY <1>4 DEF Rear
<1>. QED
  BY <1>3, <1>9, <1>10, <1>11, <1>12, <1>14, <1>15, Zenon DEF PathInv, Chained

LEMMA ReadTimeoutKeeps == ASSUME PathInv, ReadTimeout PROVE PathInv'
<1>1. DriverStep /\ driver' = "internal" /\ UNCHANGED <<body, saw, pipe>>
  BY Zenon DEF ReadTimeout, DriverStep, serving
<1>2. Types /\ Ends /\ Marks /\ OneWay /\ Chained
  BY Zenon DEF PathInv
<1>3. /\ UNCHANGED <<sent, fate, out, events, bodyEnd, pump, tx, agent, router, sse, client, got,
                     fins, kind, surface>>
      /\ EmitInv' /\ Whole' /\ Live' = Live /\ Final' = Final /\ StartsWith(sent', got')
      /\ Live => pump = "run" /\ router # "ended"
      /\ agent # "ended"
  BY <1>1, DriverFrame
<1>4. driver = "read" /\ driver # "ok" /\ driver' # "ok" /\ driver' # "read"
  BY <1>1, Zenon DEF DriverStep
<1>5. Types'
  BY <1>1, <1>2, <1>3, ZenonT(30) DEF Types, Failures
<1>6. Ends'
  BY <1>1, <1>2, <1>3, <1>4, Zenon DEF Types, Ends, ResponseDropped
<1>7. Marks' /\ OneWay'
  BY <1>1, <1>2, <1>3, <1>4, Zenon DEF Marks, OneWay
<1>8. PICK b1, b2, b3, b4, b5 : Front(b1, b2, b3) /\ Rear(b3, b4, b5)
  BY <1>2, Zenon DEF Chained
<1>9. Front(b1, b2, b3)' /\ Rear(b3, b4, b5)'
  BY <1>1, <1>3, <1>4, <1>8, ZenonT(30) DEF Front, Rear
<1>. QED
  BY <1>3, <1>5, <1>6, <1>7, <1>9, Zenon DEF PathInv, Chained

-----------------------------------------------------------------------------
(* The steps of the agent's pump and task, the router and the client.      *)

\* What they leave alone.
LaterStep ==
    UNCHANGED <<vars, out, events, body, bodyEnd, driver, saw, config>>

LEMMA LaterFrame ==
    ASSUME PathInv, LaterStep, Live' => Live
    PROVE  /\ UNCHANGED <<sent, fate, out, events, body, bodyEnd, driver, saw, kind, surface>>
           /\ EmitInv' /\ Marks' /\ Final' = Final
           /\ \A b3, b4, b5 : Rear(b3, b4, b5) => Rear(b3, b4, b5)'
<1>1. UNCHANGED <<generated, emitted, sent, fate, out, events, body, bodyEnd, driver, saw, kind, surface>>
  BY Zenon DEF LaterStep, vars, config
<1>2. EmitInv /\ Marks
  BY Zenon DEF PathInv
<1>3. EmitInv'
  BY <1>1, <1>2, EmitsNothing, Zenon
<1>4. Final' = Final
  BY <1>1 DEF Final
<1>5. Marks'
  BY <1>1, <1>2, <1>4, Zenon DEF Marks
<1>6. ASSUME NEW b3, NEW b4, NEW b5, Rear(b3, b4, b5) PROVE Rear(b3, b4, b5)'
  BY <1>1, <1>6, Zenon DEF Rear
<1>. QED
  BY <1>1, <1>3, <1>4, <1>5, <1>6, Zenon

LEMMA PumpForwardsKeeps == ASSUME PathInv, PumpForwards PROVE PathInv'
<1>1. /\ LaterStep /\ UNCHANGED <<agent, router, sse, client, got, fins>> /\ pump = "run"
      /\ \/ pipe # <<>> /\ ~StreamDropped /\ tx' = Append(tx, Head(pipe)) /\ pipe' = Tail(pipe) /\ pump' = pump
         \/ StreamDropped /\ pump' = "done" /\ pipe' = <<>> /\ tx' = tx
         \/ pipe = <<>> /\ ResponseDropped /\ pump' = "done" /\ UNCHANGED <<pipe, tx>>
  BY Zenon DEF PumpForwards, LaterStep, serving, routerSide
<1>2. Types /\ Ends /\ OneWay /\ Chained /\ Whole
  BY Zenon DEF PathInv
<1>3. Live' = Live /\ agent # "ended"
  BY <1>1, <1>2 DEF Live, Ends
<1>4. /\ UNCHANGED <<sent, fate, out, events, body, bodyEnd, driver, saw, kind, surface>>
      /\ EmitInv' /\ Marks' /\ Final' = Final
      /\ \A b3, b4, b5 : Rear(b3, b4, b5) => Rear(b3, b4, b5)'
  BY <1>1, <1>3, LaterFrame
<1>5. Whole'
  BY <1>1, <1>2, <1>4, Zenon DEF Whole
<1>6. StreamDropped => ~Live
  BY <1>2, <1>3 DEF StreamDropped, Ends, Live
<1>7. PICK b1, b2, b3, b4, b5 : Front(b1, b2, b3) /\ Rear(b3, b4, b5)
  BY <1>2 DEF Chained
<1>8. StartsWith(sent', got')
  BY <1>1, <1>2, <1>4, Zenon DEF Chained
<1>9. pipe \in Seq(Item(EngineFins)) /\ tx \in Seq(Item(EngineFins \cup Failures)) /\ sent \in Seq(Chars)
  BY <1>2 DEF Types
<1>10. CASE /\ pump' = "done" /\ pipe' = <<>> /\ tx' = tx
            /\ (Live => ResponseDropped /\ pipe = <<>>)
  <2>1. Types'
    <3>1. <<>> \in Seq(Item(EngineFins))
      OBVIOUS
    <3>. QED
      BY <1>1, <1>2, <1>4, <1>10, <3>1 DEF Types
  <2>2. Ends'
    BY <1>1, <1>2, <1>3, <1>4, <1>10, Zenon DEF Ends, ResponseDropped, StreamDropped
  <2>3. OneWay' /\ Front(b1, b2, b3)'
    BY <1>1, <1>2, <1>3, <1>4, <1>7, <1>10, Zenon DEF OneWay, Front
  <2>. QED
    BY <1>4, <1>5, <1>7, <1>8, <2>1, <2>2, <2>3, ZenonT(30) DEF PathInv, Chained
<1>11. CASE pipe # <<>> /\ tx' = Append(tx, Head(pipe)) /\ pipe' = Tail(pipe) /\ pump' = pump
  <2>1. PICK x : x = Head(pipe) /\ x \in Item(EngineFins) /\ pipe' \in Seq(Item(EngineFins))
    BY <1>9, <1>11
  <2>2. x \in Item(EngineFins \cup Failures)
    BY <2>1 DEF Item
  <2>3. tx' = Append(tx, x) /\ tx' \in Seq(Item(EngineFins \cup Failures))
    BY <1>9, <1>11, <2>1, <2>2
  <2>4. Types'
    BY <1>1, <1>2, <1>4, <1>11, <2>1, <2>3 DEF Types
  <2>5. Ends'
    <3>1. ~(router = "ended" /\ Live)
      BY <1>2, <1>3, Zenon DEF Ends
    <3>. QED
      BY <1>1, <1>2, <1>3, <1>4, <1>11, <3>1, Zenon DEF Ends
  <2>6. OneWay'
    <3>1. /\ NoneIn(pipe) => NoneIn(pipe') /\ ~Marked(x)
          /\ OneIn(pipe) /\ Marked(x) => NoneIn(pipe')
          /\ OneIn(pipe) /\ ~Marked(x) => OneIn(pipe')
      BY <1>9, <1>11, <2>1, MarkTaken, Zenon
    <3>2. /\ NoneIn(tx) /\ ~Marked(x) => NoneIn(tx')
          /\ NoneIn(tx) /\ Marked(x) => OneIn(tx')
          /\ OneIn(tx) /\ ~Marked(x) => OneIn(tx')
      BY <1>9, <2>2, <2>3, MarkAppended, Zenon
    <3>. QED
      BY <1>1, <1>2, <1>3, <1>4, <3>1, <3>2, Zenon DEF OneWay
  <2>7. CASE ~Live
    <3>1. Front(b1, b2, b3)'
      BY <1>1, <1>3, <1>4, <1>7, <2>7, Zenon DEF Front
    <3>. QED
      BY <1>4, <1>5, <1>7, <1>8, <2>4, <2>5, <2>6, <3>1, Zenon DEF PathInv, Chained
  <2>8. CASE Live
    <3>1. Spells(tx, sent, b1, b2) /\ Spells(pipe, sent, b2, b3)
      BY <1>7, <2>8, Zenon DEF Front
    <3>2. x.text = Head(pipe).text
      BY <2>1
    <3>3. PICK m \in Nat : Spells(tx', sent, b1, m) /\ Spells(pipe', sent, m, b3)
      BY <1>9, <1>11, <2>2, <2>3, <3>1, <3>2, Moved, ZenonT(30)
    <3>4. Front(b1, m, b3)'
      BY <1>1, <1>3, <1>4, <1>7, <3>3, Zenon DEF Front
    <3>. QED
      BY <1>4, <1>5, <1>7, <1>8, <2>4, <2>5, <2>6, <3>4, Zenon DEF PathInv, Chained
  <2>. QED
    BY <2>7, <2>8, Zenon
<1>. QED
  BY <1>1, <1>6, <1>10, <1>11, Zenon

LEMMA TaskEndsKeeps == ASSUME PathInv, TaskEnds PROVE PathInv'
<1>1. /\ LaterStep /\ UNCHANGED <<pipe, pump, router, sse, client, got, fins>> /\ pump = "done"
      /\ ResponseDropped /\ agent' = "ended"
      /\ \/ tx' = tx /\ (driver = "ok" \/ StreamDropped)
         \/ driver # "ok" /\ tx' = Append(tx, Event(<<>>, driver))
  BY Zenon DEF TaskEnds, LaterStep, serving, routerSide
<1>2. Types /\ Ends /\ OneWay /\ Chained /\ Whole
  BY Zenon DEF PathInv
<1>3. Live' = Live
  BY <1>1, Zenon DEF Live
<1>4. /\ UNCHANGED <<sent, fate, out, events, body, bodyEnd, driver, saw, kind, surface>>
      /\ EmitInv' /\ Marks' /\ Final' = Final
      /\ \A b3, b4, b5 : Rear(b3, b4, b5) => Rear(b3, b4, b5)'
  BY <1>1, <1>3, LaterFrame, Zenon
<1>5. Whole'
  BY <1>1, <1>2, <1>4 DEF Whole
<1>6. PICK b1, b2, b3, b4, b5 : Front(b1, b2, b3) /\ Rear(b3, b4, b5)
  BY <1>2, Zenon DEF Chained
<1>7. StartsWith(sent', got')
  BY <1>1, <1>2, <1>4, ZenonT(30) DEF Chained
<1>8. CASE tx' = tx /\ (driver = "ok" \/ StreamDropped)
  <2>1. Types'
    BY <1>1, <1>2, <1>4, <1>8, ZenonT(30) DEF Types
  <2>2. Ends'
    BY <1>1, <1>2, <1>3, <1>4, <1>8, ZenonT(30) DEF Ends, ResponseDropped, StreamDropped
  <2>3. OneWay' /\ Front(b1, b2, b3)'
    BY <1>1, <1>2, <1>3, <1>4, <1>6, <1>8, Zenon DEF OneWay, Front
  <2>. QED
    BY <1>4, <1>5, <1>6, <1>7, <2>1, <2>2, <2>3, Zenon DEF PathInv, Chained
<1>9. CASE driver # "ok" /\ tx' = Append(tx, Event(<<>>, driver))
  <2>1. PICK x : x = Event(<<>>, driver)
    BY Zenon
  <2>2. driver \in Failures
    BY <1>1, <1>9, Zenon DEF ResponseDropped, Failures
  <2>3. x \in Item(EngineFins \cup Failures) /\ x.text = <<>> /\ ~Marked(x) /\ IsError(x)
    BY <2>1, <2>2 DEF Event, Item, Failures, Marked, IsError
  <2>4. tx \in Seq(Item(EngineFins \cup Failures)) /\ sent \in Seq(Chars) /\ tx' = Append(tx, x)
    BY <1>2, <1>9, <2>1, Zenon DEF Types
  <2>5. tx' \in Seq(Item(EngineFins \cup Failures)) /\ tx' # <<>> /\ tx'[Len(tx')] = x
    BY <2>3, <2>4
  <2>6. Types'
    BY <1>1, <1>2, <1>4, <2>5 DEF Types
  <2>7. Ends'
    <3>1. IsError(tx'[Len(tx')])
      BY <2>3, <2>5
    <3>2. ~(router = "ended" /\ Live)
      BY <1>2, <1>9, Zenon DEF Ends
    <3>. QED
      BY <1>1, <1>2, <1>3, <1>4, <2>5, <3>1, <3>2, Zenon DEF Ends, ResponseDropped
  <2>8. OneWay'
    <3>1. /\ NoneIn(tx) => NoneIn(tx')
          /\ OneIn(tx) => OneIn(tx')
      BY <2>3, <2>4, MarkAppended, Zenon
    <3>. QED
      BY <1>1, <1>2, <1>3, <1>4, <3>1, Zenon DEF OneWay
  <2>9. Front(b1, b2, b3)'
    <3>1. ASSUME Spells(tx, sent, b1, b2) PROVE Spells(tx', sent, b1, b2)
      BY <2>3, <2>4, <3>1, Padded, ZenonT(30)
    <3>. QED
      BY <1>1, <1>3, <1>4, <1>6, <3>1, Zenon DEF Front
  <2>. QED
    BY <1>4, <1>5, <1>6, <1>7, <2>6, <2>7, <2>8, <2>9, Zenon DEF PathInv, Chained
<1>. QED
  BY <1>1, <1>8, <1>9

\* The router's steps, apart from what they do to its channels.
RouterStep ==
    /\ LaterStep /\ UNCHANGED <<pipe, pump, agent, client, got, fins>>
    /\ router \in {"first", "pump"}

LEMMA RouterFrame ==
    ASSUME PathInv, RouterStep
    PROVE  /\ UNCHANGED <<sent, fate, out, events, body, bodyEnd, driver, saw, kind, surface,
                          pipe, pump, agent, client, got, fins>>
           /\ EmitInv' /\ Marks' /\ Whole' /\ StartsWith(sent', got') /\ Final' = Final
           /\ client # "done" /\ (Live' => Live)
           /\ \A b3, b4, b5 : Rear(b3, b4, b5) => Rear(b3, b4, b5)'
<1>1. UNCHANGED <<pipe, pump, agent, client, got, fins>> /\ router # "failed" /\ router # "ended"
  BY Zenon DEF RouterStep
<1>2. Live' => Live
  BY <1>1, Zenon DEF Live
<1>3. /\ UNCHANGED <<sent, fate, out, events, body, bodyEnd, driver, saw, kind, surface>>
      /\ EmitInv' /\ Marks' /\ Final' = Final
      /\ \A b3, b4, b5 : Rear(b3, b4, b5) => Rear(b3, b4, b5)'
  BY <1>2, LaterFrame, Zenon DEF RouterStep
<1>4. client # "done" /\ StartsWith(sent, got)
  BY <1>1 DEF PathInv, Whole, Chained
<1>5. Whole'
  BY <1>1, <1>4, Zenon DEF Whole
<1>6. StartsWith(sent', got')
  BY <1>1, <1>3, <1>4, Zenon
<1>. QED
  BY <1>1, <1>2, <1>3, <1>4, <1>5, <1>6, Zenon

\* The router gives the stream up, or finds the client gone.
LEMMA RouterDropsKeeps ==
    ASSUME PathInv, RouterStep, tx' = <<>>, sse' = sse,
           router' = "failed" \/ (router' = "ended" /\ client # "open")
    PROVE  PathInv'
<1>1. /\ UNCHANGED <<sent, fate, out, events, body, bodyEnd, driver, saw, kind, surface,
                     pipe, pump, agent, client, got, fins>>
      /\ EmitInv' /\ Marks' /\ Whole' /\ StartsWith(sent', got') /\ Final' = Final
      /\ client # "done" /\ (Live' => Live)
      /\ \A b3, b4, b5 : Rear(b3, b4, b5) => Rear(b3, b4, b5)'
  BY RouterFrame, Zenon
<1>2. Types /\ Ends /\ Chained
  BY Zenon DEF PathInv
<1>3. ~Live'
  BY <1>1 DEF Live
<1>4. Types'
  <2>1. <<>> \in Seq(Item(EngineFins \cup Failures))
    OBVIOUS
  <2>. QED
    BY <1>1, <1>2, <2>1 DEF Types
<1>5. Ends'
  BY <1>1, <1>2, <1>3, Zenon DEF Ends, ResponseDropped, StreamDropped
<1>6. OneWay'
  BY <1>3, Zenon DEF OneWay
<1>7. PICK b1, b2, b3, b4, b5 : Front(b1, b2, b3) /\ Rear(b3, b4, b5)
  BY <1>2, Zenon DEF Chained
<1>8. Front(b1, b2, b3)'
  BY <1>1, <1>3, <1>7, Zenon DEF Front
<1>. QED
  BY <1>1, <1>4, <1>5, <1>6, <1>7, <1>8, ZenonT(30) DEF PathInv, Chained

\* The router begins to stream, or ends.
LEMMA RouterTurnsKeeps ==
    ASSUME PathInv, RouterStep, UNCHANGED <<tx, sse>>,
           \/ router = "first" /\ router' = "pump"
           \/ router' = "ended" /\ tx = <<>> /\ agent = "ended"
    PROVE  PathInv'
<1>1. /\ UNCHANGED <<sent, fate, out, events, body, bodyEnd, driver, saw, kind, surface,
                     pipe, pump, agent, client, got, fins>>
      /\ EmitInv' /\ Marks' /\ Whole' /\ StartsWith(sent', got') /\ Final' = Final
      /\ client # "done" /\ (Live' => Live)
      /\ \A b3, b4, b5 : Rear(b3, b4, b5) => Rear(b3, b4, b5)'
  BY RouterFrame
<1>2. Types /\ Ends /\ OneWay /\ Chained
  BY Zenon DEF PathInv
<1>3. Live' = Live /\ ~StreamDropped
  BY <1>1, Zenon DEF Live, RouterStep, StreamDropped
<1>4. Types'
  BY <1>1, <1>2 DEF Types
<1>5. Ends'
  <2>1. router' = "ended" => agent = "ended" /\ driver = "ok" /\ tx = <<>>
    BY <1>2, <1>3, Zenon DEF Ends
  <2>. QED
    BY <1>1, <1>2, <1>3, <2>1, Zenon DEF Ends, ResponseDropped
<1>6. OneWay'
  BY <1>1, <1>2, <1>3, Zenon DEF OneWay
<1>7. PICK b1, b2, b3, b4, b5 : Front(b1, b2, b3) /\ Rear(b3, b4, b5)
  BY <1>2, Zenon DEF Chained
<1>8. Front(b1, b2, b3)'
  BY <1>1, <1>3, <1>7, Zenon DEF Front
<1>. QED
  BY <1>1, <1>4, <1>5, <1>6, <1>7, <1>8, ZenonT(30) DEF PathInv, Chained

LEMMA RouterForwardsKeeps == ASSUME PathInv, RouterForwards PROVE PathInv'
<1>1. PICK x : x = Head(tx)
  BY Zenon
<1>2. /\ RouterStep /\ router = "pump" /\ tx # <<>>
      /\ \/ x = Blank /\ tx' = Tail(tx) /\ UNCHANGED <<sse, router>>
         \/ /\ client = "open" /\ sse' = Append(sse, x)
            /\ IF IsError(x) THEN router' = "failed" /\ tx' = <<>>
                             ELSE router' = router /\ tx' = Tail(tx)
         \/ client # "open" /\ router' = "ended" /\ tx' = <<>> /\ sse' = sse
  BY <1>1 DEF RouterForwards, RouterStep, LaterStep, serving
<1>3. /\ UNCHANGED <<sent, fate, out, events, body, bodyEnd, driver, saw, kind, surface,
                     pipe, pump, agent, client, got, fins>>
      /\ EmitInv' /\ Marks' /\ Whole' /\ StartsWith(sent', got') /\ Final' = Final
      /\ client # "done" /\ (Live' => Live)
      /\ \A b3, b4, b5 : Rear(b3, b4, b5) => Rear(b3, b4, b5)'
  BY <1>2, RouterFrame, Zenon
<1>4. Types /\ Ends /\ OneWay /\ Chained
  BY Zenon DEF PathInv
<1>5. PICK X : X = Item(EngineFins \cup Failures)
  BY Zenon
<1>6. tx \in Seq(X) /\ sse \in Seq(X) /\ sent \in Seq(Chars)
  BY <1>4, <1>5 DEF Types
<1>7. x \in X /\ Tail(tx) \in Seq(X) /\ Append(sse, x) \in Seq(X) /\ <<>> \in Seq(X)
  BY <1>1, <1>2, <1>6
<1>8. PICK b1, b2, b3, b4, b5 : Front(b1, b2, b3) /\ Rear(b3, b4, b5)
  BY <1>4, Zenon DEF Chained
\* An item that is not an error leaves the error that ends the stream behind.
<1>9. ASSUME ~IsError(x), tx # <<>>, IsError(tx[Len(tx)])
      PROVE  Tail(tx) # <<>> /\ Tail(tx)[Len(Tail(tx))] = tx[Len(tx)]
  <2>0. tx[1] = x /\ Len(tx) \in Nat
    BY <1>1, <1>6, <1>9
  <2>1. PICK n \in Nat, u \in Seq(X) : n = Len(tx) /\ u = Tail(tx)
    BY <1>7, <2>0, Zenon
  <2>2. n # 1 /\ n # 0
    BY <1>6, <1>9, <2>0, <2>1
  <2>3. Len(u) = n - 1 /\ \A i \in 1 .. n - 1 : u[i] = tx[i + 1]
    BY <1>6, <1>9, <2>1
  <2>4. u[n - 1] = tx[(n - 1) + 1] /\ (n - 1) + 1 = n /\ Len(u) # 0
    BY <2>2, <2>3
  <2>5. u # <<>> /\ u[Len(u)] = tx[Len(tx)]
    BY <2>1, <2>3, <2>4, Zenon
  <2>. QED
    BY <2>1, <2>5, Zenon
<1>10. /\ NoneIn(tx) => NoneIn(Tail(tx)) /\ ~Marked(x)
       /\ OneIn(tx) /\ Marked(x) => NoneIn(Tail(tx))
       /\ OneIn(tx) /\ ~Marked(x) => OneIn(Tail(tx))
  BY <1>1, <1>2, <1>6, MarkTaken, Zenon
\* Usage only: dropped.
<1>11. CASE x = Blank /\ tx' = Tail(tx) /\ UNCHANGED <<sse, router>>
  <2>1. x.text = <<>> /\ ~Marked(x) /\ ~IsError(x)
    BY <1>11, Zenon DEF Blank, Event, Marked, IsError
  <2>2. Live' = Live /\ StreamDropped' = StreamDropped
    BY <1>3, <1>11, Zenon DEF Live, StreamDropped
  <2>3. Types'
    BY <1>3, <1>4, <1>5, <1>7, <1>11 DEF Types
  <2>4. Ends'
    <3>1. /\ agent = "ended" /\ ~StreamDropped /\ driver # "ok" =>
               tx' # <<>> /\ IsError(tx'[Len(tx')])
          /\ router' # "ended"
      BY <1>2, <1>4, <1>9, <1>11, <2>1, Zenon DEF Ends
    <3>. QED
      BY <1>3, <1>4, <2>2, <3>1, ZenonT(30) DEF Ends, ResponseDropped
  <2>5. OneWay'
    BY <1>3, <1>4, <1>10, <1>11, <2>1, <2>2, Zenon DEF OneWay
  <2>6. Front(b1, b2, b3)'
    <3>1. ASSUME Spells(tx, sent, b1, b2) PROVE Spells(tx', sent, b1, b2)
      BY <1>1, <1>2, <1>6, <1>11, <2>1, <3>1, Skipped, Zenon
    <3>. QED
      BY <1>3, <1>8, <1>11, <2>2, <3>1, Zenon DEF Front
  <2>. QED
    BY <1>3, <1>8, <2>3, <2>4, <2>5, <2>6, Zenon DEF PathInv, Chained
<1>12. CASE /\ client = "open" /\ sse' = Append(sse, x)
            /\ IF IsError(x) THEN router' = "failed" /\ tx' = <<>>
                             ELSE router' = router /\ tx' = Tail(tx)
  <2>1. Live
    BY <1>2, <1>12, Zenon DEF Live
  <2>2. Spells(sse, sent, Len(got), b1) /\ Spells(tx, sent, b1, b2) /\ Spells(pipe, sent, b2, b3)
    BY <1>8, <1>12, <2>1, Zenon DEF Front
  <2>3. x.text = Head(tx).text
    BY <1>1
  <2>4. PICK m \in Nat : Spells(Append(sse, x), sent, Len(got), m) /\ Spells(Tail(tx), sent, m, b2)
    BY <1>2, <1>6, <1>7, <2>2, <2>3, Moved, Zenon
  <2>5. tx' \in Seq(X) /\ sse' \in Seq(X) /\ router' \in {"failed", "pump"}
    BY <1>2, <1>7, <1>12, ZenonT(30)
  <2>6. Types'
    BY <1>3, <1>4, <1>5, <2>5 DEF Types
  <2>7. CASE IsError(x)
    <3>1. ~Live' /\ router' = "failed"
      BY <1>12, <2>7, Zenon DEF Live
    <3>2. Ends' /\ OneWay'
      BY <1>3, <1>4, <3>1, Zenon DEF Ends, OneWay, ResponseDropped, StreamDropped
    <3>3. Front(m, b2, b3)'
      BY <1>3, <1>12, <2>4, <3>1, Zenon DEF Front
    <3>. QED
      BY <1>3, <1>8, <2>6, <3>2, <3>3, Zenon DEF PathInv, Chained
  <2>8. CASE ~IsError(x)
    <3>1. router' = router /\ tx' = Tail(tx) /\ router' # "ended"
      BY <1>2, <1>12, <2>8, Zenon
    <3>2. Live' = Live /\ StreamDropped' = StreamDropped
      BY <1>3, <3>1 DEF Live, StreamDropped
    <3>3. Ends'
      <4>1. agent = "ended" /\ ~StreamDropped /\ driver # "ok" => tx' # <<>> /\ IsError(tx'[Len(tx')])
        BY <1>2, <1>4, <1>9, <2>8, <3>1 DEF Ends
      <4>. QED
        BY <1>3, <1>4, <3>1, <3>2, <4>1, ZenonT(30) DEF Ends, ResponseDropped
    <3>4. OneWay'
      <4>1. /\ NoneIn(sse) /\ ~Marked(x) => NoneIn(sse')
            /\ NoneIn(sse) /\ Marked(x) => OneIn(sse')
            /\ OneIn(sse) /\ ~Marked(x) => OneIn(sse')
        BY <1>6, <1>7, <1>12, MarkAppended, Zenon
      <4>. QED
        BY <1>3, <1>4, <1>10, <3>1, <3>2, <4>1, Zenon DEF OneWay
    <3>5. Front(m, b2, b3)'
      BY <1>3, <1>8, <1>12, <2>2, <2>4, <3>1, <3>2, ZenonT(30) DEF Front
    <3>. QED
      BY <1>3, <1>8, <2>6, <3>3, <3>4, <3>5, Zenon DEF PathInv, Chained
  <2>. QED
    BY <2>7, <2>8, Zenon
<1>13. CASE client # "open" /\ router' = "ended" /\ tx' = <<>> /\ sse' = sse
  BY <1>2, <1>13, RouterDropsKeeps
<1>. QED
  BY <1>2, <1>11, <1>12, <1>13


LEMMA RouterKeeps ==
    ASSUME PathInv, Router \/ FirstTokenTimeout
    PROVE  PathInv'
<1>1. CASE FirstToken
  <2>1. RouterStep
    BY <1>1 DEF FirstToken, RouterStep, LaterStep, serving
  <2>2. CASE Dropped
    BY <2>1, <2>2, RouterDropsKeeps DEF Dropped
  <2>3. CASE router' = "pump" /\ UNCHANGED <<tx, sse>>
    <3>1. router = "first"
      BY <1>1 DEF FirstToken
    <3>. QED
      BY <2>1, <2>3, <3>1, RouterTurnsKeeps, Zenon
  <2>. QED
    BY <1>1, <2>2, <2>3, Zenon DEF FirstToken
<1>2. CASE FirstTokenTimeout
  <2>1. RouterStep /\ Dropped
    BY <1>2, Zenon DEF FirstTokenTimeout, RouterStep, LaterStep, serving
  <2>. QED
    BY <2>1, RouterDropsKeeps, Zenon DEF Dropped
<1>3. CASE ForwardBegins
  <2>1. RouterStep /\ UNCHANGED <<tx, sse>> /\ router = "first" /\ router' = "pump"
    BY <1>3 DEF ForwardBegins, RouterStep, LaterStep, serving, agentSide
  <2>. QED
    BY <2>1, RouterTurnsKeeps
<1>4. CASE RouterEnds
  <2>1. RouterStep /\ UNCHANGED <<tx, sse>> /\ router' = "ended" /\ tx = <<>> /\ agent = "ended"
    BY <1>4 DEF RouterEnds, RouterStep, LaterStep, serving, agentSide
  <2>. QED
    BY <2>1, RouterTurnsKeeps, Zenon
<1>. QED
  BY <1>1, <1>2, <1>3, <1>4, RouterForwardsKeeps DEF Router

\* The client takes an item out of the response.
LEMMA ClientTakesKeeps ==
    ASSUME PathInv, ClientReads, sse # <<>>
    PROVE  PathInv'
<1>1. PICK x : x = Head(sse)
  OBVIOUS
<1>2. /\ LaterStep /\ UNCHANGED <<pipe, pump, tx, agent, router>> /\ client = "open"
      /\ sse' = Tail(sse) /\ got' = got \o x.text
      /\ client' = IF IsError(x) THEN "failed" ELSE client
      /\ fins' = IF x.fin = "none" \/ IsError(x) THEN fins ELSE Append(fins, x.fin)
  BY <1>1, Zenon DEF ClientReads, LaterStep, serving, agentSide
<1>3. Live' => Live /\ ~IsError(x)
  BY <1>2, ZenonT(60) DEF Live
<1>4. /\ UNCHANGED <<sent, fate, out, events, body, bodyEnd, driver, saw, kind, surface>>
      /\ EmitInv' /\ Marks' /\ Final' = Final
      /\ \A b3, b4, b5 : Rear(b3, b4, b5) => Rear(b3, b4, b5)'
  BY <1>2, <1>3, LaterFrame
<1>5. Types /\ Ends /\ OneWay /\ Chained
  BY Zenon DEF PathInv
<1>6. PICK X : X = Item(EngineFins \cup Failures)
  BY Zenon
<1>7. sse \in Seq(X) /\ sent \in Seq(Chars) /\ got \in Seq(Chars)
  BY <1>5, <1>6 DEF Types
<1>8. x \in X /\ Tail(sse) \in Seq(X)
  BY <1>1, <1>7
<1>9. x.text \in Seq(Chars) /\ x.fin \in EngineFins \cup Failures
  BY <1>6, <1>8, Zenon DEF Item
<1>10. PICK b1, b2, b3, b4, b5 : Front(b1, b2, b3) /\ Rear(b3, b4, b5)
  BY <1>5, Zenon DEF Chained
<1>11. PICK g : g = got \o x.text
  BY Zenon
<1>12. PICK n \in Nat : n = Len(got)
  BY <1>7
<1>13. PICK m \in Nat : /\ n <= m /\ m <= b1 /\ x.text = SubSeq(sent, n + 1, m)
                        /\ Spells(Tail(sse), sent, m, b1)
  <2>1. Spells(sse, sent, n, b1)
    BY <1>2, <1>10, <1>12, Zenon DEF Front
  <2>. QED
    BY <1>1, <1>7, <2>1, SpellsTail, Zenon
<1>14. g \in Seq(Chars) /\ Len(g) = m /\ StartsWith(sent, g)
  <2>1. n <= Len(sent) /\ got = SubSeq(sent, 1, n)
    BY <1>5, <1>12 DEF Chained, StartsWith
  <2>2. m <= Len(sent)
    <3>1. Spells(Tail(sse), sent, m, b1)
      BY <1>13, Zenon
    <3>2. b1 <= Len(sent) /\ b1 \in Nat
      BY <1>7, <1>8, <3>1, Bounds, Zenon
    <3>3. Len(sent) \in Nat
      BY <1>7
    <3>. QED
      BY <1>13, <3>2, <3>3
  <2>3. PICK h : h = SubSeq(sent, 1, n) \o SubSeq(sent, n + 1, m)
    BY Zenon
  <2>4. g = h
    BY <1>11, <1>13, <2>1, <2>3, Zenon
  <2>5. h = SubSeq(sent, 1, IF m > n THEN m ELSE n)
    BY <1>7, <2>1, <2>2, <2>3, Cut, Zenon
  <2>6. (IF m > n THEN m ELSE n) = m
    BY <1>13
  <2>7. g = SubSeq(sent, 1, m)
    BY <2>4, <2>5, <2>6, Zenon
  <2>8. SubSeq(sent, 0 + 1, m) \in Seq(Chars) /\ Len(SubSeq(sent, 0 + 1, m)) = m
    <3>1. Len(SubSeq(sent, 0 + 1, m)) = IF 0 <= m THEN m - 0 ELSE 0
      BY <1>7, <2>2, Sub, Zenon
    <3>2. (IF 0 <= m THEN m - 0 ELSE 0) = m
      OBVIOUS
    <3>3. SubSeq(sent, 0 + 1, m) \in Seq(Chars)
      BY <1>7, <2>2, Sub, Zenon
    <3>. QED
      BY <3>1, <3>2, <3>3
  <2>9. 0 + 1 = 1
    OBVIOUS
  <2>10. g \in Seq(Chars) /\ Len(g) = m
    BY <2>7, <2>8, <2>9, Zenon
  <2>. QED
    BY <2>2, <2>7, <2>10, Zenon DEF StartsWith
<1>15. got' = g /\ client' \in {"open", "failed"}
  BY <1>2, <1>11
<1>16. Types'
  <2>1. /\ sent \in Seq(Chars) /\ kind \in {"native", "other"} /\ surface \in {"http", "grpc"}
        /\ out \in Seq(Item(EngineFins)) /\ events \in Seq(Item(EngineFins))
        /\ body \in Seq(Frames) /\ bodyEnd \in {"open", "head", "eof", "reset"}
        /\ driver \in {"post", "read", "ok"} \cup Failures /\ saw \in BOOLEAN
        /\ pipe \in Seq(Item(EngineFins)) /\ pump \in {"run", "done"}
        /\ tx \in Seq(X) /\ agent \in {"run", "ended"}
        /\ router \in {"first", "pump", "ended", "failed"}
    BY <1>5, <1>6, Zenon DEF Types
  <2>2. sse' \in Seq(X) /\ got' \in Seq(Chars)
    BY <1>2, <1>8, <1>14, <1>15, Zenon
  <2>3. client' \in {"open", "gone", "done", "failed"}
    BY <1>15, Zenon
  <2>. QED
    BY <1>2, <1>4, <1>6, <2>1, <2>2, <2>3, ZenonT(30) DEF Types
<1>17. Ends'
  BY <1>2, <1>3, <1>4, <1>5, Zenon DEF Ends, ResponseDropped, StreamDropped
<1>18. OneWay'
  <2>1. SUFFICES ASSUME Live' PROVE OneWay'
    BY DEF OneWay
  <2>2. Live /\ ~IsError(x)
    BY <1>3, <2>1, Zenon
  <2>3. x.fin = "none" <=> ~Marked(x)
    BY <1>9, <2>2 DEF Marked, IsError, EngineFins, Failures
  <2>4. IF Marked(x) THEN fins' = Append(fins, x.fin) ELSE fins' = fins
    BY <1>2, <2>2, <2>3
  <2>5. Marked(x) /\ fins = <<>> => Len(fins') = 1
    BY <2>4
  <2>6. /\ NoneIn(sse) => NoneIn(sse') /\ ~Marked(x)
        /\ OneIn(sse) /\ Marked(x) => NoneIn(sse')
        /\ OneIn(sse) /\ ~Marked(x) => OneIn(sse')
    BY <1>1, <1>2, <1>7, MarkTaken, Zenon
  <2>. QED
    BY <1>2, <1>4, <1>5, <2>2, <2>4, <2>5, <2>6, ZenonT(30) DEF OneWay
<1>19. Whole'
  BY <1>15, Zenon DEF Whole
<1>20. Front(b1, b2, b3)'
  BY <1>2, <1>3, <1>4, <1>10, <1>13, <1>14, <1>15, Zenon DEF Front
<1>21. StartsWith(sent', got')
  BY <1>4, <1>14, <1>15, Zenon
<1>. QED
  BY <1>4, <1>10, <1>16, <1>17, <1>18, <1>19, <1>20, <1>21, Zenon DEF PathInv, Chained

\* The client sees the end of the response, or leaves.
LEMMA ClientEndsKeeps ==
    ASSUME PathInv, ClientReads \/ ClientLeaves, sse = <<>> \/ ClientLeaves
    PROVE  PathInv'
<1>1. /\ LaterStep /\ UNCHANGED <<pipe, pump, tx, agent, router, got, fins>> /\ client = "open"
      /\ sse' = <<>> /\ client' \in {"failed", "done", "gone"}
      /\ client' = "done" => sse = <<>> /\ router = "ended"
  BY Zenon DEF ClientReads, ClientLeaves, LaterStep, serving, agentSide, StreamDropped
<1>2. ~Live'
  BY <1>1, Zenon DEF Live
<1>3. /\ UNCHANGED <<sent, fate, out, events, body, bodyEnd, driver, saw, kind, surface>>
      /\ EmitInv' /\ Marks' /\ Final' = Final
      /\ \A b3, b4, b5 : Rear(b3, b4, b5) => Rear(b3, b4, b5)'
  BY <1>1, <1>2, LaterFrame
<1>4. Types /\ Ends /\ OneWay /\ Chained
  BY DEF PathInv
<1>5. Types'
  <2>1. <<>> \in Seq(Item(EngineFins \cup Failures))
    OBVIOUS
  <2>. QED
    BY <1>1, <1>3, <1>4, <2>1 DEF Types
<1>6. Ends' /\ OneWay'
  BY <1>1, <1>2, <1>3, <1>4, Zenon DEF Ends, OneWay, ResponseDropped, StreamDropped
<1>7. PICK b1, b2, b3, b4, b5 : Front(b1, b2, b3) /\ Rear(b3, b4, b5)
  BY <1>4 DEF Chained
<1>8. Front(b1, b2, b3)'
  BY <1>1, <1>2, Zenon DEF Front
<1>9. StartsWith(sent', got')
  <2>1. StartsWith(sent, got)
    BY <1>4 DEF Chained
  <2>. QED
    BY <1>1, <1>3, <2>1, Zenon
\* At [DONE] every buffer is empty.
<1>10. Whole'
  <2>1. SUFFICES ASSUME client' = "done" PROVE Whole'
    BY DEF Whole
  <2>2. Live /\ sse = <<>> /\ router = "ended"
    BY <1>1, <2>1 DEF Live
  <2>3. agent = "ended" /\ driver = "ok" /\ tx = <<>> /\ pipe = <<>> /\ Final
    BY <1>4, <2>2, Zenon DEF Ends
  <2>4. Len(fins) = 1
    BY <1>4, <2>2, <2>3, EmptyUnmarked, Zenon DEF OneWay
  <2>5. Len(got) = b1 /\ b1 = b2 /\ b2 = b3 /\ b3 = Len(sent)
    BY <1>1, <1>7, <2>2, <2>3, NothingSpells, Zenon DEF Front
  <2>6. SubSeq(sent, 1, Len(sent)) = got
    BY <1>4, <2>5, Zenon DEF Chained, StartsWith
  <2>7. got = sent
    BY <1>4, <2>6 DEF Types
  <2>. QED
    BY <1>1, <1>3, <2>2, <2>3, <2>4, <2>7, Zenon DEF Whole
<1>. QED
  BY <1>3, <1>5, <1>6, <1>7, <1>8, <1>9, <1>10, Zenon DEF PathInv, Chained


-----------------------------------------------------------------------------
LEMMA PathInvInit == PathInit => PathInv
<1>. SUFFICES ASSUME PathInit PROVE PathInv
  BY Zenon
<1>1. /\ generated = <<>> /\ emitted = 0 /\ sent = <<>> /\ fate = "open"
      /\ kind \in {"native", "other"} /\ surface \in {"http", "grpc"}
      /\ out = <<>> /\ events = <<>> /\ body = <<>> /\ bodyEnd = "open"
      /\ driver = "post" /\ saw = FALSE /\ pipe = <<>> /\ pump = "run"
      /\ tx = <<>> /\ agent = "run" /\ router = "first" /\ sse = <<>>
      /\ client = "open" /\ got = <<>> /\ fins = <<>>
  BY Zenon DEF PathInit, Init
<1>2. Types
  <2>1. \A X : <<>> \in Seq(X)
    OBVIOUS
  <2>. QED
    BY <1>1, <2>1, Zenon DEF Types
<1>3. Text = <<>> /\ Budget \in Nat
  BY <1>1, DecodeExtends, EmissionConstants, Zenon DEF Text
<1>4. <<>> \in Seq(Chars) /\ <<>> \in Seq(Tokens) /\ Len(<<>>) = 0
  OBVIOUS
<1>5. SubSeq(<<>>, 1, 0) = <<>>
  OBVIOUS
<1>6. ASSUME <<>> \notin Stops PROVE Safe(<<>>, 0)
  <2>1. Hits(<<>>) \in SUBSET Nat /\ \A i \in Hits(<<>>) : i < 0
    BY <1>4, <1>6, HitsAre, Zenon
  <2>2. Hits(<<>>) = {}
    BY <2>1
  <2>3. HeldBackLen(<<>>) \in Nat
    BY <1>4, <1>6, HeldBack, Zenon
  <2>4. 0 <= HeldBackLen(<<>>)
    BY <2>3
  <2>5. Settled(<<>>) = <<>>
    BY Zenon DEF Settled
  <2>6. 0 <= 0 /\ 0 <= Len(Settled(<<>>))
    BY <1>4, <2>5
  <2>7. SafeCut(<<>>, 0, 0)
    BY <1>5, <2>2, <2>4, <2>6, ZenonT(30) DEF SafeCut
  <2>. QED
    BY <2>7, Zenon DEF Safe
<1>7. EmitInv
  BY <1>1, <1>3, <1>4, <1>5, <1>6 DEF EmitInv
<1>8. Ends /\ Whole
  BY <1>1, Zenon DEF Ends, Whole
<1>9. Marks
  BY <1>1, Zenon DEF Marks
<1>10. OneWay
  BY <1>1, EmptyUnmarked, Zenon DEF OneWay
<1>11. StartsWith(sent, got)
  BY <1>1, <1>4, <1>5 DEF StartsWith
<1>12. Spells(<<>>, <<>>, 0, 0)
  <2>1. 0 <= Len(<<>>) /\ 0 \in Nat
    BY <1>4
  <2>. QED
    BY <1>4, <2>1, SpellsNothing, Zenon
<1>13. Front(0, 0, 0) /\ Rear(0, 0, 0)
  BY <1>1, <1>4, <1>12, Zenon DEF Front, Rear
<1>14. Chained
  BY <1>11, <1>13 DEF Chained
<1>. QED
  BY <1>2, <1>7, <1>8, <1>9, <1>10, <1>14 DEF PathInv

LEMMA StutterKeeps == ASSUME PathInv, UNCHANGED all PROVE PathInv'
<1>1. /\ UNCHANGED <<generated, emitted, sent, fate, kind, surface, out, events, body, bodyEnd>>
      /\ UNCHANGED <<driver, saw, pipe, pump, tx, agent, router, sse, client, got, fins>>
  BY Zenon DEF all, vars, path, serving, agentSide, routerSide, config
<1>2a. Types'
  <2>1. Types
    BY Zenon DEF PathInv
  <2>2. /\ sent' \in Seq(Chars) /\ got' \in Seq(Chars)
        /\ kind' \in {"native", "other"} /\ surface' \in {"http", "grpc"}
        /\ out' \in Seq(Item(EngineFins)) /\ events' \in Seq(Item(EngineFins))
    BY <1>1, <2>1, Zenon DEF Types
  <2>3. /\ body' \in Seq(Frames) /\ bodyEnd' \in {"open", "head", "eof", "reset"}
        /\ driver' \in {"post", "read", "ok"} \cup Failures /\ saw' \in BOOLEAN
        /\ pipe' \in Seq(Item(EngineFins)) /\ pump' \in {"run", "done"}
    BY <1>1, <2>1, Zenon DEF Types
  <2>4. /\ tx' \in Seq(Item(EngineFins \cup Failures)) /\ agent' \in {"run", "ended"}
        /\ router' \in {"first", "pump", "ended", "failed"}
        /\ sse' \in Seq(Item(EngineFins \cup Failures))
        /\ client' \in {"open", "gone", "done", "failed"}
    BY <1>1, <2>1, Zenon DEF Types
  <2>. QED
    BY <2>2, <2>3, <2>4, Zenon DEF Types
<1>2b. Marks'
  BY <1>1, ZenonT(30) DEF PathInv, Marks, Live, Final
<1>2c. OneWay'
  BY <1>1, ZenonT(30) DEF PathInv, OneWay, Live, Final
<1>2d. Whole'
  BY <1>1, ZenonT(30) DEF PathInv, Whole, Live, Final
<1>3. Ends'
  BY <1>1, Zenon DEF PathInv, Ends, Live, Final, ResponseDropped, StreamDropped
<1>4. EmitInv'
  BY <1>1, EmitsNothing, Zenon DEF PathInv
<1>5. Chained'
  BY <1>1, ZenonT(30) DEF PathInv, Chained, Front, Rear, Live
<1>. QED
  BY <1>2a, <1>2b, <1>2c, <1>2d, <1>3, <1>4, <1>5, ZenonT(30) DEF PathInv

LEMMA PathInvStep == ASSUME PathInv, [PathNext]_all PROVE PathInv'
<1>1. CASE Engine
  BY <1>1, DecodesKeeps, EngineSendsKeeps, ServerOpensKeeps, ServerChunkKeeps, ServerClosesKeeps, Zenon
     DEF Engine
<1>2. CASE Driver
  BY <1>2, PostKeeps, DriverReadsKeeps, DriverEndsKeeps DEF Driver
<1>3. CASE Agent
  BY <1>3, PumpForwardsKeeps, TaskEndsKeeps, Zenon DEF Agent
<1>4. CASE \E what \in OtherFrames, token \in Pieces : OtherFrame(what, token)
  BY <1>4, OtherFrameKeeps
<1>5. CASE GenerationFails \/ EngineDies \/ OtherCloses \/ ReadTimeout
  BY <1>5, GenerationFailsKeeps, ResponseEndsKeeps, ReadTimeoutKeeps, Zenon
<1>6. CASE Router \/ FirstTokenTimeout
  BY <1>6, RouterKeeps
<1>7. CASE ClientReads \/ ClientLeaves
  BY <1>7, ClientTakesKeeps, ClientEndsKeeps
<1>8. CASE Rest \/ UNCHANGED all
  BY <1>8, StutterKeeps, Zenon DEF Rest
<1>. QED
  BY <1>1, <1>2, <1>3, <1>4, <1>5, <1>6, <1>7, <1>8, Zenon DEF PathNext

\* Whatever a tokenizer that extends its text decodes to, whatever the stop
\* strings and the budget, push_token sends the decoded text in order, cuts at
\* a stop string's first occurrence, and holds back just what a stop string
\* could still claim.
THEOREM StopsCutExactly == PathSpec => []StopCutsExactly
<1>1. PathInv => StopCutsExactly
  BY EmitsExactly DEF PathInv
<1>. QED
  BY <1>1, PathInvInit, PathInvStep, PTL DEF PathSpec

\* For buffers of any size, any number of faults and any text: what the client
\* has read is what the engine has sent, from its start, and a client that sees
\* [DONE] has all the text and one finish reason of an engine that finished.
THEOREM DoneAnswersAreWhole == PathSpec => []DoneIsWhole
<1>1. PathInv => DoneIsWhole
  BY Zenon DEF PathInv, Chained, Whole, Final, DoneIsWhole
<1>. QED
  BY <1>1, PathInvInit, PathInvStep, PTL DEF PathSpec

=============================================================================
