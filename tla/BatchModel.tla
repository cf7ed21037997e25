------------------------------ MODULE BatchModel ------------------------------
(***************************************************************************)
(* What the BatchModel trait promises its scheduler                        *)
(* (services/cgn-infer/src/runtime/mod.rs): sequences are independent, a   *)
(* call answers with logits that follow from exactly the tokens fed to the *)
(* sequence since it was started, and a call that fails leaves its         *)
(* sequences unusable until they are dropped or started again.  Logits are *)
(* represented by the tokens they follow from.                             *)
(***************************************************************************)
EXTENDS Integers, Sequences

CONSTANTS Seqs, Tokens, MaxSeqLen

VARIABLES
    fed,       \* the tokens each sequence holds; <<>> when it holds none
    broken,    \* sequences a failed call left unusable
    answer     \* what the last call returned: [ok, logits]

vars == <<fed, broken, answer>>

Nothing == [s \in {} |-> <<>>]

\* What one prefill call may be given.
Chunks == UNION {[1..n -> Tokens] : n \in 0..MaxSeqLen}

Init ==
    /\ fed = [s \in Seqs |-> <<>>]
    /\ broken = {}
    /\ answer = [ok |-> TRUE, logits |-> Nothing]

\* A call fails for every sequence it was about.
Fail(S) ==
    /\ broken' = broken \cup S
    /\ answer' = [ok |-> FALSE, logits |-> Nothing]
    /\ fed' = [s \in Seqs |-> IF s \in S THEN <<>> ELSE fed[s]]

\* Every member of S is fed its tokens, after what it held or from the start.
Feed(S, held, tokens, want) ==
    /\ fed' = [s \in Seqs |-> IF s \in S THEN held[s] \o tokens[s] ELSE fed[s]]
    /\ broken' = broken \ S
    /\ answer' = [ok |-> TRUE, logits |-> IF want THEN [s \in S |-> fed'[s]] ELSE Nothing]

Prefill(s) ==
    \/ Fail({s})
    \/ \E tokens \in Chunks, restart, want \in BOOLEAN :
          /\ restart \/ s \notin broken
          /\ Feed({s}, [q \in {s} |-> IF restart THEN <<>> ELSE fed[s]],
                  [q \in {s} |-> tokens], want)

Decode(S) ==
    /\ S # {} /\ S \cap broken = {}
    /\ \/ Fail(S)
       \/ \E t \in [S -> Tokens] : Feed(S, fed, [s \in S |-> <<t[s]>>], TRUE)

Drop(s) ==
    /\ fed' = [fed EXCEPT ![s] = <<>>]
    /\ broken' = broken \ {s}
    /\ UNCHANGED answer

Next ==
    \/ \E s \in Seqs : Prefill(s) \/ Drop(s)
    \/ \E S \in SUBSET Seqs : Decode(S)

Spec == Init /\ [][Next]_vars

=============================================================================
