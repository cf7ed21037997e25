------------------------------ MODULE Emission ------------------------------
(***************************************************************************)
(* How cgn-infer turns sampled tokens into the text a client receives      *)
(* (services/cgn-infer/src/scheduler/mod.rs: push_token, finish and        *)
(* held_back_len), for one sequence.  The whole generation is decoded      *)
(* after every token; text is sent up to the point where it could still    *)
(* grow into a stop string, and not at all while it ends inside a          *)
(* character.                                                              *)
(*                                                                         *)
(* An ordinary token carries a few characters, other tokens carry a part   *)
(* of one, which decodes to Broken (U+FFFD) until the rest of it comes.    *)
(* Which, is the tokenizer's affair.  Module TokenPath composes this with  *)
(* the way of the text to the client.                                      *)
(***************************************************************************)
EXTENDS Integers, Sequences

CONSTANTS
    Chars,
    Pieces,       \* the ordinary tokens: texts, as sequences of characters
    Parts,        \* the tokens that carry a part of a character
    Broken,       \* U+FFFD
    Decode(_),    \* Tokenizer::decode
    Stops,        \* Request.stop
    Budget        \* Sequence::budget

Tokens == Pieces \cup Parts

\* str::starts_with.
StartsWith(s, prefix) == Len(prefix) <= Len(s) /\ SubSeq(s, 1, Len(prefix)) = prefix

\* The text before a U+FFFD it ends in.
Settled(text) ==
    IF text # <<>> /\ text[Len(text)] = Broken THEN SubSeq(text, 1, Len(text) - 1) ELSE text

ASSUME EmissionConstants ==
    /\ Budget \in Nat /\ Broken \in Chars
    /\ Pieces \subseteq Seq(Chars) /\ Stops \subseteq Seq(Chars)

\* What push_token takes from the tokenizer: a further token leaves the text as
\* it was, up to a U+FFFD at its end; an ordinary one appends its own.
ASSUME DecodeExtends ==
    /\ Decode(<<>>) = <<>>
    /\ \A n \in 0 .. Budget : \A tokens \in [1 .. n -> Tokens] : \A token \in Tokens :
         LET text == Decode(tokens)
             longer == Decode(Append(tokens, token))
         IN  /\ longer \in Seq(Chars) /\ StartsWith(longer, Settled(text))
             /\ token \in Pieces => longer = text \o token

VARIABLES
    generated,    \* Sequence.generated
    emitted,      \* Sequence.emitted_len
    sent,         \* the characters in the frames sent so far
    fate          \* "open", or why the sequence finished ("gone": its reader left)

vars == <<generated, emitted, sent, fate>>

-----------------------------------------------------------------------------
\* The first of a set of positions in a text.
First(positions) == CHOOSE i \in positions : \A j \in positions : i <= j

\* str::find, zero-based: where stop occurs in text; the first is found.
FindAll(text, stop) ==
    {i \in 0 .. Len(text) - Len(stop) : SubSeq(text, i + 1, i + Len(stop)) = stop}
Hits(text) == UNION {FindAll(text, stop) : stop \in Stops}

\* Mutant: nothing is held back.
HoldNothing(text) == Len(text)

\* held_back_len: the length of the prefix no stop string can still claim.
HeldBackLen(text) ==
    LET claimed == {start \in 0 .. Len(text) - 1 :
                      \E stop \in Stops : StartsWith(stop, SubSeq(text, start + 1, Len(text)))}
    IN First(claimed \cup {Len(text)})

-----------------------------------------------------------------------------

\* A frame with the characters of text from the last one sent up to len.
SendUpTo(text, len) ==
    /\ sent' = sent \o SubSeq(text, emitted + 1, len)
    /\ emitted' = IF len > emitted THEN len ELSE emitted

\* push_token for the end-of-sequence token: finish("stop") at once.
PushEos ==
    /\ fate = "open"
    /\ fate' = "eos"
    /\ UNCHANGED <<generated, emitted, sent>>

\* The generation has used up its budget.
Spent(tokens) == Len(tokens) >= Budget

\* push_token for any other token.
PushToken(token) ==
    LET tokens == Append(generated, token)
        text == Decode(tokens)
        safe == HeldBackLen(text)
        out == IF Len(text) <= emitted \/ text[Len(text)] = Broken THEN emitted ELSE safe
    IN
    /\ fate = "open"
    /\ generated' = tokens
    /\ \/ /\ Hits(text) # {}
          /\ SendUpTo(text, First(Hits(text)))
          /\ fate' = "stop"
       \/ /\ Hits(text) = {} /\ ~Spent(tokens)
          /\ SendUpTo(text, out)
          /\ fate' = "open"
       \/ /\ Hits(text) = {} /\ Spent(tokens)
          /\ SendUpTo(text, Len(text))
          /\ fate' = "length"

Init == generated = <<>> /\ emitted = 0 /\ sent = <<>> /\ fate = "open"

-----------------------------------------------------------------------------
Text == Decode(generated)

\* What may follow a text and end in the middle of a stop string.
Continuations ==
    UNION {[1 .. n -> Chars] : n \in UNION {0 .. Len(stop) - 1 : stop \in Stops}}

\* push_token against its meaning: what was sent is the decoded text in order,
\* each character once, however characters straddle tokens.  Held back is just
\* what a stop string could still reach into, whatever characters follow; a
\* stop cuts exactly before its first occurrence.
StopCutsExactly ==
    /\ emitted = Len(sent) /\ StartsWith(Text, sent)
    /\ fate = "stop" => sent = SubSeq(Text, 1, First(Hits(Text)))
    /\ Hits(Text) = {} =>
          HeldBackLen(Text) = First({Len(Text)} \cup UNION {Hits(Text \o c) : c \in Continuations})

=============================================================================
