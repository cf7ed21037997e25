---------------------------- MODULE MCTokenPath ----------------------------
(* Two stop strings that overlap each other and themselves, tokens that     *)
(* carry one or two of their characters, and a character, "c", split over   *)
(* two tokens: a lone half decodes to "?".                                  *)
EXTENDS TokenPath, SequencesExt

CONSTANTS Half, OtherHalf

MCChars == {"a", "b", "c", "?"}
MCPieces == {<<"a">>, <<"b">>, <<"a", "b">>}
MCStops == {<<"a", "b", "c">>, <<"b", "b", "a">>}
MCParts == {Half, OtherHalf}

MCDecode(tokens) ==
    LET Extend(text, i) ==
          CASE tokens[i] \in MCPieces -> text \o tokens[i]
            [] tokens[i] = OtherHalf /\ i > 1 /\ tokens[i - 1] = Half -> Append(Front(text), "c")
            [] OTHER -> Append(text, "?")
    IN FoldLeftDomain(Extend, <<>>, tokens)

=============================================================================
