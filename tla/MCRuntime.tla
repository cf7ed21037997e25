------------------------------ MODULE MCRuntime ------------------------------
(* Two sequences, a three-layer model, every way of slicing it into stages  *)
(* and some ways that do not tile it.                                       *)
EXTENDS Runtime, TLC

CONSTANTS s1, s2

MCPrompt == (s1 :> <<"a", "b", "a">>) @@ (s2 :> <<"b", "a">>)

MCSlicings ==
    {<<>>} \cup {SplitLayers(NLayers, parts) : parts \in 1..NLayers}
    \cup {<<LayerRange(0, 1), LayerRange(2, 3)>>, <<LayerRange(0, 1), LayerRange(1, 2)>>,
          <<LayerRange(1, 3)>>, <<LayerRange(0, 1), LayerRange(1, 4)>>,
          <<LayerRange(0, 2), LayerRange(1, 3)>>}

=============================================================================
