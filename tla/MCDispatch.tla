----------------------------- MODULE MCDispatch -----------------------------
(* Two requests that meet at one model, where both are split: one comes    *)
(* there by a cascade and streams, the other is buffered; and an embedding *)
(* of the model the cascade starts with.                                   *)
EXTENDS Dispatch, TLC

CONSTANTS r1, r2, r3, n1, n2, n3, small, large

MCChain == (r1 :> <<small, large>>) @@ (r2 :> <<large>>) @@ (r3 :> <<small>>)
MCRole == (n1 :> "both") @@ (n2 :> "decode") @@ (n3 :> "both")
MCSplit == {<<r1, large>>, <<r2, large>>}
MCFits == (n1 :> {small, large}) @@ (n2 :> {}) @@ (n3 :> {large})
MCServes == (n1 :> {small, large}) @@ (n2 :> {large}) @@ (n3 :> {small, large})

=============================================================================
