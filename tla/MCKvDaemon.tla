----------------------------- MODULE MCKvDaemon -----------------------------
(* Blocks of one and two bytes; the larger one exceeds the wire limit.     *)
EXTENDS KvDaemon, TLC

CONSTANTS b1, b2

MCSize == (b1 :> 1) @@ (b2 :> 2)

=============================================================================
