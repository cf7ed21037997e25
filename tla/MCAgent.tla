------------------------------- MODULE MCAgent -------------------------------
(* Instances of Agent.                                                     *)
EXTENDS Agent, TLC

=============================================================================
