---------------------------- MODULE MCConfirmedKv ----------------------------
(* Instances of ConfirmedKv.                                               *)
EXTENDS ConfirmedKv, TLC

=============================================================================
