------------------------------ MODULE SlotPool ------------------------------
(***************************************************************************)
(* What admission control promises its callers: each request is answered   *)
(* at most once, at most Slots requests own a slot at any moment, and a    *)
(* slot moves from one owner to the next or back to the pool.  Queues,     *)
(* tenants, timers and channels are invisible here; Admission implements   *)
(* this specification.                                                     *)
(***************************************************************************)
EXTENDS Naturals, FiniteSets

CONSTANTS Clients, Slots

VARIABLE phase

Owned == {c \in Clients : phase[c] = "owner"}

PoolInit == phase = [c \in Clients |-> "waiting"]

Grant(c) ==
    /\ phase[c] = "waiting"
    /\ Cardinality(Owned) < Slots
    /\ phase' = [phase EXCEPT ![c] = "owner"]

Refuse(c) ==
    /\ phase[c] = "waiting"
    /\ phase' = [phase EXCEPT ![c] = "refused"]

Return(c) ==
    /\ phase[c] = "owner"
    /\ phase' = [phase EXCEPT ![c] = "finished"]

\* The slot of c goes straight to d: nobody can take it in between.
PassOn(c, d) ==
    /\ phase[c] = "owner"
    /\ phase[d] = "waiting"
    /\ phase' = [phase EXCEPT ![c] = "finished", ![d] = "owner"]

PoolNext ==
    \E c \in Clients :
        \/ Grant(c) \/ Refuse(c) \/ Return(c)
        \/ \E d \in Clients : PassOn(c, d)

PoolSpec == PoolInit /\ [][PoolNext]_phase

=============================================================================
