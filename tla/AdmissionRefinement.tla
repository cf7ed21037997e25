-------------------------- MODULE AdmissionRefinement --------------------------
(* Admission implements SlotPool: a request owns a slot from the moment the *)
(* slot is sent to its channel until its Permit's drop has passed it on.    *)
EXTENDS Admission

PhaseOf(stage) ==
    CASE stage \in {"new", "retry", "parked"} -> "waiting"
      [] stage \in {"handed", "admitted", "releasing", "lost"} -> "owner"
      [] stage \in {"full", "timedout", "gone"} -> "refused"
      [] OTHER -> "finished"

\* The abstract state a state of the pool stands for.
phaseBar == [r \in Requests |-> PhaseOf(pc[r])]

Pool == INSTANCE SlotPool WITH
    Clients <- Requests,
    Slots <- MaxQueue,
    phase <- phaseBar

\* The pool of admission.rs implements the abstract slot pool: every step of
\* admit(), release(), a timeout or a hang-up grants, refuses, returns or
\* passes on one slot, or changes nothing a caller can see.
ImplementsSlotPool == Pool!PoolSpec

=============================================================================
