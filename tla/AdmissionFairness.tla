--------------------------- MODULE AdmissionFairness ---------------------------
(***************************************************************************)
(* How often a waiting tenant is passed over: a count kept beside          *)
(* Admission, which it does not influence.                                 *)
(***************************************************************************)
EXTENDS Admission

VARIABLE passed    \* passed[t][u]: slots handed to u since t last had its turn

fairVars == <<inflight, waiting, turn, pc, holder, passed>>

\* The tenants a step hands a slot to, and those whose queue it shortens.
Served == {TenantOf[r] : r \in {q \in Requests : pc[q] = "parked" /\ pc'[q] = "handed"}}
HadTurn(t) == waiting[t] = <<>> \/ Len(waiting'[t]) < Len(waiting[t])

FairInit == Init /\ passed = [t \in Tenants |-> [u \in Tenants |-> 0]]

FairNext ==
    /\ Next
    /\ passed' = [t \in Tenants |-> [u \in Tenants |->
          IF HadTurn(t) THEN 0 ELSE passed[t][u] + (IF u \in Served THEN 1 ELSE 0)]]

FairSpec ==
    /\ FairInit /\ [][FairNext]_fairVars
    /\ \A r \in Requests : WF_vars(Progress(r))

\* Between two turns of a waiting tenant no other tenant gets two slots,
\* however many requests it queues: the rotation of turn in release().
OvertakenOncePerTurn ==
    \A t, u \in Tenants : passed[t][u] <= 1

=============================================================================
