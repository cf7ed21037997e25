----------------------------- MODULE MCAdmission -----------------------------
(* Two slots and two tenants with three and two requests: enough for a      *)
(* tenant to queue twice while another waits behind it.                     *)
EXTENDS AdmissionFairness, AdmissionRefinement, TLC

CONSTANTS a1, a2, a3, b1, b2, A, B

MCTenantOf == (a1 :> A) @@ (a2 :> A) @@ (a3 :> A) @@ (b1 :> B) @@ (b2 :> B)

=============================================================================
