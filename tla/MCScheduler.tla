----------------------------- MODULE MCScheduler -----------------------------
(* Three requests in a pool too small for two of them to grow side by side, *)
(* one of which outgrows the pool alone, and one the model cannot hold.     *)
EXTENDS Scheduler, TLC

CONSTANTS r1, r2, r3, r4

PromptTable == (r1 :> 3) @@ (r2 :> 2) @@ (r3 :> 4) @@ (r4 :> 11)
MaxTokensTable == (r1 :> 8) @@ (r2 :> 4) @@ (r3 :> 2) @@ (r4 :> 1)

MCPromptLen == Restrict(PromptTable, Reqs)
MCMaxTokens == Restrict(MaxTokensTable, Reqs)

=============================================================================
