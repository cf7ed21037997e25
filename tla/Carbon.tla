------------------------------- MODULE Carbon -------------------------------
(***************************************************************************)
(* Carbon-aware admission (carbon/mod.rs, carbon/provider.rs): a task      *)
(* polls the provider of grid intensity and keeps the last reading; a chat *)
(* request of low priority is refused while that reading is over           *)
(* [carbon].intensity_threshold.  An intensity is told apart by the side   *)
(* of the threshold it is on; the threshold itself is "low".               *)
(*                                                                         *)
(* The poller is one loop, so its polls do not overlap.  A poll that fails *)
(* leaves everything as it was, and so does one that never returns; a      *)
(* router without a usable provider is one whose polls never succeed.      *)
(***************************************************************************)
EXTENDS Sequences

Intensity == {"low", "high"}
NoSample == "stale"

\* RequestPriority; "high" is treated as "normal".
Priority == {"low", "normal"}

VARIABLES
    grid,       \* what the provider would answer now
    sample,     \* CarbonTracker.sample, or NoSample before the first poll
    reading     \* what the poll in progress was answered, or NoSample

carbonVars == <<grid, sample, reading>>

CarbonInit == grid \in Intensity /\ sample = NoSample /\ reading = NoSample

\* The answer of the provider, after WattTime's region lookup if need be.
Fetch ==
    /\ reading = NoSample
    /\ reading' = grid
    /\ UNCHANGED <<grid, sample>>

\* Mutant: only the first reading is kept.
StoreOnce ==
    /\ reading # NoSample
    /\ sample' = IF sample = NoSample THEN reading ELSE sample
    /\ reading' = NoSample
    /\ UNCHANGED grid

\* CarbonTracker::store.
Store ==
    /\ reading # NoSample
    /\ sample' = reading
    /\ reading' = NoSample
    /\ UNCHANGED grid

\* check_admission: open until the first poll has succeeded.
CheckAdmission(priority) == priority # "low" \/ sample # "high"

Shifts ==
    /\ \E i \in Intensity \ {grid} : grid' = i
    /\ UNCHANGED <<sample, reading>>

\* A new process knows nothing.
NewTracker == sample' = NoSample /\ reading' = NoSample /\ UNCHANGED grid
=============================================================================
