---------------------------- MODULE MCGpuRental ----------------------------
(* Instances of GpuRental for TLC. *)
EXTENDS GpuRental, TLC

MCBudget(error, termination, crash, setback) ==
    ("error" :> error) @@ ("termination" :> termination) @@
    ("crash" :> crash) @@ ("setback" :> setback)

\* One of each failure.
FaultyBudget == MCBudget(1, 1, 1, 1)
\* The provider refuses two terminations; nothing else goes wrong.
RefusingBudget == MCBudget(0, 2, 0, 0)
\* Nothing goes wrong.
CalmBudget == MCBudget(0, 0, 0, 0)
=============================================================================
