--------------------------- MODULE MCAgentMailbox ---------------------------
(* Instances of AgentMailbox for TLC.                                      *)
EXTENDS AgentMailbox, TLC

CONSTANTS m1, m2, c1, c2

\* How often each environment event happens in each run.
MCBudget(calls, crashes, aborts, unloads, humans, toggles, cancels) ==
    [e \in Event |-> CASE e = "call" -> calls [] e = "crash" -> crashes
        [] e = "abort" -> aborts [] e = "unload" -> unloads
        [] e = "human" -> humans [] e = "busy" -> toggles [] e = "cancel" -> cancels]

TurnBudget == MCBudget(2, 1, 1, 1, 1, 1, 1)
QuietBudget == MCBudget(2, 0, 0, 0, 2, 1, 0)
SettleBudget == MCBudget(2, 2, 0, 1, 0, 1, 1)

CallerSymmetry == Permutations(Callers)
=============================================================================
