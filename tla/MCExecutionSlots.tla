-------------------------- MODULE MCExecutionSlots --------------------------
(* The instance of ExecutionSlots for TLC.                                 *)
EXTENDS ExecutionSlots

MCBudget ==
    [e \in Event |-> CASE e = "mail" -> 2 [] e = "human" -> 1 [] e = "interrupt" -> 1]
=============================================================================
