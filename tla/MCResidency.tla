----------------------------- MODULE MCResidency -----------------------------
(* The instance of Residency for TLC: the agent that is spawned takes the   *)
(* path of a restored one, once that one is closed.                        *)
EXTENDS Residency, TLC

CONSTANTS a1, a2, a3, p1, p2

MCPathOf == (a1 :> p1) @@ (a2 :> p2) @@ (a3 :> p1)

Calls(spawn, message, close, resume, cancel) ==
    [spawn |-> spawn, message |-> message, close |-> close, resume |-> resume,
     cancel |-> cancel]

MCBudgets == {Calls(1, 2, 1, 0, 1), Calls(1, 1, 1, 1, 1), Calls(0, 2, 0, 1, 1)}
==============================================================================
