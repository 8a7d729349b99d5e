------------------------- MODULE MCProviderRequests -------------------------
(* The instance of ProviderRequests for TLC.                               *)
EXTENDS ProviderRequests, TLC

CONSTANTS t1, t2, t3

\* The first 429 in a row waits one unit, later ones two.
MCBackoff == [k \in 1 .. 4 |-> IF k = 1 THEN 1 ELSE 2]

\* One turn can ask again after its request.
MCRequests == t1 :> 2 @@ t2 :> 1 @@ t3 :> 1
=============================================================================
