---------------------------- MODULE InputDelivery ---------------------------
(***************************************************************************)
(* What the Telegram connector promises for its updates, without its       *)
(* inbox file, handlers, queue or restarts: an update is accepted once, it *)
(* is carried out only after it was accepted, no thread is given its input *)
(* twice, and it is done only after it was carried out.                    *)
(***************************************************************************)
EXTENDS Naturals

CONSTANTS Updates, Threads

VARIABLES
    stage,      \* "offered", "accepted" or "done", for each update
    acted,      \* the updates that were carried out since the last restart
    copies      \* how often a thread holds the input of an update

Init ==
    /\ stage = [u \in Updates |-> "offered"]
    /\ acted = {}
    /\ copies = [t \in Threads |-> [u \in Updates |-> 0]]

Accept(u) ==
    /\ stage[u] = "offered"
    /\ stage' = [stage EXCEPT ![u] = "accepted"]
    /\ UNCHANGED <<acted, copies>>

\* The input is given to a thread that does not hold it.
Deliver(u, t) ==
    /\ stage[u] = "accepted"
    /\ copies[t][u] = 0
    /\ copies' = [copies EXCEPT ![t][u] = 1]
    /\ acted' = acted \cup {u}
    /\ UNCHANGED stage

\* Threads lose input they had not recorded.
Loses ==
    /\ copies' \in [Threads -> [Updates -> {0, 1}]]
    /\ \A t \in Threads, u \in Updates : copies'[t][u] <= copies[t][u]

\* Accepted updates are carried out in another way: a command, a cancelled
\* input, an input the thread already holds.  A cancelled turn loses input.
Act ==
    /\ acted \subseteq acted'
    /\ \A u \in acted' \ acted : stage[u] = "accepted"
    /\ Loses
    /\ UNCHANGED stage

Finish(u) ==
    /\ stage[u] = "accepted" /\ u \in acted
    /\ stage' = [stage EXCEPT ![u] = "done"]
    /\ UNCHANGED <<acted, copies>>

\* What was carried out and not finished is forgotten.
Restart ==
    /\ acted' = {u \in Updates : stage[u] = "done"}
    /\ Loses
    /\ UNCHANGED stage

Next ==
    \/ \E u \in Updates : Accept(u) \/ Finish(u) \/ (\E t \in Threads : Deliver(u, t))
    \/ Act \/ Restart

Spec == Init /\ [][Next]_<<stage, acted, copies>>

=============================================================================
