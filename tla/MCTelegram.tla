----------------------------- MODULE MCTelegram -----------------------------
(* Instances of TelegramBridge for TLC.                                    *)
EXTENDS TelegramBridge

MCBudget(crashes, disks, requests) ==
    [f \in Fault |-> CASE f = "crash" -> crashes [] f = "disk" -> disks
        [] f = "request" -> requests]

\* Follow-ups, a new thread and a cancellation behind a running turn.
Chats == {<<"text", "text", "text">>, <<"text", "text", "new">>,
          <<"text", "text", "cancel">>, <<"text", "new", "text">>,
          <<"text", "cancel", "text">>}

OneOfEach == MCBudget(1, 1, 1)
NoFault == MCBudget(0, 0, 0)
=============================================================================
