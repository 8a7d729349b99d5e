SPECIFICATION Spec
CHECK_DEADLOCK FALSE
CONSTANTS
    MaxUpdate = 3
    MaxThreads = 2
    Batch = 2
    Window = 3
    InboxCapacity = 2
    QueueCapacity = 1
    Scripts <- Chats
    NoticesFail = TRUE
    Budget <- NoFault
INVARIANT NoStuckTurn
