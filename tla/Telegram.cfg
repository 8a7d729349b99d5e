SPECIFICATION FairSpec
CHECK_DEADLOCK FALSE
CONSTANTS
    MaxUpdate = 3
    MaxThreads = 2
    Batch = 1
    Window = 3
    InboxCapacity = 2
    QueueCapacity = 1
    Scripts <- Chats
    NoticesFail = FALSE
    Budget <- OneOfEach
INVARIANT TypeOK
INVARIANT NoStuckTurn
INVARIANT AppliedOncePerThread
PROPERTY ImplementsDelivery
PROPERTY ClaimIsSettled
