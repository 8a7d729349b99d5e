SPECIFICATION FairSpec
CHECK_DEADLOCK FALSE
CONSTANTS
    Agent = {a1, a2, a3}
    MaxThreads = 1
    Budget <- MCBudget
INVARIANT TypeOK
INVARIANT ActiveIsExact
INVARIANT WorkersAreBounded
INVARIANT NoLostWakeUp
PROPERTY MailIsWatched
PROPERTY MailGetsATurn
