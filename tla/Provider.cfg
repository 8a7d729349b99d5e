SPECIFICATION FairSpec
CHECK_DEADLOCK FALSE
CONSTANTS
    t1 = t1
    t2 = t2
    t3 = t3
    Turn = {t1, t2, t3}
    NoOwner = NoOwner
    LeaseTTL = 1
    Backoff <- MCBackoff
    RetryAfter = {0, 2}
    MaxTime = 2
    MaxRequests <- MCRequests
    Faulty = {t2}
INVARIANT TypeOK
INVARIANT LeaseIsExclusive
INVARIANT CooldownIsQuiet
PROPERTY CooldownIsKept
PROPERTY LeaseComesFree
