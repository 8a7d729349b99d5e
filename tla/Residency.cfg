SPECIFICATION FairSpec
CHECK_DEADLOCK FALSE
CONSTANTS
    a1 = a1
    a2 = a2
    a3 = a3
    p1 = p1
    p2 = p2
    Agent = {a1, a2, a3}
    NoAgent = none
    Restored = {a1, a2}
    Path = {p1, p2}
    PathOf <- MCPathOf
    Caller = {c1, c2}
    Capacity = 1
    UsizeMax = 4
    Budgets <- MCBudgets
INVARIANT TypeOK
INVARIANT CountsAreExact
INVARIANT LoadedIsTracked
INVARIANT ResidentsAreBounded
PROPERTY RequestEnds
