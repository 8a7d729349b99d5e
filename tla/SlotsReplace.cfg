SPECIFICATION Spec
CHECK_DEADLOCK FALSE
CONSTANTS
    Agent = {a1, a2, a3}
    MaxThreads = 1
    Budget <- MCBudget
INVARIANT StartFindsNoTask
