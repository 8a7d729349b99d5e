SPECIFICATION Spec
CHECK_DEADLOCK FALSE
CONSTANTS
    m1 = m1
    m2 = m2
    c1 = c1
    c2 = c2
    NoMsg = NoMsg
    Msg = {m1}
    Trigger = {m1}
    Callers = {c1}
    MaxRequests = 1
    FlushMayFail = TRUE
    InputMayFail = TRUE
    Budget <- TurnBudget
INVARIANT TypeOK
INVARIANT AppliedOnce
INVARIANT AcknowledgedIsDurable
PROPERTY OutcomeIsFinal
