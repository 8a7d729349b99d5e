SPECIFICATION Spec
CHECK_DEADLOCK FALSE
CONSTANTS
    m1 = m1
    m2 = m2
    c1 = c1
    c2 = c2
    NoMsg = NoMsg
    Msg = {m1, m2}
    Trigger = {m1}
    Callers = {c1, c2}
    MaxRequests = 1
    FlushMayFail = FALSE
    InputMayFail = FALSE
    Budget <- QuietBudget
SYMMETRY CallerSymmetry
INVARIANT AcceptedMailIsKept
