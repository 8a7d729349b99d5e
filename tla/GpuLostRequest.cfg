SPECIFICATION Spec
CONSTANTS
    Resource = {r1}
    NoResource = none
    Budget <- CalmBudget
PROPERTY TerminationRequestIsKept
