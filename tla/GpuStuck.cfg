SPECIFICATION FairSpec
CONSTANTS
    Resource = {r1}
    NoResource = none
    Budget <- RefusingBudget
PROPERTY LimitEndsBilling
