SPECIFICATION FairSpec
CONSTANTS
    Resource = {r1, r2}
    NoResource = none
    Budget <- FaultyBudget
INVARIANTS TypeOK OneResource ConfirmedIsAbsent ConfirmedIsWithdrawn
PROPERTY LimitIsActedOn
