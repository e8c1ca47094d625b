CONSTANTS
    Sizes = {1, 2}
    Quotes = {2, 4}
    Risks = {0, 2}
    Tiers = {0, 1}
    Trigger = 3
    TriggerR = 1
    MatureR = 2
    Keep = 50
    MatureKeep = 75
    CashFloor = 1
    Headroom = 1
    Giveback = TRUE
    MaxFaults = 2
    MaxTrades = 1
SPECIFICATION LiveSpec
INVARIANT TypeOK
INVARIANT RecordIsReadable
INVARIANT FloorIsKept
INVARIANT FloorIsBacked
PROPERTY StopOnlyImproves
PROPERTY BreachEnds
CHECK_DEADLOCK FALSE
