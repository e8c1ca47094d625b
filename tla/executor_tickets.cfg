CONSTANTS
    Calls = {c1, c2, c3}
    OperatorCalls = {c1}
    c1 = c1
    c2 = c2
    c3 = c3
    buyGold = buyGold
    ticket7 = ticket7
    ticket7Stops = ticket7Stops
    Keys = {buyGold, ticket7, ticket7Stops}
    KeyOf <- CloseKeys
    KindOf <- CloseKinds
    Accounts = {live, demo}
    NoCall = NoCall
    NoAccount = NoAccount
    MaxRetries = 1
    MaxFaults = 1
    MaxStops = 0
    DrainMayTimeOut = FALSE
SPECIFICATION Spec
INVARIANT LandsOnExpectedAccount
INVARIANT SuccessIsVerified
CHECK_DEADLOCK FALSE
