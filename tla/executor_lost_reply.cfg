CONSTANTS
    Calls = {c1}
    OperatorCalls = {}
    c1 = c1
    c2 = c2
    c3 = c3
    buyGold = buyGold
    ticket7 = ticket7
    ticket7Stops = ticket7Stops
    Keys = {buyGold, ticket7, ticket7Stops}
    KeyOf <- OpenKeys
    KindOf <- OpenKinds
    Accounts = {live}
    NoCall = NoCall
    NoAccount = NoAccount
    MaxRetries = 2
    MaxFaults = 0
    MaxStops = 0
    DrainMayTimeOut = FALSE
SPECIFICATION Spec
INVARIANT ChangeIsReported
CHECK_DEADLOCK FALSE
