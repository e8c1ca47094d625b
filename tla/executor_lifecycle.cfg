CONSTANTS
    Calls = {c1, c2}
    OperatorCalls = {c2}
    c1 = c1
    c2 = c2
    c3 = c3
    buyGold = buyGold
    ticket7 = ticket7
    ticket7Stops = ticket7Stops
    Keys = {buyGold}
    KeyOf <- OpenKeys
    KindOf <- OpenKinds
    Accounts = {live}
    NoCall = NoCall
    NoAccount = NoAccount
    MaxRetries = 2
    MaxFaults = 1
    MaxStops = 1
    DrainMayTimeOut = TRUE
SPECIFICATION LiveSpec
INVARIANT TypeOK
INVARIANT AtMostOneEffect
INVARIANT DedupUntilAbandoned
INVARIANT QuietAfterStop
PROPERTY KeepsPromise
PROPERTY KeysAreReleased
PROPERTY StopCompletes
CHECK_DEADLOCK FALSE
