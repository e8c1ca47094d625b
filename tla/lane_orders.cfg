CONSTANTS
    live = live
    demo = demo
    eurusd = eurusd
    xauusd = xauusd
    Accounts = {live, demo}
    NoAccount = NoAccount
    Symbols = {eurusd, xauusd}
    Granted = {live}
    Limit = 1
    MaxConc = 1
    Threshold = 2
    MaxBar = 1
    MaxEvents = 2
    MaxOutages = 0
SPECIFICATION Spec
INVARIANT TypeOK
INVARIANT AdmissionBound
INVARIANT OnePositionPerSymbol
PROPERTY OneAttemptPerCandle
PROPERTY OrderOnReviewedAccount
