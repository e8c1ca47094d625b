CONSTANTS
    live = live
    demo = demo
    eurusd = eurusd
    xauusd = xauusd
    Accounts = {live}
    NoAccount = NoAccount
    Symbols = {eurusd}
    Granted = {live}
    Limit = 1
    MaxConc = 1
    Threshold = 2
    MaxBar = 2
    MaxEvents = 1
    MaxOutages = 1
SPECIFICATION LiveSpec
PROPERTY ReviewEnds
PROPERTY CircuitFailsClosed
PROPERTY CircuitRecovers
