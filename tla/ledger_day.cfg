CONSTANTS
    live = live
    demo = demo
    t1 = t1
    t2 = t2
    t3 = t3
    Accounts = {live, demo}
    NoAccount = NoAccount
    Tickets = {t1, t2}
    Strategy = {t1, t2}
    ClosedBefore = {t2}
    OwnerOf <- MCOwner
    LossOf <- MCLoss
    BalanceOf <- MCBalance
    PeakBefore <- MCPeak
    Total <- MCTotal
    Commands = {"daily", "cooldown"}
    DayLength = 3
    MaxTime = 3
    MaxEvents = 2
SPECIFICATION LiveSpec
INVARIANT TypeOK
INVARIANT CountsWhatItKnows
INVARIANT NotInflated
INVARIANT MarkIsOwn
INVARIANT PeakIsOwn
INVARIANT ReadyKnowsDropped
PROPERTY CounterCatchesUp
CHECK_DEADLOCK FALSE
