CONSTANTS
    live = live
    demo = demo
    t1 = t1
    t2 = t2
    t3 = t3
    Accounts = {live, demo}
    NoAccount = NoAccount
    Tickets = {t1, t2}
    Strategy = {t1, t2}
    ClosedBefore = {}
    OwnerOf <- MCOwner
    LossOf <- MCLoss
    BalanceOf <- MCBalance
    PeakBefore <- MCPeak
    Total <- MCTotal
    Commands = {"daily", "cooldown", "streak"}
    DayLength = 3
    MaxTime = 2
    MaxEvents = 0
SPECIFICATION Spec
INVARIANT CountsEachLossOnce
CHECK_DEADLOCK FALSE
