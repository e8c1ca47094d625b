CONSTANTS
    Accounts = {live, demo}
    NoAccount = NoAccount
    ProbeSuspends = FALSE
    RevokesAlone = TRUE
    MaxCommands = 2
    MaxFaults = 1
SPECIFICATION OrderSpec
PROPERTY OrdersOnConfirmedAccounts
CHECK_DEADLOCK FALSE
