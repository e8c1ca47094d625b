CONSTANTS
    Accounts = {live, demo}
    NoAccount = NoAccount
    ProbeSuspends = FALSE
    RevokesAlone = TRUE
    MaxCommands = 4
    MaxFaults = 2
SPECIFICATION Spec
INVARIANT DisarmIsLasting
CHECK_DEADLOCK FALSE
