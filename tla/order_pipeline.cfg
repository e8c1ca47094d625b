CONSTANTS
    Accounts = {live, demo}
    NoAccount = NoAccount
    ProbeSuspends = TRUE
    RevokesAlone = TRUE
    MaxCommands = 4
    MaxFaults = 1
SPECIFICATION LiveOrderSpec
INVARIANT OrderTypeOK
INVARIANT NoTransfer
PROPERTY ArmedInItsOwnSession
PROPERTY SupervisorHonoursDisable
PROPERTY OrdersWereAuthorized
PROPERTY OrderIsGuarded
PROPERTY NoticedSwitchDisarms
CHECK_DEADLOCK FALSE
