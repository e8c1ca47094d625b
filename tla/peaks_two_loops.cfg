CONSTANTS
    Accounts = {live, demo}
    Home = live
    Loops = {"main", "protection"}
    Top = 2
    Delta = 2
    MaxFaults = 2
SPECIFICATION LiveSpec
INVARIANT TypeOK
INVARIANT PeakOutlivesRestart
PROPERTY PeakReachesDatabase
CHECK_DEADLOCK FALSE
