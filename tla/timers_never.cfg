CONSTANTS
    Positions = {1}
    Settings <- Overdue
    Steps = {1}
    MaxTime = 2
INIT InitTimers
NEXT NextTimers
PROPERTY NoneLate
CHECK_DEADLOCK FALSE
