SPECIFICATION RecoveryFairSpec
CONSTANTS
    Runs = {r1}
    MaxAttempts = 2
    MaxReplays = 1
    MaxVerdicts = 0
    CronReturns = FALSE
PROPERTY UnknownIsNotForever
CHECK_DEADLOCK FALSE
