CONSTANTS
    W = 3
    Starts = {0, 6}
    MaxJump = 3
    MaxLate = 3
    MaxIndex = 12
    MaxReceived = 7
SPECIFICATION StatsSpec
INVARIANT LossExactOverWraps
CHECK_DEADLOCK FALSE
