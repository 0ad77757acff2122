CONSTANTS
    W = 3
    Starts = {0, 6}
    MaxJump = 3
    MaxLate = 3
    MaxIndex = 12
    MaxReceived = 7
SPECIFICATION StatsSpec
INVARIANTS NewestTracked LossNotOverstated LossExact
CHECK_DEADLOCK FALSE
