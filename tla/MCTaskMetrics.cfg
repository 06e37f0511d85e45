SPECIFICATION MetricsSpec
CONSTANTS
    MaxTasks = 5
    MaxDuration = 3
INVARIANTS
    AverageIsSound
CHECK_DEADLOCK FALSE
