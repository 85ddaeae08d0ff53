SPECIFICATION MCSpec
CONSTANTS
    MaxTime = 3
    MetricOf <- MCMetricOf
    LiveBudgets <- MCLiveBudgets
    Window = 2
INVARIANTS
    LiveIsComplete
PROPERTIES
    LiveNeverGoesBack
    LiveSettles
CHECK_DEADLOCK FALSE
