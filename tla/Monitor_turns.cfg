SPECIFICATION Spec
CONSTANTS
    W = 4
    MaxTicks = 5
    Limit = 2
INVARIANTS
    UsageIsTrue
    SteadyNeverLeaks
PROPERTIES
    InterruptEnds
CHECK_DEADLOCK FALSE
