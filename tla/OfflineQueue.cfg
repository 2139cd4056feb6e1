SPECIFICATION Spec
CONSTANTS
    Friends = 2
    Limit = 3
    MaxTexts = 5
    MaxFlushes = 2
    MaxRestarts = 1
    MaxCrashes = 1
INVARIANT InOrder
PROPERTY ImplementsTextQueue
CHECK_DEADLOCK FALSE
