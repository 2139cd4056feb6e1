SPECIFICATION Spec
CONSTANTS
    Window = 3
    Batch = 2
    MaxConns = 1
    Setups <- Links
INVARIANT StreamIntact
PROPERTY Delivered
CHECK_DEADLOCK FALSE
