SPECIFICATION Spec
CONSTANTS
    Size = 4
    Step = 3
    BufCap = 2
    MaxXfers = 2
    MaxResume = 1
    Setups <- Transfers
INVARIANT ToldTrue
INVARIANT NoOrphan
PROPERTY Completes
PROPERTY AvatarSettles
CHECK_DEADLOCK FALSE
