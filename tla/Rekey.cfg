SPECIFICATION Spec
CONSTANTS
    MaxSkip = 4
    SkippedMax = 3
    RekeyEvery = 4
    Before = 3
    Setups <- Sessions
INVARIANT NoDesync
INVARIANT FoldTargetsLivePair
PROPERTY RekeyCompletes
CHECK_DEADLOCK FALSE
