SPECIFICATION Spec
CONSTANTS
    MaxSkip = 3
    SkippedMax = 2
    RekeyEvery = 2
    MaxSeq = 7
INVARIANT TypeOK
INVARIANT NoReplay
INVARIANT VerdictSound
INVARIANT Aligned
PROPERTY Hygiene
