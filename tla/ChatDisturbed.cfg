SPECIFICATION Spec
CONSTANTS
    PendingMax = 2
    SentMax = 2
    FallbackAge = 2
    MaxInits = 2
    Setups <- Disturbed
INVARIANT ShownOnce
INVARIANT NoKeyReuse
PROPERTY NoSilentDowngrade
