SPECIFICATION Spec
CONSTANTS
    f1 = f1
    f2 = f2
    None = None
    Friends = {f1, f2}
    Setups <- CallSetups
INVARIANT DevicesOnlyInCall
INVARIANT StripTrue
INVARIANT AudioFlows
INVARIANT MuteHonoured
CHECK_DEADLOCK FALSE
