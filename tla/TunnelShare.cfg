SPECIFICATION Spec
CONSTANTS
    anna = anna
    ben = ben
    cleo = cleo
    None = None
    Peers = {anna, ben, cleo}
    MaxTunnels = 2
    MaxCmds = 1
    Setups <- ShareSetups
INVARIANT ScreenTrue
INVARIANT NoCrossTalk
PROPERTY NoZombies
CHECK_DEADLOCK FALSE
