SPECIFICATION Spec
CONSTANTS
    anna = anna
    ben = ben
    None = None
    Peers = {anna, ben}
    MaxCmds = 1
    Setups <- GameSetups
INVARIANT OneGame
INVARIANT MirrorTrue
INVARIANT SearchAgrees
INVARIANT EndAgreed
CHECK_DEADLOCK FALSE
