SPECIFICATION Spec
CONSTANTS
    None = None
    c1 = c1
    c2 = c2
    MaxGroups = 2
    MaxPid = 2
    MaxInvites = 2
    MaxCmds = 2
    MaxEvs = 3
    Setups <- GroupSetups
INVARIANT InviteHonest
INVARIANT ListTrue
INVARIANT RosterTrue
CHECK_DEADLOCK FALSE
