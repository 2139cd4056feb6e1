SPECIFICATION Spec
CONSTANTS
    Cap = 2
    Setups <- Clients
INVARIANT SleepsForCause
PROPERTY CommandsServed
PROPERTY Terminates
PROPERTY Unlocked
CHECK_DEADLOCK FALSE
