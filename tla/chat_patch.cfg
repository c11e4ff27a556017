SPECIFICATION Spec
CONSTANTS
    Plans = {1, 2}
    First = 1
    MaxTurns = 2
    MaxIters = 2
    MaxCalls = 1
    MaxWire = 1
    MaxWork = 2
    MaxUpsets = 1
INVARIANT
    MenuLive
CHECK_DEADLOCK FALSE
