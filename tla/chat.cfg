\* Two messages between two plans.
SPECIFICATION BoundedSpec
CONSTANTS
    Plans = {1, 2}
    First = 1
    MaxTurns = 2
    MaxIters = 2
    MaxCalls = 1
    MaxWire = 1
    MaxWork = 2
    MaxUpsets = 2
INVARIANTS
    TypeOK
    RequestWhole
    ShownIsStored
    CardsSettle
    MenuFresh
CHECK_DEADLOCK FALSE
