\* Two messages with a chunk or a call and one upset; and two chats that share
\* the session of the shop, with the calls that take a token and then write.
CONSTANTS
    Plans = {1, 2}
    First = 1
    MaxTurns = 2
    MaxIters = 2
    MaxCalls = 1
    MaxWire = 1
    MaxWork = 1
    MaxUpsets = 1
    Chats = {1, 2}
    Accounts = {1}
    Kinds = {"clear"}
SPECIFICATION EndsSpec
PROPERTIES BusyEnds CallsEnd
CHECK_DEADLOCK FALSE
