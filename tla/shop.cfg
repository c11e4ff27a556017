\* Two chats share the session: every interleaving of calls, logins, failures,
\* expiry, changed settings and restarts.  "add" takes the steps of "get" and
\* "clear" too.  And the lists of two plans with two products, two chats and two
\* calls, three when they do not overlap; a list whose plan is deleted is gone,
\* so the model may stop.
CONSTANTS
    Chats = {c1, c2}
    Accounts = {1, 2}
    Kinds = {"search", "add"}
    Codes = {milk, fish}
    MaxQty = 2
    Lists = {p, q}
    Shoppers = {c1, c2}
    MaxTools = 2
    MaxInTurn = 3
SPECIFICATION ShopSpec
SYMMETRY Interchangeable
INVARIANTS TypeOK NoStaleAccount CalmNoGuestCart CartIsListed RecordsWereAdded
CHECK_DEADLOCK FALSE
