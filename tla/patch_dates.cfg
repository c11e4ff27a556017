\* One PATCH request on one plan: the dates it may leave behind.
CONSTANTS
    NoContent = NoContent
    Chats = {}
    Handlers = {h1}
    MaxWeek = 1
    MaxDinner = 2
    MaxException = 0
    MaxRetros = 0
    Days = {1, 2}
    Statuses = {"draft"}
    Contents = {dish}
    Ratings = {}
SPECIFICATION SeededSpec
PROPERTIES PatchKeepsDatesOrdered
CHECK_DEADLOCK FALSE
