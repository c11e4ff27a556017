\* A chat's tool is checked while the plan is a draft and writes after a PATCH
\* has locked it.
CONSTANTS
    NoContent = NoContent
    Chats = {c1}
    Handlers = {h1}
    MaxWeek = 1
    MaxDinner = 1
    MaxException = 0
    MaxRetros = 0
    Days = {1}
    Statuses = {"draft", "ordered"}
    Contents = {dish}
    Ratings = {}
SPECIFICATION Spec
PROPERTIES LockedMenuFrozen
