\* One chat and one HTTP request at a time over two plans.  Ids are bounded and
\* nothing refills the tables when all plans are deleted, so the model may stop.
CONSTANTS
    NoContent = NoContent
    Chats = {c1}
    Handlers = {h1}
    MaxWeek = 2
    MaxDinner = 4
    MaxException = 1
    MaxRetros = 1
    Days = {1, 2}
    Statuses = {"draft", "ordered"}
    Contents = {dish}
    Ratings = {"liked"}
SPECIFICATION PlansSpec
INVARIANTS TypeOK NoOrphans PendingInScope
PROPERTIES
    ScopeIsolation RowIdentity LockedPlanDrains KeepsBook
    FreshPatchKeepsSchedule CloneIsComplete
CHECK_DEADLOCK FALSE
