\* A page over two plans, with two requests and timers at a time; the settings
\* dialog with two fields; a provider, three saves and a restart.
CONSTANTS
    MaxVisible = 2
    MaxPlan = 2
    MaxJobs = 2
    MaxAttempts = 2
    Texts = {0, 1}
    Statuses = {"draft", "ordered"}
    Marks = {"liked"}
    MaxDays = 2
    MaxWork = 2
    MaxCalm = 4
    Fields = {"language", "notes"}
    Values = {"sv", "en"}
    MaxCalls = 2
    MaxEdits = 3
    Kinds = {"anthropic"}
    MaxKey = 1
    MaxField = 1
    MaxRequests = 2
    MaxSaves = 3
    MaxBoots = 1
SPECIFICATION WebSpec
INVARIANTS
    WebTypeOK
    UrlWins
    PendingIsShown
    CalmDirty
    CalmFresh
    RetriesEnd
    RetryIsLatest
    EditsArrive
    LangFollows
    MaskIsNoKey
    CardsAreStored
PROPERTIES
    ErrorsStay
