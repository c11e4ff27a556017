\* Restarts and kills anywhere in two releases of which the newer has two
\* migrations more, and the dumps of the serving process; two releases, two
\* checks at a time and two clicks on the update button.
CONSTANTS
    Releases = {1, 2, 3}
    Requests = {r1, r2}
    Keeps = {0, 1}
    PreKeep = 2
    Day = 2
    MaxManual = 1
    MaxTime = 5
    MaxRelease = 2
    MaxAsks = 2
    MaxClicks = 2
    Spacing = 1
SPECIFICATION ServerSpec
SYMMETRY Interchangeable
INVARIANTS
    ServerTypeOK
    MigratesOverDump
    UpgradeUndoable
    NightliesSpaced
    SavedBackupStays
    CalmDismissed
    SuccessOnce
