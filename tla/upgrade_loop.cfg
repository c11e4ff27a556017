\* An upgrade whose second migration fails again and again.
CONSTANTS
    Releases = {1, 3}
    Requests = {}
    Keeps = {0, 1}
    PreKeep = 2
    Day = 2
    MaxManual = 1
    MaxTime = 6
SPECIFICATION Spec
INVARIANTS PreviousVersionKept
