SPECIFICATION Spec
CONSTANTS
    MaxEntries = 2
    Resumed = 2
    Mandatory = FALSE
    MaxEdits = 3
    MaxRemovals = 1
    MaxMishaps = 0
    Events = {}
INVARIANT DraftsKeepEveryEdit
CHECK_DEADLOCK FALSE
