SPECIFICATION Spec
CONSTANTS
    MaxEntries = 2
    Resumed = 2
    Mandatory = TRUE
    MaxEdits = 4
    MaxRemovals = 1
    MaxMishaps = 1
    Events = {"lost_save", "lost_delete", "lost_reply", "reload"}
INVARIANTS
    ServerHasDrafts
    FiledHoldsWhatWasTyped
    RemovedStaysRemoved
CONSTRAINT NotDone
CHECK_DEADLOCK FALSE
