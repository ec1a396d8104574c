SPECIFICATION FairSpec
CONSTANTS
    e1 = e1
    e2 = e2
    w1 = w1
    w2 = w2
    NoExport = NoExport
    Exports = {e1}
    Workers = {w1}
    MaxConcurrent = 1
    Attempts = 2
    MaxStalls = 1
    Events = {"crash", "lock_lost", "db_error", "storage_error", "queue_error", "lost_reply", "overdue", "forms_gone", "replica_lag"}
PROPERTIES
    RunningEnds
    ObjectsExpire
CHECK_DEADLOCK FALSE
