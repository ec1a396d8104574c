SPECIFICATION Spec
CONSTANTS
    e1 = e1
    e2 = e2
    w1 = w1
    w2 = w2
    NoExport = NoExport
    Exports = {e1, e2}
    Workers = {w1, w2}
    MaxConcurrent = 1
    Attempts = 2
    MaxStalls = 1
    Events = {"crash", "db_error", "storage_error", "queue_error", "forms_gone"}
INVARIANTS
    TypeOK
    CompletedIsDownloadable
    ConcurrencyRespected
PROPERTIES
    FailedIsFinal
SYMMETRY MCSymmetry
CHECK_DEADLOCK FALSE
