SPECIFICATION FairSpec
CONSTANTS
    f1 = f1
    f2 = f2
    w1 = w1
    w2 = w2
    NoJob = NoJob
    Files = {f1, f2}
    Declared <- OneByteEach
    Sizes = {2, 3}
    MaxBytes = 2
    Claimable = {f1}
    Quota = 1
    Workers = {w1, w2}
    Attempts = 2
    Events = {"crash", "db_error", "queue_error", "storage_error", "wrong_type", "no_type", "other_length", "upload_again", "upload_late"}
    MaxFaults = 1
INVARIANTS
    UsageMatchesVerified
    QuotaRespected
    VerifiedIsWhatWasChecked
    VerdictIsFinal
PROPERTIES
    PendingEnds
CHECK_DEADLOCK FALSE
