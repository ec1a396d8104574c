SPECIFICATION Spec
CONSTANTS
    s1 = s1
    s2 = s2
    h1 = h1
    w1 = w1
    w2 = w2
    NoJob = NoJob
    Mail = Mail
    NoIdentity = NoIdentity
    Submissions = {s1, s2}
    Filed = {s2}
    Hooks = {h1}
    Workers = {w1, w2}
    Identity <- BothRegister
    Attempts = 2
    MaxStalls = 1
    Events = {"crash", "lock_lost", "db_error", "queue_error", "lost_reply", "refused", "unsafe_url", "replica_lag", "hook_deleted", "evicted"}
    MaxFaults = 2
INVARIANTS
    PersistedOnce
    IdentityUnique
    SideEffectsStarted
    GivenUpForAReason
    FailureIsTrue
SYMMETRY Slots
CHECK_DEADLOCK FALSE
