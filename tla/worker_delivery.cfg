SPECIFICATION FairSpec
CONSTANTS
    s1 = s1
    s2 = s2
    h1 = h1
    w1 = w1
    w2 = w2
    NoJob = NoJob
    Mail = Mail
    NoIdentity = NoIdentity
    Submissions = {s1}
    Filed = {}
    Hooks = {h1}
    Workers = {w1, w2}
    Identity <- OneRegisters
    Attempts = 2
    MaxStalls = 1
    Events = {"crash", "lock_lost", "db_error", "lost_reply", "refused", "unsafe_url"}
    MaxFaults = 2
PROPERTIES
    ImplementsDelivery
    DeliveryEnds
CHECK_DEADLOCK FALSE
