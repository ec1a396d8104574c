SPECIFICATION FairSpec
CONSTANTS
    p1 = p1
    MaxConns = 3
    Pods = {p1}
    Home <- OnePod
    Cap = 2
    MaxFaults = 1
    Events = {"redis_error", "subscribe_error", "unsubscribe_error", "slow_pod", "pod_killed"}
INVARIANTS
    OpenIsSubscribed
    CapRespected
PROPERTIES
    ListenersGo
    SlotsComeBack
CHECK_DEADLOCK FALSE
