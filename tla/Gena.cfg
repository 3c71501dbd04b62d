SPECIFICATION FairSpec
CONSTANTS
    t1 = t1
    t2 = t2
    s1 = s1
    s2 = s2
    NoThread = NoThread
    NoSub = NoSub
    NoTimer = NoTimer
    Threads = {t1, t2}
    Subs = {s1, s2}
    TimerIds <- FourTimers
    Ops = {"subscribe", "renew", "unsubscribe", "unregister", "action"}
    MaxCalls = 4
    Timeouts = {"timed", "infinite"}
    TimerCanFail = TRUE
    PoolCanRefuse = TRUE
INVARIANTS SubscriptionsKept LocksKept
PROPERTIES CallsReturn RenewalGoesOn AsyncAnswered
CHECK_DEADLOCK FALSE
