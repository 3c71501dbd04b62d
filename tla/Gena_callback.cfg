SPECIFICATION Spec
CONSTANTS
    t1 = t1
    t2 = t2
    s1 = s1
    s2 = s2
    NoThread = NoThread
    NoSub = NoSub
    NoTimer = NoTimer
    Threads = {t1, t2}
    Subs = {s1}
    TimerIds <- TwoTimers
    Ops = {"subscribe", "unregister"}
    MaxCalls = 3
    Timeouts = {"timed"}
    TimerCanFail = FALSE
    PoolCanRefuse = FALSE
SYMMETRY Symmetry
PROPERTIES NoCallbackAfterUnregister
CHECK_DEADLOCK FALSE
