SPECIFICATION FairSpec
CONSTANTS
    t1 = t1
    t2 = t2
    s1 = s1
    s2 = s2
    s3 = s3
    Nothing = Nothing
    Threads = {t1, t2}
    Searches = {s1, s2, s3}
    Target <- Targets
    OhmSearchType <- Ohm
    Datagrams <- SomeDatagrams
    MaxRegistrations = 2
    MaxDatagrams = 1
    TimerCanFail = TRUE
    PoolCanRefuse = TRUE
    SelectCanFail = TRUE
INVARIANTS SearchesListed
PROPERTIES TimeoutIsRight SearchEnds
CHECK_DEADLOCK FALSE
