SPECIFICATION FairSpec
CONSTANTS
    Main = main
    Workers = {t1, t2}
    Writers = {t1, t2}
    Objs = {o1, o2, o3}
    MaxVers = 3
    Null = Null
INVARIANTS
    WalksLiveThreads
    GracePeriod
PROPERTIES
    ImplementsRCU
    SynchronizeReturns
    ListChangesEnd
CHECK_DEADLOCK FALSE
