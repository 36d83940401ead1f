\* The main thread, which thread_list does not hold, calls DeeRCU_Synchronize.
SPECIFICATION Spec
CONSTANTS
    Main = main
    Workers = {t1}
    Writers = {main}
    Objs = {o1, o2}
    MaxVers = 3
    Null = Null
INVARIANTS
    WalksLiveThreads
CHECK_DEADLOCK FALSE
