\* The acquiring operations, interrupts and timeouts, with liveness.
SPECIFICATION FairSpec
CONSTANTS
    Threads = {t1, t2, t3}
    Ops = {"tryacquire", "acquire", "acquire_timed"}
    TSO = FALSE
INVARIANTS
    MutualExclusion
    WaitwordExact
    NoLostWakeup
PROPERTIES
    SleepersNotAbandoned
    InterruptReachesWaiter
