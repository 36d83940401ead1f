\* Liveness of the acquiring operations.
SPECIFICATION FairSpec
CONSTANTS
    Threads = {t1, t2, t3}
    Ops <- LiveOps
    Targets = {}
PROPERTIES
    SleepersNotAbandoned
    ReadersWake
