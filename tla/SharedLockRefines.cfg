\* Every operation, with a store buffer, against the abstract mutex.
SPECIFICATION Spec
CONSTANTS
    Threads = {t1, t2}
    Ops <- AllOps
    TSO = TRUE
PROPERTIES
    ImplementsMutex
