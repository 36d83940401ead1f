\* A try, acquire_noint (acquire only adds the exception that acquire_timed has
\* too) and acquire_timed; t1 is interrupted at will.  Batches of one and two.
\* Everyone may wait for a ticket that nobody is left to release.
SPECIFICATION FairSpec
CONSTANTS
    Threads = {t1, t2, t3}
    Ops <- AcquireOps
    Targets = {t1}
    Batches = {1, 2}
    MaxTickets = 2
CHECK_DEADLOCK FALSE
INVARIANTS
    TicketsConserved
    WaitwordExact
    NoLostWakeup
PROPERTIES
    SleepersNotAbandoned
