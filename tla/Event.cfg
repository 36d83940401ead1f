\* Every behaviour of waitfor_noint is one of waitfor, which handles its
\* interrupts without an exception.  t1 is interrupted at will.  Everyone may
\* wait for an event that nobody is left to set.
SPECIFICATION FairSpec
CONSTANTS
    Threads = {t1, t2, t3}
    Ops = {"waitfor", "timed"}
    Targets = {t1}
CHECK_DEADLOCK FALSE
INVARIANTS
    WordExact
    NoLostWakeup
    SuccessMeansSet
PROPERTIES
    WaitersReturn
