\* Every behaviour of begin_noint is one of begin, which handles its interrupts
\* without an exception.  The block may fail once, and t1 is interrupted at will.
SPECIFICATION FairSpec
CONSTANTS
    Threads = {t1, t2, t3}
    Ops = {"begin", "trybegin"}
    Targets = {t1}
    Completed = 100
    MaxWaiting = 5
    MaxAborts = 1
INVARIANTS
    RunsOnce
    WordExact
    ZeroMeansDone
    NoLostWakeup
PROPERTIES
    CallsReturn
