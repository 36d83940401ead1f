\* Readers, writers, upgrades and downgrades with timeouts and interrupts.
SPECIFICATION Spec
CONSTANTS
    Threads = {t1, t2, t3}
    Ops <- TakeOps
    Targets = {t1, t2, t3}
SYMMETRY ThreadSymmetry
INVARIANTS
    Exclusion
    WordExact
    WaitwordsExact
    NoLostWakeup
