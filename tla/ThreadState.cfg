\* Starts that fail, interrupts from all sides, waits that time out.
SPECIFICATION Spec
CONSTANTS
    c1 = c1
    c2 = c2
    w1 = w1
    Callers = {c1, c2}
    Workers = {w1}
    Calls <- MCCalls
    MaxSent <- MCMaxSent
INVARIANTS
    LockExact
    InOrder
    Announced
    DiscardAlone
    NoLostWakeup
