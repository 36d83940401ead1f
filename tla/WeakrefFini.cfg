SPECIFICATION Spec
CONSTANTS
    Threads = {t1, t2}
    Refs = {r1, r2}
    Objs = {o1}
    Ops = {"init", "fini", "lock"}
    Free = Free
    Null = Null
    Root = Root
INVARIANT
    NoUseAfterFini
CHECK_DEADLOCK FALSE
