SPECIFICATION Spec
CONSTANTS
    Threads = {t1, t2}
    Refs = {r1, r2}
    Objs = {o1, o2}
    Ops = {"init", "copy", "set", "clear", "copyassign", "moveassign", "lock", "fini"}
    Free = Free
    Null = Null
    Root = Root
INVARIANTS
    LocksExact
    LinksAgree
    NoDangling
    NoResurrection
    SpinsForRunner
SYMMETRY Symmetry
CHECK_DEADLOCK FALSE
