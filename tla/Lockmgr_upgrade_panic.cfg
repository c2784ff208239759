\* An exclusive request and an upgrade wait for the same shared lock.
CONSTANTS
    Threads = {t1, t2, t3}
    None = None
    Requests = {"SHARED", "EXCLUSIVE", "EXCLUPGRADE"}
    ExtFlags = {}
    Errors = FALSE
    MaxNest = 1
SPECIFICATION Spec
INVARIANT
    NoExclusivePanic
CHECK_DEADLOCK FALSE
