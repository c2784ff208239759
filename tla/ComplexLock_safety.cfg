\* Four threads, one of which may become the recursive owner.
CONSTANTS
    Threads = {t1, t2, t3, t4}
    None = None
    MaxNest = 3
    Uses = {"recursion"}
SPECIFICATION Spec
SYMMETRY Symmetry
INVARIANTS
    TypeOK
    Exclusion
    SleepersBlocked
    QuietMeansFree
PROPERTY
    ImplementsRWLock
