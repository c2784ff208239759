\* One processor: the sections run to their end.
CONSTANTS
    Internal = {i1, i2}
    External = {x1, x2}
    Jobs = {j1, j2}
    CallThreadMin = 1
    NCPUS = 1
    MaxTime = 2
    MaxLoad = 3
SPECIFICATION Spec
SYMMETRY Symmetry
INVARIANTS
    TypeOK
    OneQueue
    TimerArmed
    ThreadsAccounted
    CancelUnschedules
