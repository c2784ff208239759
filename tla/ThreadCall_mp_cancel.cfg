\* Two processors: the timer interrupt races with a cancel.
CONSTANTS
    Internal = {}
    External = {x1, x2}
    Jobs = {j1}
    CallThreadMin = 1
    NCPUS = 2
    MaxTime = 1
    MaxLoad = 3
SPECIFICATION Spec
INVARIANT
    CancelUnschedules
